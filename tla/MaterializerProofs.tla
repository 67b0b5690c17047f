------------------------- MODULE MaterializerProofs -------------------------
(***************************************************************************)
(* Theorems about Materializer, for every set of topics, every number of   *)
(* workers, and every number of messages, runs and rejoins.                *)
(***************************************************************************)
EXTENDS Materializer, FiniteSetTheorems, SequenceTheorems, TLAPS

USE ConstantAssumption, BoundAssumption

LEMMA ChannelSizeIsNat == ChannelSize \in Nat \ {0}
<1>1. Cardinality(Worker) \in Nat /\ Cardinality(Worker) # 0
  BY FS_CardinalityType, FS_EmptySet
<1> QED BY <1>1 DEF ChannelSize

----------------------------------------------------------------------------
(* The listener has a message in hand while it submits and commits it. *)
HandFull == state \in {"submit", "commit"} => inHand \in Message

TypeInv == TypeOK /\ HandFull

LEMMA CustodyType == TypeOK => Custody \subseteq Message
<1> SUFFICES ASSUME TypeOK PROVE Custody \subseteq Message
  OBVIOUS
<1>1. InChannel \subseteq Message
  BY ElementOfSeq DEF TypeOK, InChannel
<1>2. InWorkers \subseteq Message /\ pending \subseteq Message
  BY DEF TypeOK, InWorkers
<1> QED BY <1>1, <1>2 DEF Custody

LEMMA TypesKept == Spec => []TypeInv
<1>1. Init => TypeInv
  <2> SUFFICES ASSUME Init PROVE TypeInv
    OBVIOUS
  <2>1. /\ end \in [Topic -> Offset]
        /\ committed \in [Topic -> Offset \cup {NoOffset}]
        /\ position \in [Topic -> Offset \cup {NoOffset}]
        /\ busy \in [Worker -> Message \cup {None}]
    BY DEF Init, Offset
  <2>2. channel \in Seq(Message) /\ Len(channel) <= ChannelSize
    BY ChannelSizeIsNat DEF Init
  <2>3. runs \in 0 .. MaxRuns /\ rejoins \in 0 .. MaxRejoins
    BY DEF Init
  <2> QED BY <2>1, <2>2, <2>3 DEF Init, TypeInv, TypeOK, HandFull, StateValue
<1>2. TypeInv /\ [Next]_vars => TypeInv'
  <2> SUFFICES ASSUME TypeInv, [Next]_vars PROVE TypeInv'
    OBVIOUS
  <2> USE ChannelSizeIsNat
      DEF TypeInv, TypeOK, HandFull, StateValue, kafkaVars, listenVars, poolVars, database,
          history, Offset
  <2>1. ASSUME NEW t \in Topic, Produce(t) PROVE TypeInv'
    BY <2>1 DEF Produce
  <2>2. ASSUME NEW t \in Topic, OpenReader(t) PROVE TypeInv'
    <3>1. skipped' \subseteq Message
      BY <2>2 DEF OpenReader, Message
    <3> QED BY <2>2, <3>1 DEF OpenReader
  <2>3. ASSUME NEW t \in Topic, Rejoin(t) PROVE TypeInv'
    BY <2>3 DEF Rejoin
  <2>4. CASE Start
    <3>1. position' \in [Topic -> Offset \cup {NoOffset}]
      BY <2>4 DEF Start
    <3>2. readers' \subseteq Topic /\ runs' \in 0 .. MaxRuns /\ rejoins' \in 0 .. MaxRejoins
      BY <2>4 DEF Start
    <3> QED BY <2>4, <3>1, <3>2 DEF Start
  <2>5. CASE NextRound
    BY <2>5 DEF NextRound
  <2>6. CASE EndOfRound
    BY <2>6 DEF EndOfRound
  <2>7. ASSUME NEW t \in Topic, Fetch(t) PROVE TypeInv'
    <3>1. inHand' \in Message /\ position' \in [Topic -> Offset \cup {NoOffset}]
      BY <2>7 DEF Fetch, Message
    <3> QED BY <2>7, <3>1 DEF Fetch
  <2>8. ASSUME NEW t \in Topic, FetchFails(t) PROVE TypeInv'
    BY <2>8 DEF FetchFails
  <2>9. CASE Submit
    BY <2>9 DEF Submit
  <2>10. CASE Commit
    <3>1. committed' \in [Topic -> Offset \cup {NoOffset}]
      BY <2>10 DEF Commit, Message
    <3> QED BY <2>10, <3>1 DEF Commit
  <2>11. ASSUME NEW w \in Worker, Receive(w) PROVE TypeInv'
    <3>1. /\ Head(channel) \in Message
          /\ Tail(channel) \in Seq(Message) /\ Len(Tail(channel)) = Len(channel) - 1
      <4>1. channel \in Seq(Message) /\ channel # <<>>
        BY <2>11 DEF Receive
      <4> QED BY <4>1, HeadTailProperties
    <3>2. channel' \in Seq(Message) /\ Len(channel') <= ChannelSize
      BY <2>11, <3>1 DEF Receive
    <3>3. busy' = [busy EXCEPT ![w] = Head(channel)]
      BY <2>11 DEF Receive
    <3>4. busy' \in [Worker -> Message \cup {None}]
      BY <3>1, <3>3
    <3> QED BY <2>11, <3>2, <3>4 DEF Receive
  <2>12. ASSUME NEW w \in Worker, Process(w) PROVE TypeInv'
    BY <2>12 DEF Process
  <2>13. ASSUME NEW S \in SUBSET pending, Flush(S) PROVE TypeInv'
    BY <2>13 DEF Flush
  <2>14. CASE Signal
    BY <2>14 DEF Signal
  <2>15. CASE CloseChannel
    BY <2>15 DEF CloseChannel
  <2>16. CASE Drained
    BY <2>16 DEF Drained
  <2>17. CASE Stop
    BY <2>17 DEF Stop
  <2>18. CASE Crash
    <3>1. vanished' \subseteq Message
      BY <2>18, CustodyType DEF Crash
    <3>2. /\ busy' \in [Worker -> Message \cup {None}]
          /\ position' \in [Topic -> Offset \cup {NoOffset}]
      BY <2>18 DEF Crash
    <3>3. /\ channel' \in Seq(Message) /\ Len(channel') <= ChannelSize
          /\ rejoins' \in 0 .. MaxRejoins
      BY <2>18 DEF Crash
    <3> QED BY <2>18, <3>1, <3>2, <3>3 DEF Crash
  <2>19. CASE UNCHANGED vars
    BY <2>19 DEF vars
  <2> QED
    BY <2>1, <2>2, <2>3, <2>4, <2>5, <2>6, <2>7, <2>8, <2>9, <2>10, <2>11, <2>12, <2>13,
       <2>14, <2>15, <2>16, <2>17, <2>18, <2>19
       DEF Next, Listen, Close, Idle
<1> QED BY <1>1, <1>2, PTL DEF Spec

(* Every variable keeps its type: the channel stays within its size, offsets *)
(* within the log, whatever crashes and rejoins happen.                      *)
THEOREM TypeCorrect == Spec => []TypeOK
BY TypesKept, PTL DEF TypeInv

----------------------------------------------------------------------------
(* A message moves from hand to hand: whoever lets go of it has passed it on *)
(* or recorded its end.  Only a crash empties the process' hands.            *)
LEMMA SubmitKeeps == TypeInv /\ Submit => Custody \cup {inHand} \subseteq Custody'
<1> SUFFICES ASSUME TypeInv, Submit PROVE Custody \cup {inHand} \subseteq Custody'
  OBVIOUS
<1>1. channel \in Seq(Message) /\ inHand \in Message /\ channel' = Append(channel, inHand)
  BY DEF TypeInv, TypeOK, HandFull, Submit
<1>2. /\ DOMAIN channel = 1 .. Len(channel) /\ Len(channel) \in Nat
      /\ DOMAIN channel' = 1 .. Len(channel) + 1
      /\ \A i \in 1 .. Len(channel) : channel'[i] = channel[i]
      /\ channel'[Len(channel) + 1] = inHand
  BY <1>1, AppendProperties, LenProperties
<1>3. InChannel \cup {inHand} \subseteq InChannel'
  BY <1>2 DEF InChannel
<1>4. InWorkers' = InWorkers /\ pending' = pending
  BY DEF Submit, InWorkers
<1> QED BY <1>3, <1>4 DEF Custody

LEMMA ReceiveKeeps ==
  ASSUME TypeInv, NEW w \in Worker, Receive(w)
  PROVE  Custody \subseteq Custody'
<1>1. channel \in Seq(Message) /\ channel # <<>> /\ channel' = Tail(channel)
  BY DEF TypeInv, TypeOK, Receive
<1>2. busy \in [Worker -> Message \cup {None}] /\ busy[w] = None
      /\ busy' = [busy EXCEPT ![w] = Head(channel)]
  BY DEF TypeInv, TypeOK, Receive
<1>3. /\ DOMAIN channel = 1 .. Len(channel) /\ Len(channel) \in Nat
      /\ DOMAIN channel' = 1 .. Len(channel) - 1
      /\ \A i \in 1 .. Len(channel) - 1 : channel'[i] = channel[i + 1]
      /\ Head(channel) = channel[1] /\ Head(channel) \in Message
  BY <1>1, HeadTailProperties, LenProperties
<1>4. InChannel \subseteq InChannel' \cup {Head(channel)}
  <2> SUFFICES ASSUME NEW i \in 1 .. Len(channel), i # 1
               PROVE  channel[i] \in InChannel'
    BY <1>3 DEF InChannel
  <2>1. i - 1 \in 1 .. Len(channel) - 1 /\ channel'[i - 1] = channel[i]
    BY <1>3
  <2> QED BY <2>1, <1>3 DEF InChannel
<1>5. Head(channel) # None
  BY <1>3
<1>6. InWorkers \cup {Head(channel)} \subseteq InWorkers'
  BY <1>2, <1>5 DEF InWorkers
<1>7. pending' = pending
  BY DEF Receive
<1> QED BY <1>4, <1>6, <1>7 DEF Custody

LEMMA ProcessKeeps ==
  ASSUME TypeInv, NEW w \in Worker, Process(w)
  PROVE  Custody \cup Finished \subseteq Custody' \cup Finished'
<1>1. InChannel' = InChannel
  BY DEF Process, InChannel
<1>2. InWorkers \subseteq InWorkers' \cup {busy[w]}
  BY DEF Process, InWorkers, TypeInv, TypeOK
<1>3. /\ pending \subseteq pending' /\ Finished \subseteq Finished'
      /\ busy[w] \in pending' \cup Finished'
  BY DEF Process, Finished
<1> QED BY <1>1, <1>2, <1>3 DEF Custody

LEMMA FlushKeeps ==
  ASSUME NEW S \in SUBSET pending, Flush(S)
  PROVE  Custody \cup Finished \subseteq Custody' \cup Finished'
<1>1. InChannel' = InChannel /\ InWorkers' = InWorkers
  BY DEF Flush, InChannel, InWorkers, poolVars
<1>2. pending \cup Finished \subseteq pending' \cup Finished'
  BY DEF Flush, Finished
<1> QED BY <1>1, <1>2 DEF Custody

LEMMA KeptGrows ==
  ASSUME TypeInv, Next, ~Crash
  PROVE  Kept \subseteq Kept'
<1> USE DEF Kept
<1> DEFINE Same == UNCHANGED <<channel, busy, pending, stored, orphans, givenUp, vanished>>
<1>1. ASSUME Same, skipped \subseteq skipped' PROVE Kept \subseteq Kept'
  <2>1. Custody' = Custody /\ Finished' = Finished
    BY <1>1 DEF Custody, InChannel, InWorkers, Finished
  <2> QED BY <1>1, <2>1
<1>2. ASSUME NEW t \in Topic, Produce(t) \/ OpenReader(t) \/ Rejoin(t)
      PROVE  Same /\ skipped \subseteq skipped'
  BY <1>2 DEF Produce, OpenReader, Rejoin, poolVars, database, history
<1>3. Start \/ NextRound \/ EndOfRound \/ Commit => Same /\ skipped \subseteq skipped'
  BY DEF Start, NextRound, EndOfRound, Commit, poolVars, database, history
<1>4. ASSUME NEW t \in Topic, Fetch(t) \/ FetchFails(t)
      PROVE  Same /\ skipped \subseteq skipped'
  BY <1>4 DEF Fetch, FetchFails, poolVars, database, history
<1>5. Signal \/ Close \/ Idle => Same /\ skipped \subseteq skipped'
  BY DEF Signal, Close, CloseChannel, Drained, Stop, Idle, vars, poolVars, database, history
<1>6. CASE Submit
  BY <1>6, SubmitKeeps DEF Submit, Finished, database, history
<1>7. ASSUME NEW w \in Worker, Receive(w) PROVE Kept \subseteq Kept'
  BY <1>7, ReceiveKeeps DEF Receive, Finished, database, history
<1>8. ASSUME NEW w \in Worker, Process(w) PROVE Kept \subseteq Kept'
  BY <1>8, ProcessKeeps DEF Process
<1>9. ASSUME NEW S \in SUBSET pending, Flush(S) PROVE Kept \subseteq Kept'
  BY <1>9, FlushKeeps DEF Flush
<1> QED BY <1>1, <1>2, <1>3, <1>4, <1>5, <1>6, <1>7, <1>8, <1>9 DEF Next, Listen

LEMMA CrashKeeps ==
  ASSUME Crash, NEW m \in Kept, Covered(m)
  PROVE  m \in Kept'
BY DEF Crash, Kept, Finished, database

----------------------------------------------------------------------------
(* What makes CommittedIsKept inductive.  Messages of a topic are fetched in *)
(* the order of their offsets, so that all below the reader's position are   *)
(* kept but the one in the listener's hand, and a commit covers, with that   *)
(* one, only kept ones.                                                      *)
FetchedIsKept ==
  \A m \in Message :
    position[m[1]] # NoOffset /\ m[2] < position[m[1]] =>
      m \in Kept \/ (state = "submit" /\ m = inHand)

HandOrder ==
  state \in {"submit", "commit"} =>
    \A m \in Message : m[1] = inHand[1] /\ m[2] < inHand[2] => m \in Kept

HandKept == state = "commit" => inHand \in Kept

CustodyInv == TypeInv /\ CommittedIsKept /\ FetchedIsKept /\ HandOrder /\ HandKept

(* Steps that touch neither the offsets nor the listener's message. *)
LEMMA BystanderStep ==
  ASSUME CustodyInv, Kept \subseteq Kept',
         UNCHANGED <<committed, position, state, inHand>>
  PROVE  (CommittedIsKept /\ FetchedIsKept /\ HandOrder /\ HandKept)'
BY DEF CustodyInv, CommittedIsKept, FetchedIsKept, HandOrder, HandKept, Covered

LEMMA CustodyStep ==
  ASSUME CustodyInv, TypeInv', Next
  PROVE  CustodyInv'
<1> SUFFICES (CommittedIsKept /\ FetchedIsKept /\ HandOrder /\ HandKept)'
  BY DEF CustodyInv
<1> USE DEF CommittedIsKept, FetchedIsKept, HandOrder, HandKept
<1>0. ~Crash => Kept \subseteq Kept'
  BY KeptGrows DEF CustodyInv
<1>1. ASSUME NEW t \in Topic, Produce(t)
      PROVE  (CommittedIsKept /\ FetchedIsKept /\ HandOrder /\ HandKept)'
  <2>1. UNCHANGED <<committed, position, state, inHand>>
    BY <1>1 DEF Produce, listenVars
  <2>2. ~Crash
    BY <2>1 DEF Crash, Alive
  <2> QED BY <1>0, <2>1, <2>2, BystanderStep
<1>2. ASSUME NEW t \in Topic, OpenReader(t)
      PROVE  (CommittedIsKept /\ FetchedIsKept /\ HandOrder /\ HandKept)'
  <2>1. Kept \subseteq Kept' /\ UNCHANGED <<committed, state, inHand>>
    BY <1>0, <1>2 DEF OpenReader, Crash, listenVars
  <2>2. (CommittedIsKept /\ HandOrder /\ HandKept)'
    BY <2>1 DEF CustodyInv, Covered
  <2>3. ASSUME NEW m \in Message, position'[m[1]] # NoOffset, m[2] < position'[m[1]]
        PROVE  m \in Kept' \/ (state' = "submit" /\ m = inHand')
    <3>1. CASE m[1] # t
      <4>1. position'[m[1]] = position[m[1]]
        BY <1>2, <3>1 DEF OpenReader, CustodyInv, TypeInv, TypeOK, Message
      <4> QED BY <2>1, <2>3, <4>1 DEF CustodyInv
    <3>2. CASE m[1] = t /\ committed[t] # NoOffset
      <4>1. position'[t] = committed[t]
        BY <1>2, <3>2 DEF OpenReader, CustodyInv, TypeInv, TypeOK
      <4> QED BY <2>1, <2>3, <3>2, <4>1 DEF CustodyInv, Covered
    <3>3. CASE m[1] = t /\ committed[t] = NoOffset
      <4>1. position'[t] = end[t]
        BY <1>2, <3>3 DEF OpenReader, CustodyInv, TypeInv, TypeOK
      <4>2. m = <<t, m[2]>> /\ m[2] \in 0 .. end[t] - 1
        BY <2>3, <3>3, <4>1 DEF Message, CustodyInv, TypeInv, TypeOK, Offset
      <4>3. m \in skipped'
        BY <1>2, <3>3, <4>2 DEF OpenReader
      <4> QED BY <4>3 DEF Kept
    <3> QED BY <3>1, <3>2, <3>3
  <2> QED BY <2>2, <2>3
<1>3. ASSUME NEW t \in Topic, Rejoin(t)
      PROVE  (CommittedIsKept /\ FetchedIsKept /\ HandOrder /\ HandKept)'
  <2>1. Kept \subseteq Kept' /\ UNCHANGED <<committed, state, inHand>>
    BY <1>0, <1>3 DEF Rejoin, Crash, listenVars
  <2>2. \A u \in Topic : position'[u] # NoOffset => position'[u] = position[u]
    BY <1>3 DEF Rejoin, CustodyInv, TypeInv, TypeOK
  <2> QED BY <2>1, <2>2 DEF CustodyInv, Covered, Message
<1>4. CASE Start
  <2>1. Kept \subseteq Kept' /\ UNCHANGED committed /\ state' = "loop"
    BY <1>0, <1>4 DEF Start, Crash
  <2>2. \A u \in Topic : position'[u] = NoOffset
    BY <1>4 DEF Start
  <2> QED BY <2>1, <2>2 DEF CustodyInv, Covered, Message
<1>5. CASE NextRound \/ EndOfRound \/ Signal \/ Close
  <2>1. Kept \subseteq Kept' /\ UNCHANGED <<committed, position, inHand>>
        /\ (state' = state \/ state' \notin {"submit", "commit"})
        /\ (state = "submit" => state' = "submit")
    BY <1>0, <1>5
       DEF NextRound, EndOfRound, Signal, Close, CloseChannel, Drained, Stop, Crash,
           kafkaVars, listenVars
  <2> QED BY <2>1 DEF CustodyInv, Covered
<1>6. ASSUME NEW t \in Topic, Fetch(t)
      PROVE  (CommittedIsKept /\ FetchedIsKept /\ HandOrder /\ HandKept)'
  <2>1. Kept \subseteq Kept' /\ UNCHANGED committed
        /\ state = "round" /\ state' = "submit" /\ inHand' = <<t, position[t]>>
    BY <1>0, <1>6 DEF Fetch, Crash
  <2>2. /\ position[t] \in Nat /\ position[t] # NoOffset
        /\ position'[t] = position[t] + 1
        /\ \A u \in Topic \ {t} : position'[u] = position[u]
    BY <1>6 DEF Fetch, CustodyInv, TypeInv, TypeOK, Offset
  <2>3. \A m \in Message : m[1] = t /\ m[2] < position[t] => m \in Kept
    BY <2>1, <2>2 DEF CustodyInv
  <2>4. ASSUME NEW m \in Message, position'[m[1]] # NoOffset, m[2] < position'[m[1]]
        PROVE  m \in Kept' \/ m = inHand'
    <3>1. CASE m[1] # t
      <4>1. position'[m[1]] = position[m[1]]
        BY <2>2, <3>1 DEF Message
      <4> QED BY <2>1, <2>4, <4>1 DEF CustodyInv
    <3>2. CASE m[1] = t
      <4>1. m = <<t, m[2]>> /\ m[2] \in Nat /\ m[2] < position[t] + 1
        BY <2>2, <2>4, <3>2 DEF Message
      <4>2. m[2] < position[t] \/ m[2] = position[t]
        BY <2>2, <4>1
      <4> QED BY <2>1, <2>3, <3>2, <4>1, <4>2
    <3> QED BY <3>1, <3>2
  <2> QED BY <2>1, <2>3, <2>4 DEF CustodyInv, Covered
<1>7. ASSUME NEW t \in Topic, FetchFails(t)
      PROVE  (CommittedIsKept /\ FetchedIsKept /\ HandOrder /\ HandKept)'
  BY <1>0, <1>7, BystanderStep DEF FetchFails, Crash, kafkaVars
<1>8. CASE Submit
  <2>1. /\ Kept \subseteq Kept' /\ UNCHANGED <<committed, position, inHand>>
        /\ state = "submit" /\ state' = "commit"
    BY <1>0, <1>8 DEF Submit, Crash, kafkaVars, listenVars
  <2>2. inHand \in Kept'
    BY <1>8, SubmitKeeps DEF CustodyInv, Kept
  <2> QED BY <2>1, <2>2 DEF CustodyInv, Covered
<1>9. CASE Commit
  <2>1. /\ Kept \subseteq Kept' /\ UNCHANGED position
        /\ state = "commit" /\ state' = "round"
        /\ inHand \in Message /\ inHand \in Kept
    BY <1>0, <1>9 DEF Commit, Crash, CustodyInv, TypeInv, HandFull
  <2>2. ASSUME NEW m \in Message, Covered(m)' PROVE m \in Kept'
    <3>1. CASE Covered(m)
      BY <2>1, <3>1 DEF CustodyInv
    <3>2. CASE ~Covered(m)
      <4>1. m[1] = inHand[1] /\ committed'[m[1]] = inHand[2] + 1
        BY <1>9, <2>2, <3>2 DEF Commit, Covered, CustodyInv, TypeInv, TypeOK, Message
      <4>2. m[2] \in Nat /\ inHand[2] \in Nat /\ m[2] < inHand[2] + 1
        BY <2>1, <2>2, <4>1 DEF Covered, Message
      <4>3. m[2] < inHand[2] \/ m = inHand
        BY <2>1, <4>1, <4>2 DEF Message
      <4> QED BY <2>1, <4>1, <4>3 DEF CustodyInv
    <3> QED BY <3>1, <3>2
  <2> QED BY <2>1, <2>2 DEF CustodyInv
<1>10. ASSUME NEW w \in Worker, Receive(w) \/ Process(w)
       PROVE  (CommittedIsKept /\ FetchedIsKept /\ HandOrder /\ HandKept)'
  <2>1. UNCHANGED <<committed, position, state, inHand>>
    BY <1>10 DEF Receive, Process, kafkaVars, listenVars
  <2>2. ~Crash
    BY <1>10, <2>1 DEF Crash, Receive, Process, Alive
  <2> QED BY <1>0, <2>1, <2>2, BystanderStep
<1>11. ASSUME NEW S \in SUBSET pending, Flush(S)
       PROVE  (CommittedIsKept /\ FetchedIsKept /\ HandOrder /\ HandKept)'
  <2>1. UNCHANGED <<committed, position, state, inHand>>
    BY <1>11 DEF Flush, kafkaVars, listenVars
  <2>2. ~Crash
    BY <1>11, <2>1 DEF Crash, Flush, Alive
  <2> QED BY <1>0, <2>1, <2>2, BystanderStep
<1>12. CASE Crash
  <2>1. state' = "down" /\ UNCHANGED committed
    BY <1>12 DEF Crash
  <2>2. \A u \in Topic : position'[u] = NoOffset
    BY <1>12 DEF Crash
  <2>3. \A m \in Message : Covered(m)' => m \in Kept'
    BY <1>12, <2>1, CrashKeeps DEF CustodyInv, Covered
  <2> QED BY <2>1, <2>2, <2>3 DEF Message
<1>13. CASE Idle
  <2>1. UNCHANGED vars
    BY <1>13 DEF Idle
  <2>2. Kept' = Kept
    BY <2>1 DEF vars, Kept, Custody, InChannel, InWorkers, Finished, poolVars, database,
                history
  <2> QED BY <2>1, <2>2, BystanderStep DEF vars, kafkaVars, listenVars
<1> QED
  BY <1>1, <1>2, <1>3, <1>4, <1>5, <1>6, <1>7, <1>8, <1>9, <1>10, <1>11, <1>12, <1>13
     DEF Next, Listen

LEMMA CustodyAlways == Spec => []CustodyInv
<1>1. Init => CommittedIsKept /\ FetchedIsKept /\ HandOrder /\ HandKept
  BY DEF Init, CommittedIsKept, FetchedIsKept, HandOrder, HandKept, Covered, Message
<1>2. CustodyInv /\ TypeInv' /\ [Next]_vars => CustodyInv'
  <2>1. CASE Next
    BY <2>1, CustodyStep
  <2>2. CASE CustodyInv /\ TypeInv' /\ UNCHANGED vars
    <3>1. UNCHANGED <<committed, position, state, inHand>> /\ Kept' = Kept
      BY <2>2 DEF vars, kafkaVars, listenVars, poolVars, database, history,
                  Kept, Custody, InChannel, InWorkers, Finished
    <3> QED BY <2>2, <3>1, BystanderStep DEF CustodyInv
  <2> QED BY <2>1, <2>2
<1> QED BY <1>1, <1>2, TypesKept, PTL DEF Spec, CustodyInv

(* No commit runs ahead of what the process holds or has finished, whatever   *)
(* the interleaving of listener, workers, rejoins, signals and restarts: only *)
(* a crash separates a committed offset from its message.                     *)
THEOREM CommitNeverAhead == Spec => []CommittedIsKept
BY CustodyAlways, PTL DEF CustodyInv

----------------------------------------------------------------------------
(* Close leaves the pool and then the batch writer empty, and nothing comes  *)
(* into them afterwards: the listener has returned before Close begins.      *)
Quiet ==
  /\ state \in {"flush", "stopped"} =>
       channel = <<>> /\ \A w \in Worker : busy[w] = None
  /\ state = "stopped" => pending = {}

LEMMA QuietAlways == Spec => []Quiet
<1>1. Init => Quiet
  BY DEF Init, Quiet
<1>2. Quiet /\ [Next]_vars => Quiet'
  <2> SUFFICES ASSUME Quiet, [Next]_vars PROVE Quiet'
    OBVIOUS
  <2> USE DEF Quiet, Alive
  <2>1. ASSUME NEW t \in Topic,
               Produce(t) \/ OpenReader(t) \/ Rejoin(t) \/ Fetch(t) \/ FetchFails(t)
        PROVE  Quiet'
    BY <2>1 DEF Produce, OpenReader, Rejoin, Fetch, FetchFails, poolVars
  <2>2. CASE Start \/ NextRound \/ EndOfRound \/ Submit \/ Commit \/ CloseChannel \/ Crash
    BY <2>2 DEF Start, NextRound, EndOfRound, Submit, Commit, CloseChannel, Crash
  <2>3. ASSUME NEW w \in Worker, Receive(w) \/ Process(w) PROVE Quiet'
    BY <2>3 DEF Receive, Process
  <2>4. ASSUME NEW S \in SUBSET pending, Flush(S) PROVE Quiet'
    BY <2>4 DEF Flush, poolVars
  <2>5. CASE Signal \/ Drained \/ Stop
    BY <2>5 DEF Signal, Drained, Stop, poolVars
  <2>6. CASE UNCHANGED vars
    BY <2>6 DEF vars, poolVars
  <2> QED BY <2>1, <2>2, <2>3, <2>4, <2>5, <2>6 DEF Next, Listen, Close, Idle
<1> QED BY <1>1, <1>2, PTL DEF Spec

(* A stop by signal loses nothing: what the readers had fetched was in the   *)
(* process' hands, and Close has emptied them into PostgreSQL or the log.    *)
THEOREM StopIsClean == Spec => []StopLosesNothing
<1>1. CustodyInv /\ Quiet => StopLosesNothing
  <2> SUFFICES ASSUME CustodyInv, Quiet, state = "stopped", NEW m \in Message,
                      m \notin Finished \cup skipped \cup vanished
               PROVE  ~Covered(m) /\ (position[m[1]] = NoOffset \/ m[2] >= position[m[1]])
    BY DEF StopLosesNothing
  <2>1. Custody = {}
    BY DEF Quiet, Custody, InChannel, InWorkers
  <2>2. m \notin Kept
    BY <2>1 DEF Kept
  <2>3. ~Covered(m)
    BY <2>2 DEF CustodyInv, CommittedIsKept
  <2>4. position[m[1]] = NoOffset \/ ~(m[2] < position[m[1]])
    BY <2>2 DEF CustodyInv, FetchedIsKept
  <2>5. m[2] \in Nat /\ position[m[1]] \in Nat \cup {NoOffset}
    BY DEF CustodyInv, TypeInv, TypeOK, Message, Offset
  <2> QED BY <2>3, <2>4, <2>5
<1> QED BY <1>1, CustodyAlways, QuietAlways, PTL
=============================================================================
