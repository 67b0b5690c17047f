------------------------ MODULE CommandServiceProofs ------------------------
(***************************************************************************)
(* Theorems about CommandService, for every topic, every number of         *)
(* connections from three on, and any number of pings and faults.          *)
(***************************************************************************)
EXTENDS CommandService, FiniteSetTheorems, TLAPS

USE CommandAssumption

(* What each goroutine has in hand at each place: a connection from ReadConn   *)
(* on, and the consumer a command with its attempt.                            *)
Places ==
  /\ \A g \in Goroutine :
       /\ pc[g] \in {"start", "idle", "conn", "connect", "commit", "gone"} => held[g] = None
       /\ pc[g] \in {"id", "send", "read"} => held[g] \in Conn
  /\ pc[pinger] \notin {"start", "commit"}
  /\ pc[consumer] \notin {"start", "idle", "gone"} => command \in Command
  /\ pc[consumer] \in {"conn", "id", "send", "read", "clear"} => attempt \in {1, 2}
  /\ pc[consumer] = "connect" => attempt = 1
  /\ pc[consumer] = "start" => command = 0 /\ pc[pinger] = "gone"

(* A connection that was closed holds nothing; one that is open is the client's. *)
Links ==
  \A k \in Conn : /\ IsFiniteSet(link[k].requests)
                  /\ ~link[k].writable => link[k] = Closed

TypeInv == TypeOK /\ Places /\ Links /\ NoStrayConnection

(* The messages on the client's connection are below its counter, and only the *)
(* consumer's command has the consumer's id.                                   *)
Held(g) == held[g] # None /\ held[g] = conn
Messages == IF conn = None THEN {} ELSE link[conn].requests \cup link[conn].replies

Ids ==
  /\ conn # None => link[conn].lastId <= msgID /\ \A r \in Messages : r.id <= msgID
  /\ \A g \in Goroutine : Held(g) /\ pc[g] \in {"send", "read"} => id[g] <= msgID
  /\ Held(consumer) /\ Held(pinger) /\ pc[consumer] \in {"send", "read"}
       /\ pc[pinger] \in {"send", "read"} => id[consumer] # id[pinger]
  /\ \A g \in Goroutine : Held(g) /\ pc[g] = "send" => \A r \in Messages : r.id # id[g]
  /\ Held(consumer) /\ pc[consumer] = "read" =>
       \A r \in Messages : r.id = id[consumer] => r.what = command

(* A result that says so was executed. *)
Results ==
  /\ \A k \in Conn : \A r \in link[k].replies :
       r.type = "result" /\ r.success => r.what \in Command /\ execs[r.what] > 0
  /\ SuccessIsExecuted

(* The commands up to the committed one, and those up to the one in hand, have *)
(* been treated.                                                               *)
Treated ==
  /\ CommittedIsTreated
  /\ command = 0 \/ committed <= command
  /\ \A c \in Command : c < command => outcome[c] # "none"
  /\ command # 0 /\ pc[consumer] \in {"idle", "commit", "gone"} => outcome[command] # "none"

(* Executions a command may still come to: what is under way, and the calls   *)
(* the consumer has still to make.                                            *)
Requests == IF conn = None THEN {} ELSE link[conn].requests
Asking(R, c) == Cardinality({r \in R : r.what = c})
Pending(c) == Asking(Requests, c)
CallsLeft(c) ==
  IF c # command \/ pc[consumer] \in {"start", "idle", "commit", "gone"} THEN 0
    ELSE IF pc[consumer] \in {"conn", "id", "send"} THEN 3 - attempt ELSE 2 - attempt
Budget ==
  \A c \in Command : execs[c] + Pending(c) + CallsLeft(c) <= 2 * deliveries[c]

----------------------------------------------------------------------------
(* Consumer and pinger are the two goroutines. *)
LEMMA Goroutines ==
  /\ consumer \in Goroutine /\ pinger \in Goroutine /\ consumer # pinger
  /\ \A g \in Goroutine : g # consumer => g = pinger
BY DEF Goroutine, consumer, pinger

(* A closed connection and a new one. *)
LEMMA LinkTypes ==
  /\ Closed \in Link /\ Fresh \in Link
  /\ Closed.requests = {} /\ Closed.replies = {} /\ Closed.writable = FALSE
  /\ Fresh.requests = {} /\ Fresh.replies = {} /\ Fresh.lastId = 0 /\ Fresh.writable = TRUE
BY DEF Closed, Fresh, Link

(* Only the client's connection has messages. *)
LEMMA MessagesOnConn ==
  ASSUME TypeInv, NEW k \in Conn, k # conn
  PROVE  link[k] = Closed /\ link[k].requests = {} /\ link[k].replies = {}
BY LinkTypes DEF TypeInv, Links, NoStrayConnection

(* How many of some requests are of one command. *)
LEMMA AskingCounts ==
  ASSUME NEW R, IsFiniteSet(R), NEW c
  PROVE  /\ Asking(R, c) \in Nat
         /\ \A S : S \subseteq R => Asking(S, c) \in Nat /\ Asking(S, c) <= Asking(R, c)
<1> DEFINE Of(S) == {r \in S : r.what = c}
<1>1. ASSUME NEW S, S \subseteq R
      PROVE  /\ Cardinality(Of(S)) \in Nat /\ Cardinality(Of(R)) \in Nat
             /\ Cardinality(Of(S)) <= Cardinality(Of(R))
  <2>1. Of(S) \in SUBSET Of(R) /\ Of(R) \in SUBSET R
    BY <1>1
  <2> HIDE DEF Of
  <2>2. IsFiniteSet(Of(R))
    BY <2>1, FS_Subset
  <2> QED BY <2>1, <2>2, FS_Subset, FS_CardinalityType
<1>2. \A S : Asking(S, c) = Cardinality(Of(S))
  BY DEF Asking
<1> HIDE DEF Of
<1> QED BY <1>1, <1>2

(* Requests under way are finitely many, so they can be counted. *)
LEMMA PendingCounts ==
  ASSUME TypeInv
  PROVE  IsFiniteSet(Requests) /\ \A c : Pending(c) \in Nat
<1>1. IsFiniteSet(Requests)
  BY FS_EmptySet DEF Requests, TypeInv, TypeOK, Links
<1> QED BY <1>1, AskingCounts DEF Pending

(* What executing a set of requests adds. *)
LEMMA Executing ==
  ASSUME TypeOK, NEW R, IsFiniteSet(R), execs' = Executed(R)
  PROVE  /\ execs' \in [Command -> Nat]
         /\ \A c \in Command : execs'[c] = execs[c] + Asking(R, c) /\ execs'[c] >= execs[c]
<1>1. \A c : Asking(R, c) \in Nat
  BY AskingCounts, Zenon
<1>2. execs' = [c \in Command |-> execs[c] + Asking(R, c)]
  BY DEF Executed, Asking
<1> QED BY <1>1, <1>2 DEF TypeOK

(* When connections end, only requests under way on the client's are executed. *)
LEMMA Ending ==
  ASSUME TypeInv, NEW K \in SUBSET Conn, Ends(K)
  PROVE  /\ execs' \in [Command -> Nat]
         /\ \A c \in Command : execs'[c] >= execs[c] /\ execs'[c] <= execs[c] + Pending(c)
<1>1. PICK S \in SUBSET UNION {link[k].requests : k \in K} : execs' = Executed(S)
  BY DEF Ends
<1>2. S \subseteq Requests
  BY <1>1, MessagesOnConn DEF TypeInv, TypeOK, Requests
<1>3. IsFiniteSet(S)
  BY <1>2, PendingCounts, FS_Subset
<1>4. \A c \in Command : Asking(S, c) <= Pending(c) /\ Asking(S, c) \in Nat /\ Pending(c) \in Nat
  BY <1>2, PendingCounts, AskingCounts DEF Pending
<1>5. /\ execs' \in [Command -> Nat]
      /\ \A c \in Command : execs'[c] = execs[c] + Asking(S, c) /\ execs'[c] >= execs[c]
  BY <1>1, <1>3, Executing DEF TypeInv
<1> QED BY <1>4, <1>5 DEF TypeInv, TypeOK

(* The client's connection and the one a goroutine holds are at most two. *)
LEMMA PairIsSmall ==
  ASSUME NEW a, NEW b
  PROVE  IsFiniteSet({a, b}) /\ Cardinality({a, b}) <= 2
<1>1. IsFiniteSet({a}) /\ Cardinality({a}) = 1
  BY FS_Singleton
<1>2. {a, b} = {a} \cup {b}
  OBVIOUS
<1>3. /\ IsFiniteSet({a} \cup {b})
      /\ Cardinality({a} \cup {b}) = IF b \in {a} THEN Cardinality({a}) ELSE Cardinality({a}) + 1
  BY <1>1, FS_AddElement
<1> QED BY <1>1, <1>2, <1>3

(* A goroutine that connects finds a connection to use. *)
LEMMA ConnFree ==
  ASSUME TypeInv, NEW g \in Goroutine, pc[g] \in {"start", "connect"}
  PROVE  LET k == CHOOSE j \in Conn : Free(j) IN k \in Conn /\ Free(k)
<1> USE Goroutines
<1>1. held[g] = None
  BY DEF TypeInv, Places
<1>2. SUFFICES \E k \in Conn : Free(k)
  OBVIOUS
<1>3. SUFFICES ASSUME \A k \in Conn : ~Free(k) PROVE FALSE
  OBVIOUS
<1>4. PICK h : \A k \in Conn : k = conn \/ k = h
  <2>1. \E h : \A q \in Goroutine : held[q] \in {None, h}
    BY <1>1
  <2> QED BY <1>3, <2>1 DEF Free, TypeInv, NoStrayConnection
<1>5. Conn \subseteq {conn, h}
  BY <1>4
<1>6. IsFiniteSet({conn, h}) /\ Cardinality({conn, h}) <= 2
  BY PairIsSmall
<1>7. Cardinality(Conn) <= 2
  <2>1. Cardinality(Conn) <= Cardinality({conn, h}) /\ Cardinality({conn, h}) \in Nat
        /\ Cardinality(Conn) \in Nat
    BY <1>5, <1>6, FS_Subset, FS_CardinalityType
  <2> QED BY <1>6, <2>1
<1> QED BY <1>7, FS_CardinalityType

(* Close, of the connection the client has. *)
LEMMA Closing ==
  ASSUME TypeInv, Close(conn)
  PROVE  /\ execs' \in [Command -> Nat] /\ link' \in [Conn -> Link]
         /\ \A c \in Command : execs'[c] >= execs[c] /\ execs'[c] <= execs[c] + Pending(c)
         /\ \A k \in Conn : link'[k] = Closed
<1>1. CASE conn = None
  <2>1. UNCHANGED <<execs, link>>
    BY <1>1 DEF Close
  <2>2. \A k \in Conn : link[k] = Closed
    BY <1>1, MessagesOnConn
  <2> QED BY <2>1, <2>2, PendingCounts DEF TypeInv, TypeOK
<1>2. CASE conn # None
  <2>1. Ends({conn}) /\ link' = [link EXCEPT ![conn] = Closed] /\ conn \in Conn
    BY <1>2 DEF Close, TypeInv, TypeOK
  <2>2. link' \in [Conn -> Link] /\ \A k \in Conn : link'[k] = Closed
    BY <2>1, LinkTypes, MessagesOnConn DEF TypeInv, TypeOK
  <2>3. {conn} \in SUBSET Conn
    BY <2>1
  <2> QED BY <2>1, <2>2, <2>3, Ending
<1> QED BY <1>1, <1>2

(* Connect: the new connection is the only open one, and nothing is on it. *)
LEMMA Connecting ==
  ASSUME TypeInv, NEW g \in Goroutine, Connect(g)
  PROVE  /\ conn' \in Conn /\ conn' # conn /\ \A q \in Goroutine : held[q] # conn'
         /\ execs' \in [Command -> Nat] /\ link' \in [Conn -> Link]
         /\ \A c \in Command : execs'[c] >= execs[c] /\ execs'[c] <= execs[c] + Pending(c)
         /\ link'[conn'] = Fresh
         /\ \A k \in Conn : k # conn' => link'[k] = Closed
<1>1. conn' \in Conn /\ Free(conn')
  BY ConnFree DEF Connect
<1>2. conn' # conn /\ \A q \in Goroutine : held[q] # conn'
  BY <1>1 DEF Free
<1>3. Ends({conn} \ {None}) /\ {conn} \ {None} \in SUBSET Conn
  BY DEF Connect, Replace, TypeInv, TypeOK
<1>4. /\ execs' \in [Command -> Nat]
      /\ \A c \in Command : execs'[c] >= execs[c] /\ execs'[c] <= execs[c] + Pending(c)
  BY <1>3, Ending
<1>5. CASE conn = None
  <2>1. link' = [link EXCEPT ![conn'] = Fresh, ![conn'] = Fresh]
    BY <1>5 DEF Connect, Replace
  <2> QED BY <1>1, <1>2, <1>4, <1>5, <2>1, LinkTypes, MessagesOnConn DEF TypeInv, TypeOK
<1>6. CASE conn # None
  <2>1. link' = [link EXCEPT ![conn'] = Fresh, ![conn] = Closed]
    BY <1>6 DEF Connect, Replace
  <2> QED BY <1>1, <1>2, <1>4, <1>6, <2>1, LinkTypes, MessagesOnConn DEF TypeInv, TypeOK
<1> QED BY <1>5, <1>6

(* A step of one goroutine. *)
LEMMA Going ==
  ASSUME TypeOK, NEW g \in Goroutine, NEW where \in PcValue
  PROVE  /\ goto(g, where) => /\ pc' \in [Goroutine -> PcValue] /\ pc'[g] = where
                              /\ \A q \in Goroutine \ {g} : pc'[q] = pc[q]
         /\ leave(g, where) =>
              /\ pc' \in [Goroutine -> PcValue] /\ held' \in [Goroutine -> Conn \cup {None}]
              /\ id' \in [Goroutine -> Nat]
              /\ pc'[g] = where /\ held'[g] = None /\ id'[g] = 0
              /\ \A q \in Goroutine \ {g} : /\ pc'[q] = pc[q] /\ held'[q] = held[q]
                                           /\ id'[q] = id[q]
BY DEF TypeOK, goto, leave

----------------------------------------------------------------------------
(* One connection changes, the others stay. *)
LEMMA LinkUpdate ==
  ASSUME NEW k \in Conn, NEW new \in Link, link \in [Conn -> Link],
         link' = [link EXCEPT ![k] = new]
  PROVE  /\ link' \in [Conn -> Link] /\ link'[k] = new
         /\ \A j \in Conn \ {k} : link'[j] = link[j]
OBVIOUS

(* Type correctness; every goroutine has what its place needs; a connection    *)
(* that was closed is empty, and an open one is the client's.                  *)
THEOREM TypeCorrect == Spec => []TypeInv
<1> USE Goroutines, LinkTypes
<1>1. Init => TypeInv
  <2> SUFFICES ASSUME Init PROVE TypeInv
    OBVIOUS
  <2>1. TypeOK
    <3>1. cancelled \in BOOLEAN
      BY Zenon DEF Init
    <3>2. /\ pc \in [Goroutine -> PcValue] /\ held \in [Goroutine -> Conn \cup {None}]
          /\ id \in [Goroutine -> Nat] /\ link \in [Conn -> Link]
          /\ outcome \in [Command -> {"none", "invalid", "ok", "failed"}]
          /\ deliveries \in [Command -> Nat] /\ execs \in [Command -> Nat]
      BY DEF Init, Started, PcValue
    <3>3. /\ committed \in 0..Length /\ command \in 0..Length /\ attempt \in 0..2
          /\ conn \in Conn \cup {None} /\ msgID \in Nat
          /\ pings \in 0..MaxPings /\ faults \in 0..MaxFaults
      BY DEF Init
    <3> QED BY <3>1, <3>2, <3>3, Zenon DEF TypeOK
  <2>2. Places
    BY DEF Init, Places, Started
  <2>3. Links /\ NoStrayConnection
    BY FS_EmptySet DEF Init, Links, NoStrayConnection
  <2> QED BY <2>1, <2>2, <2>3 DEF TypeInv
<1>2. TypeInv /\ [Next]_vars => TypeInv'
  <2> SUFFICES ASSUME TypeInv, [Next]_vars PROVE TypeInv'
    OBVIOUS
  <2> USE DEF TypeInv, TypeOK, PcValue, kafkaVars, callVars, clientVars, workVars, bounds
  <2>1. ASSUME NEW k \in Conn, NEW r \in link[k].requests, Execute(k, r) PROVE TypeInv'
    <3>1. execs' \in [Command -> Nat]
      BY <2>1, FS_Singleton, Executing DEF Execute
    <3>2. PICK b \in BOOLEAN : Answer(k, r, b)
      BY <2>1 DEF Execute
    <3>3. [id |-> r.id, what |-> r.what, success |-> b,
           type |-> IF r.what = Ping THEN "pong" ELSE "result"] \in Reply
      BY DEF Link, Request, Reply
    <3>4. /\ link' \in [Conn -> Link] /\ \A j \in Conn \ {k} : link'[j] = link[j]
          /\ link'[k].requests = link[k].requests \ {r} /\ link'[k].writable = link[k].writable
      <4>1. PICK replies \in SUBSET Reply :
              link' = [link EXCEPT ![k].requests = link[k].requests \ {r}, ![k].replies = replies]
        BY <3>2, <3>3 DEF Answer, Link
      <4>2. link[k].requests \ {r} \in SUBSET Request
        BY DEF Link
      <4> QED BY <4>1, <4>2 DEF Link
    <3>5. /\ \A j \in Conn \ {k} : link'[j] = link[j]
          /\ link'[k].requests = link[k].requests \ {r} /\ link'[k].writable = link[k].writable
      BY <3>4
    <3>6. link[k].writable
      BY <2>1 DEF Links
    <3>7. UNCHANGED <<kafkaVars, outcome, callVars, workVars, clientVars, cancelled, bounds>>
      BY <2>1 DEF Execute
    <3>8. Links'
      <4>1. \A j \in Conn : IsFiniteSet(link'[j].requests)
        <5>1. IsFiniteSet(link[k].requests \ {r})
          BY FS_RemoveElement DEF Links
        <5> QED BY <3>5, <5>1 DEF Links
      <4>2. \A j \in Conn : ~link'[j].writable => j # k
        BY <3>5, <3>6
      <4> QED BY <3>5, <4>1, <4>2 DEF Links
    <3>9. Places' /\ NoStrayConnection'
      BY <3>5, <3>7 DEF Places, NoStrayConnection
    <3> QED BY <3>1, <3>4, <3>7, <3>8, <3>9
  <2>2. ASSUME NEW k \in Conn, Break(k) PROVE TypeInv'
    <3>1. execs' \in [Command -> Nat]
      <4>1. Ends({k}) /\ {k} \in SUBSET Conn
        BY <2>2 DEF Break
      <4> QED BY <4>1, Ending
    <3>2. link' \in [Conn -> Link] /\ faults' \in 0..MaxFaults
      BY <2>2 DEF Break
    <3>3. Links' /\ NoStrayConnection'
      BY <2>2, FS_EmptySet DEF Break, Links, NoStrayConnection
    <3> QED BY <2>2, <3>1, <3>2, <3>3 DEF Break, Places
  <2>l. ASSUME UNCHANGED <<link, conn>> PROVE Links' /\ NoStrayConnection'
    BY <2>l DEF Links, NoStrayConnection
  <2>3. ASSUME NEW g \in Goroutine, ReadConn(g) PROVE TypeInv'
    <3>1. /\ pc' \in [Goroutine -> PcValue] /\ held' \in [Goroutine -> Conn \cup {None}]
          /\ pc[g] = "conn"
          /\ \/ pc'[g] = "clear" /\ held'[g] = held[g]
             \/ pc'[g] = "id" /\ held'[g] \in Conn
          /\ \A q \in Goroutine \ {g} : pc'[q] = pc[q] /\ held'[q] = held[q]
      BY <2>3, Going DEF ReadConn
    <3> QED BY <2>3, <2>l, <3>1 DEF ReadConn, Places
  <2>4. ASSUME NEW g \in Goroutine, NextId(g) PROVE TypeInv'
    <3>1. /\ pc' \in [Goroutine -> PcValue] /\ pc[g] = "id" /\ pc'[g] = "send"
          /\ \A q \in Goroutine \ {g} : pc'[q] = pc[q]
      BY <2>4, Going DEF NextId
    <3>2. msgID' \in Nat /\ id' \in [Goroutine -> Nat]
      BY <2>4 DEF NextId
    <3> QED BY <2>4, <2>l, <3>1, <3>2 DEF NextId, Places
  <2>5. ASSUME NEW g \in Goroutine, Send(g) PROVE TypeInv'
    <3>1. pc[g] = "send" /\ held[g] \in Conn /\ Asks(g) \in Command \cup {Ping}
      BY <2>5 DEF Send, Places, Asks
    <3>2. /\ pc' \in [Goroutine -> PcValue] /\ pc'[g] \in {"clear", "read"}
          /\ \A q \in Goroutine \ {g} : pc'[q] = pc[q]
      BY <2>5, Going DEF Send
    <3>3. Places'
      BY <2>5, <3>1, <3>2 DEF Send, Places
    <3>4. CASE UNCHANGED link
      BY <2>5, <2>l, <3>2, <3>3, <3>4 DEF Send
    <3>5. CASE link[held[g]].writable
      <4>1. PICK last \in Nat, requests \in SUBSET Request, replies \in SUBSET Reply :
              /\ link' = [link EXCEPT ![held[g]].deadline = TRUE, ![held[g]].lastId = last,
                                     ![held[g]].requests = requests, ![held[g]].replies = replies]
              /\ IsFiniteSet(requests)
        <5> DEFINE k == held[g]
                   fresh == id[g] > link[k].lastId
                   last == IF fresh THEN id[g] ELSE link[k].lastId
                   request == [id |-> id[g], what |-> Asks(g)]
                   refusal == [id |-> id[g], what |-> Asks(g), type |-> "result", success |-> FALSE]
                   requests == IF fresh THEN link[k].requests \cup {request} ELSE link[k].requests
                   replies == IF fresh THEN link[k].replies ELSE link[k].replies \cup {refusal}
        <5>1. link[k] \in Link /\ id[g] \in Nat
          BY <3>1
        <5>2. request \in Request /\ refusal \in Reply
          BY <3>1, <5>1 DEF Request, Reply
        <5>3. last \in Nat /\ requests \in SUBSET Request /\ replies \in SUBSET Reply
          BY <5>1, <5>2 DEF Link
        <5>4. IsFiniteSet(requests)
          BY <3>1, FS_AddElement DEF Links
        <5>5. link' = [link EXCEPT ![k].deadline = TRUE, ![k].lastId = last,
                                   ![k].requests = requests, ![k].replies = replies]
          BY <2>5, <3>5 DEF Send
        <5> HIDE DEF last, requests, replies
        <5> QED BY <5>3, <5>4, <5>5
      <4>2. /\ link' \in [Conn -> Link]
            /\ \A j \in Conn \ {held[g]} : link'[j] = link[j]
            /\ link'[held[g]].writable = link[held[g]].writable
            /\ IsFiniteSet(link'[held[g]].requests)
        <5>2. link \in [Conn -> Link] /\ held[g] \in Conn
          BY <3>1
        <5>3. link' = [link EXCEPT ![held[g]] =
                        [@ EXCEPT !.deadline = TRUE, !.lastId = last,
                                  !.requests = requests, !.replies = replies]]
          BY <4>1, <5>2
        <5> DEFINE new == [link[held[g]] EXCEPT !.deadline = TRUE, !.lastId = last,
                                                !.requests = requests, !.replies = replies]
        <5>4. /\ new \in Link /\ new.requests = requests
              /\ new.writable = link[held[g]].writable
          BY <5>2 DEF Link
        <5>5. link' = [link EXCEPT ![held[g]] = new]
          BY <5>3
        <5> HIDE DEF new
        <5>6. /\ link' \in [Conn -> Link] /\ link'[held[g]] = new
              /\ \A j \in Conn \ {held[g]} : link'[j] = link[j]
          BY <5>2, <5>4, <5>5, LinkUpdate
        <5> QED BY <4>1, <5>4, <5>6
      <4>3. Links' /\ NoStrayConnection'
        BY <2>5, <3>1, <3>5, <4>2 DEF Send, Links, NoStrayConnection
      <4> QED BY <2>5, <3>2, <3>3, <4>2, <4>3 DEF Send
    <3> QED BY <2>5, <3>4, <3>5 DEF Send
  <2>r. ASSUME NEW k \in Conn, NEW replies \in SUBSET link[k].replies, NEW d \in BOOLEAN,
               link[k].writable,
               link' = [link EXCEPT ![k].replies = replies, ![k].deadline = d],
               UNCHANGED conn
        PROVE  link' \in [Conn -> Link] /\ Links' /\ NoStrayConnection'
    <3>1. /\ link' \in [Conn -> Link]
          /\ \A j \in Conn \ {k} : link'[j] = link[j]
          /\ link'[k].requests = link[k].requests /\ link'[k].writable = link[k].writable
      BY <2>r DEF Link
    <3> QED BY <2>r, <3>1 DEF Links, NoStrayConnection
  <2>c. ASSUME pc[consumer] = "read", CallFails
        PROVE  /\ pc' \in [Goroutine -> PcValue] /\ held' \in [Goroutine -> Conn \cup {None}]
               /\ id' \in [Goroutine -> Nat]
               /\ outcome' \in [Command -> {"none", "invalid", "ok", "failed"}]
               /\ pc'[consumer] \in {"clear", "commit"} /\ held'[consumer] = None
               /\ pc'[pinger] = pc[pinger] /\ held'[pinger] = held[pinger]
    BY <2>c, Going DEF CallFails, Finish, Places
  <2>6. ASSUME pc[consumer] = "read", NEW r \in link[held[consumer]].replies, ReadResult(r)
        PROVE  TypeInv'
    <3>1. held[consumer] \in Conn
      BY <2>6 DEF Places
    <3>2. link[held[consumer]].writable
      BY <2>6, <3>1 DEF Links
    <3>3. PICK d \in BOOLEAN :
            link' = [link EXCEPT ![held[consumer]].replies = link[held[consumer]].replies \ {r},
                                 ![held[consumer]].deadline = d]
      <4>1. link[held[consumer]].deadline \in BOOLEAN
        BY <3>1 DEF Link
      <4> QED BY <2>6, <4>1 DEF ReadResult
    <3>4. link' \in [Conn -> Link] /\ Links' /\ NoStrayConnection'
      BY <2>6, <2>r, <3>1, <3>2, <3>3 DEF ReadResult
    <3>5. Finish("ok") \/ CallFails \/ UNCHANGED <<workVars, outcome>>
      BY <2>6 DEF ReadResult
    <3>6. UNCHANGED <<kafkaVars, execs, callVars, clientVars, cancelled, bounds>>
      BY <2>6 DEF ReadResult
    <3>7. CASE Finish("ok")
      <4>1. /\ pc' \in [Goroutine -> PcValue] /\ held' \in [Goroutine -> Conn \cup {None}]
            /\ id' \in [Goroutine -> Nat]
            /\ outcome' \in [Command -> {"none", "invalid", "ok", "failed"}]
            /\ pc'[consumer] = "commit" /\ held'[consumer] = None
            /\ pc'[pinger] = pc[pinger] /\ held'[pinger] = held[pinger]
        BY <3>7, Going DEF Finish
      <4>2. Places'
        BY <2>6, <3>6, <4>1 DEF Places
      <4> QED BY <3>4, <3>6, <4>1, <4>2
    <3>8. CASE CallFails
      <4>1. Places'
        BY <2>6, <2>c, <3>6, <3>8 DEF Places
      <4> QED BY <2>6, <2>c, <3>4, <3>6, <3>8, <4>1
    <3>9. CASE UNCHANGED <<workVars, outcome>>
      <4>1. Places'
        BY <3>6, <3>9 DEF Places
      <4> QED BY <3>4, <3>6, <3>9, <4>1
    <3> QED BY <3>5, <3>7, <3>8, <3>9
  <2>7. ASSUME pc[pinger] = "read", NEW r \in link[held[pinger]].replies, ReadPong(r)
        PROVE  TypeInv'
    <3>1. held[pinger] \in Conn
      BY <2>7 DEF Places
    <3>2. link[held[pinger]].writable
      BY <2>7, <3>1 DEF Links
    <3>3. PICK d \in BOOLEAN :
            link' = [link EXCEPT ![held[pinger]].replies = link[held[pinger]].replies \ {r},
                                 ![held[pinger]].deadline = d]
      BY <2>7 DEF ReadPong
    <3>4. link' \in [Conn -> Link] /\ Links' /\ NoStrayConnection'
      BY <2>7, <2>r, <3>1, <3>2, <3>3 DEF ReadPong
    <3>5. leave(pinger, "idle") \/ UNCHANGED workVars
      BY <2>7 DEF ReadPong
    <3>6. UNCHANGED <<kafkaVars, execs, outcome, callVars, clientVars, cancelled, bounds>>
      BY <2>7 DEF ReadPong
    <3>7. CASE leave(pinger, "idle")
      <4>1. Places'
        BY <2>7, <3>6, <3>7, Going DEF Places
      <4> QED BY <3>4, <3>6, <3>7, <4>1, Going
    <3>8. CASE UNCHANGED workVars
      <4>1. Places'
        BY <3>6, <3>8 DEF Places
      <4> QED BY <3>4, <3>6, <3>8, <4>1
    <3> QED BY <3>5, <3>7, <3>8
  <2>8. ASSUME NEW g \in Goroutine, ReadFails(g) PROVE TypeInv'
    <3>1. pc[g] = "read" /\ held[g] \in Conn
      BY <2>8 DEF ReadFails, Places
    <3>2. UNCHANGED <<kafkaVars, execs, callVars, clientVars, cancelled, bounds>>
      BY <2>8 DEF ReadFails
    <3>3. /\ link' = [link EXCEPT ![held[g]] =
                       [link[held[g]] EXCEPT !.readable = FALSE, !.deadline = FALSE]]
          /\ link[held[g]] \in Link
      BY <2>8, <3>1 DEF ReadFails
    <3>4. link' \in [Conn -> Link] /\ Links' /\ NoStrayConnection'
      <4> DEFINE new == [link[held[g]] EXCEPT !.readable = FALSE, !.deadline = FALSE]
      <4>1. /\ new \in Link /\ new.requests = link[held[g]].requests
            /\ new.writable = link[held[g]].writable
            /\ link[held[g]] = Closed => new = Closed
        BY <3>3 DEF Link, Closed
      <4>2. /\ link' = [link EXCEPT ![held[g]] = new]
        BY <3>3
      <4> HIDE DEF new
      <4>3. \A j \in Conn : /\ link'[j].requests = link[j].requests
                            /\ link'[j].writable = link[j].writable
                            /\ link[j] = Closed => link'[j] = Closed
        BY <3>1, <4>1, <4>2
      <4> QED BY <3>1, <3>2, <4>1, <4>2, <4>3 DEF Links, NoStrayConnection
    <3>5. CASE g = consumer
      <4>1. CallFails
        BY <2>8, <3>5 DEF ReadFails
      <4>2. Places'
        BY <2>c, <3>1, <3>2, <3>5, <4>1 DEF Places
      <4> QED BY <2>c, <3>1, <3>2, <3>4, <3>5, <4>1, <4>2
    <3>6. CASE g = pinger
      <4>1. leave(pinger, "clear") /\ UNCHANGED outcome
        BY <2>8, <3>6 DEF ReadFails
      <4>2. Places'
        BY <3>1, <3>2, <3>6, <4>1, Going DEF Places
      <4> QED BY <3>2, <3>4, <4>1, <4>2, Going
    <3> QED BY <3>5, <3>6
  <2>9. ASSUME NEW g \in Goroutine, Fail(g) PROVE TypeInv'
    <3>1. Finish("failed") /\ pc[consumer] = "clear"
      BY <2>9 DEF Fail
    <3>2. /\ pc' \in [Goroutine -> PcValue] /\ held' \in [Goroutine -> Conn \cup {None}]
          /\ id' \in [Goroutine -> Nat]
          /\ outcome' \in [Command -> {"none", "invalid", "ok", "failed"}]
          /\ pc'[consumer] = "commit" /\ held'[consumer] = None
          /\ pc'[pinger] = pc[pinger] /\ held'[pinger] = held[pinger]
      <4>1. leave(consumer, "commit") /\ outcome' = [outcome EXCEPT ![command] = "failed"]
        BY <3>1 DEF Finish
      <4> QED BY <4>1, Going
    <3>3. Places'
      BY <2>9, <3>1, <3>2 DEF Fail, Places
    <3> QED BY <2>9, <2>l, <3>2, <3>3 DEF Fail
  <2>10. ASSUME NEW g \in Goroutine, ClearConnection(g) PROVE TypeInv'
    <3>1. leave(g, "connect") /\ pc[g] = "clear" /\ (g = consumer => attempt = 1) /\ Close(conn)
          /\ conn' = None
      BY <2>10 DEF ClearConnection
    <3>2. Places'
      BY <2>10, <3>1, Going DEF ClearConnection, Places
    <3>3. Links' /\ NoStrayConnection'
      BY <3>1, Closing, FS_EmptySet DEF Links, NoStrayConnection
    <3> QED BY <2>10, <3>1, <3>2, <3>3, Closing, Going DEF ClearConnection
  <2>11. ASSUME NEW g \in Goroutine, Connect(g) PROVE TypeInv'
    <3>1. /\ pc' \in [Goroutine -> PcValue] /\ attempt' \in 0..2
          /\ \/ pc[g] = "start" /\ pc'[consumer] = "idle" /\ pc'[pinger] = "idle" /\ UNCHANGED attempt
             \/ g = consumer /\ pc[g] = "connect" /\ pc'[g] = "conn" /\ pc'[pinger] = pc[pinger] /\ attempt' = 2
             \/ g = pinger /\ pc'[g] = "idle" /\ pc'[consumer] = pc[consumer] /\ UNCHANGED attempt
      BY <2>11 DEF Connect, ReturnConnected
    <3>2. Places'
      <4>1. UNCHANGED <<held, command>> /\ pc[g] \in {"start", "connect"}
        BY <2>11 DEF Connect
      <4>2. CASE pc[g] = "start" /\ pc'[consumer] = "idle" /\ pc'[pinger] = "idle"
        <5>1. pc[consumer] = "start" /\ held[consumer] = None /\ held[pinger] = None
          BY <4>2 DEF Places
        <5> QED BY <4>1, <4>2, <5>1 DEF Places
      <4>3. CASE /\ g = consumer /\ pc[g] = "connect" /\ pc'[g] = "conn"
                 /\ pc'[pinger] = pc[pinger] /\ attempt' = 2
        BY <4>1, <4>3 DEF Places
      <4>4. CASE /\ g = pinger /\ pc'[g] = "idle" /\ pc'[consumer] = pc[consumer]
                 /\ UNCHANGED attempt
        BY <4>1, <4>4 DEF Places
      <4> QED BY <3>1, <4>2, <4>3, <4>4
    <3>3. Links' /\ NoStrayConnection'
      BY <2>11, Connecting, FS_EmptySet DEF Links, NoStrayConnection
    <3>4. outcome' = outcome /\ msgID' = 0
      BY <2>11 DEF Connect, ReturnConnected
    <3> QED BY <2>11, <3>1, <3>2, <3>3, <3>4, Connecting DEF Connect
  <2>12. ASSUME NEW g \in Goroutine, ConnectFails(g) PROVE TypeInv'
    <3>1. Close(conn) /\ conn' = None
      BY <2>12 DEF ConnectFails
    <3>2. Links' /\ NoStrayConnection'
      BY <3>1, Closing, FS_EmptySet DEF Links, NoStrayConnection
    <3>3. /\ pc' \in [Goroutine -> PcValue]
          /\ outcome' \in [Command -> {"none", "invalid", "ok", "failed"}]
          /\ \/ UNCHANGED pc
             \/ /\ \A q \in Goroutine \ {g} : pc'[q] = pc[q]
                /\ \/ pc[g] = "start" /\ pc'[g] = "gone"
                   \/ g = consumer /\ pc[g] = "connect" /\ pc'[g] = "commit"
                   \/ g = pinger /\ pc'[g] = "idle"
      BY <2>12 DEF ConnectFails, goto, Places
    <3>4. Places'
      BY <2>12, <3>3 DEF ConnectFails, Places
    <3> QED BY <2>12, <3>1, <3>2, <3>3, <3>4, Closing DEF ConnectFails
  <2>13. ASSUME NEW c \in Command, Take(c) PROVE TypeInv'
    <3>1. /\ pc' \in [Goroutine -> PcValue] /\ pc[consumer] = "idle"
          /\ pc'[consumer] \in {"conn", "commit"} /\ pc'[pinger] = pc[pinger]
          /\ pc'[consumer] = "conn" => attempt' = 1
          /\ attempt' \in 0..2
      BY <2>13, Going DEF Take
    <3>2. outcome' \in [Command -> {"none", "invalid", "ok", "failed"}]
      BY <2>13 DEF Take
    <3>3. /\ deliveries' \in [Command -> Nat] /\ command' = c /\ command' \in 0..Length
          /\ UNCHANGED committed
      <4>1. /\ c \in 0..Length /\ command' = c /\ UNCHANGED committed
            /\ deliveries' = [deliveries EXCEPT ![c] = @ + 1]
        BY <2>13 DEF Take, FetchMessage, Command
      <4> QED BY <4>1
    <3>4. Places'
      BY <2>13, <3>1, <3>3 DEF Take, Places
    <3> QED BY <2>13, <2>l, <3>1, <3>2, <3>3, <3>4 DEF Take
  <2>14. CASE CommitMessages
    <3>1. /\ pc' \in [Goroutine -> PcValue] /\ pc[consumer] = "commit"
          /\ pc'[consumer] = "idle" /\ pc'[pinger] = pc[pinger]
      BY <2>14, Going DEF CommitMessages
    <3>2. committed' \in 0..Length
      BY <2>14 DEF CommitMessages
    <3>3. Places'
      BY <2>14, <3>1 DEF CommitMessages, Places
    <3> QED BY <2>14, <2>l, <3>1, <3>2, <3>3 DEF CommitMessages
  <2>15. CASE Tick
    <3>1. /\ pc' \in [Goroutine -> PcValue] /\ pc[pinger] = "idle"
          /\ pc'[pinger] = "conn" /\ pc'[consumer] = pc[consumer]
      BY <2>15, Going DEF Tick
    <3>2. Places'
      BY <2>15, <3>1 DEF Tick, Places
    <3> QED BY <2>15, <2>l, <3>1, <3>2 DEF Tick
  <2>16. ASSUME NEW g \in Goroutine, Return(g) PROVE TypeInv'
    <3>1. /\ pc' \in [Goroutine -> PcValue] /\ pc[g] = "idle" /\ pc'[g] = "gone"
          /\ \A q \in Goroutine \ {g} : pc'[q] = pc[q]
      BY <2>16, Going DEF Return
    <3>2. Places'
      BY <2>16, <3>1 DEF Return, Places
    <3> QED BY <2>16, <2>l, <3>1, <3>2 DEF Return
  <2>17. CASE Crash
    <3>1. execs' \in [Command -> Nat]
      BY <2>17, Ending DEF Crash
    <3>2. pc' = Started /\ pc' \in [Goroutine -> PcValue]
      BY <2>17 DEF Crash, Started
    <3>3. Places'
      BY <2>17, <3>2 DEF Crash, Places, Started
    <3>4. link' \in [Conn -> Link] /\ Links' /\ NoStrayConnection'
      BY <2>17, FS_EmptySet DEF Crash, Links, NoStrayConnection
    <3> QED BY <2>17, <3>1, <3>2, <3>3, <3>4 DEF Crash
  <2>18. CASE Cancel
    <3>1. Places'
      BY <2>18 DEF Cancel, Places
    <3> QED BY <2>18, <2>l, <3>1 DEF Cancel
  <2>19. CASE UNCHANGED vars
    <3>1. Places'
      BY <2>19 DEF vars, Places
    <3> QED BY <2>19, <2>l, <3>1 DEF vars
  <2> QED BY <2>1, <2>2, <2>3, <2>4, <2>5, <2>6, <2>7, <2>8, <2>9, <2>10, <2>11, <2>12, <2>13,
             <2>14, <2>15, <2>16, <2>17, <2>18, <2>19 DEF Next, Work, Consume
<1> QED BY <1>1, <1>2, PTL DEF Spec

(* A reconnect of consumer and pinger at once, a crash, or a connection that   *)
(* fails twice leave no connection open that the client does not know.         *)
THEOREM NoConnectionLeft == Spec => []NoStrayConnection
BY TypeCorrect, PTL DEF TypeInv

----------------------------------------------------------------------------
(* A step that neither fetches nor commits, and that lets go of the command    *)
(* only with an outcome.                                                       *)
LEMMA TreatedKept ==
  ASSUME TypeInv, Treated, UNCHANGED <<committed, command>>,
         \A c \in Command : outcome[c] # "none" => outcome'[c] # "none",
         command # 0 /\ pc'[consumer] \in {"idle", "commit", "gone"} =>
           pc[consumer] \in {"idle", "commit", "gone"} \/ outcome'[command] # "none"
  PROVE  Treated'
<1>1. \A c \in 1..committed : c \in Command
  BY DEF Command, TypeInv, TypeOK
<1>2. command # 0 => command \in Command
  BY DEF Command, TypeInv, TypeOK
<1> QED BY <1>1, <1>2 DEF Treated, CommittedIsTreated

(* The committed offset never runs ahead of what the service has done with the *)
(* commands, through lost connections, crashes and commits that fail.          *)
THEOREM CommittedAlwaysTreated == Spec => []CommittedIsTreated
<1> USE Goroutines
<1>1. Init => Treated
  BY DEF Init, Treated, CommittedIsTreated, Command
<1>2. TypeInv /\ Treated /\ [Next]_vars => Treated'
  <2> SUFFICES ASSUME TypeInv, Treated, [Next]_vars PROVE Treated'
    OBVIOUS
  <2> USE DEF kafkaVars, callVars, clientVars, workVars, bounds
  <2>1. CASE UNCHANGED <<committed, command, outcome, pc>>
    BY <2>1, TreatedKept
  <2>2. ASSUME NEW g \in Goroutine, NEW where \in PcValue \ {"idle", "commit", "gone"},
               goto(g, where) \/ leave(g, where), UNCHANGED <<committed, command, outcome>>
        PROVE  Treated'
    BY <2>2, Going, TreatedKept DEF TypeInv
  <2>3. ASSUME NEW g \in Goroutine, ReadConn(g) \/ NextId(g) \/ Send(g) PROVE Treated'
    <3>1. CASE ReadConn(g)
      BY <2>2, <3>1 DEF ReadConn, PcValue
    <3>2. CASE NextId(g)
      BY <2>2, <3>2 DEF NextId, PcValue
    <3>3. CASE Send(g)
      BY <2>2, <3>3 DEF Send, PcValue
    <3> QED BY <2>3, <3>1, <3>2, <3>3
  <2>4. ASSUME NEW result \in {"ok", "failed"}, Finish(result), pc[consumer] \in {"read", "clear"},
               UNCHANGED <<committed, command>>
        PROVE  Treated'
    <3>1. command \in Command /\ command' = command
      BY <2>4 DEF TypeInv, Places
    <3>2. \A c \in Command : outcome'[c] # "none" <=> outcome[c] # "none" \/ c = command
      BY <2>4, <3>1 DEF Finish, TypeInv, TypeOK
    <3> QED BY <2>4, <3>1, <3>2, TreatedKept
  <2>5. ASSUME CallFails, pc[consumer] = "read", UNCHANGED <<committed, command>> PROVE Treated'
    BY <2>2, <2>4, <2>5 DEF CallFails, PcValue
  <2>6. ASSUME pc[consumer] = "read", NEW r \in link[held[consumer]].replies, ReadResult(r)
        PROVE  Treated'
    BY <2>1, <2>4, <2>5, <2>6 DEF ReadResult
  <2>7. ASSUME NEW where \in PcValue, goto(pinger, where) \/ leave(pinger, where),
               UNCHANGED <<committed, command, outcome>>
        PROVE  Treated'
    BY <2>7, Going, TreatedKept DEF TypeInv
  <2>8. ASSUME NEW r, ReadPong(r) PROVE Treated'
    BY <2>1, <2>7, <2>8 DEF ReadPong, PcValue
  <2>9. ASSUME NEW g \in Goroutine, ReadFails(g) PROVE Treated'
    <3>1. CASE g = consumer
      BY <2>5, <2>9, <3>1 DEF ReadFails
    <3>2. CASE g = pinger
      BY <2>7, <2>9, <3>2 DEF ReadFails, PcValue
    <3> QED BY <3>1, <3>2
  <2>10. ASSUME NEW g \in Goroutine, Fail(g) \/ ClearConnection(g) PROVE Treated'
    BY <2>2, <2>4, <2>10 DEF Fail, ClearConnection, PcValue
  <2>11. ASSUME NEW g \in Goroutine, Connect(g) PROVE Treated'
    <3>1. UNCHANGED <<committed, command, outcome>>
      BY <2>11 DEF Connect, ReturnConnected
    <3>2. pc'[consumer] \in {"idle", "commit", "gone"} =>
            command = 0 \/ pc[consumer] \in {"idle", "commit", "gone"}
      BY <2>11 DEF Connect, ReturnConnected, TypeInv, TypeOK, Places
    <3> QED BY <3>1, <3>2, TreatedKept
  <2>12. ASSUME NEW g \in Goroutine, ConnectFails(g) PROVE Treated'
    <3>1. UNCHANGED <<committed, command>>
      BY <2>12 DEF ConnectFails
    <3>2. \A c \in Command : outcome[c] # "none" => outcome'[c] # "none"
      BY <2>12 DEF ConnectFails, TypeInv, TypeOK
    <3>3. command # 0 /\ pc'[consumer] \in {"idle", "commit", "gone"} =>
            pc[consumer] \in {"idle", "commit", "gone"} \/ outcome'[command] # "none"
      BY <2>12 DEF ConnectFails, goto, TypeInv, TypeOK, Places
    <3> QED BY <3>1, <3>2, <3>3, TreatedKept
  <2>13. ASSUME NEW c \in Command, Take(c) PROVE Treated'
    <3>1. /\ pc[consumer] = "idle" /\ command' = c /\ committed' = committed
          /\ c = (IF command = 0 THEN committed ELSE command) + 1
          /\ \A d \in Command : outcome[d] # "none" => outcome'[d] # "none"
          /\ pc'[consumer] = "conn" \/ outcome'[c] # "none"
      BY <2>13, Going DEF Take, FetchMessage, TypeInv, TypeOK, PcValue
    <3>2. committed \in Nat /\ command \in Nat /\ c \in Nat /\ c >= 1
          /\ \A d \in Command : d \in Nat /\ d >= 1
      BY DEF TypeInv, TypeOK, Command
    <3>3. \A d \in Command : d < c => outcome[d] # "none"
      BY <3>1, <3>2 DEF Treated, CommittedIsTreated
    <3>4. \A d \in 1..committed : d \in Command
      BY DEF TypeInv, TypeOK, Command
    <3>5. committed <= c
      BY <3>1, <3>2 DEF Treated
    <3> QED BY <3>1, <3>3, <3>4, <3>5 DEF Treated, CommittedIsTreated
  <2>14. CASE CommitMessages
    <3>1. /\ pc[consumer] = "commit" /\ committed' \in {committed, command}
          /\ UNCHANGED <<outcome, command>> /\ command \in Command
      BY <2>14 DEF CommitMessages, TypeInv, Places
    <3>2. \A c \in Command : c <= command => outcome[c] # "none"
      BY <3>1 DEF Treated, Command, TypeInv, TypeOK
    <3>3. \A c \in 1..command : c \in Command
      BY <3>1 DEF Command
    <3>4. \A c \in 1..committed' : c \in Command /\ outcome[c] # "none"
      BY <3>1, <3>2, <3>3 DEF Treated, CommittedIsTreated, Command, TypeInv, TypeOK
    <3>5. command = 0 \/ committed' <= command
      BY <3>1 DEF Treated, Command
    <3> QED BY <3>1, <3>2, <3>4, <3>5 DEF Treated, CommittedIsTreated
  <2>15. CASE Tick
    BY <2>7, <2>15 DEF Tick, PcValue
  <2>16. ASSUME NEW g \in Goroutine, Return(g) PROVE Treated'
    <3>1. /\ pc[g] = "idle" /\ UNCHANGED <<committed, command, outcome>>
          /\ \A q \in Goroutine \ {g} : pc'[q] = pc[q]
      BY <2>16, Going DEF Return, TypeInv, PcValue
    <3> QED BY <3>1, TreatedKept
  <2>17. CASE Crash
    <3>1. command' = 0 /\ UNCHANGED <<committed, outcome>>
      BY <2>17 DEF Crash
    <3>2. \A c \in Command : ~(c < 0)
      BY DEF Command
    <3> QED BY <3>1, <3>2 DEF Treated, CommittedIsTreated
  <2>18. CASE \/ Cancel \/ UNCHANGED vars
             \/ \E k \in Conn : Break(k) \/ \E r \in link[k].requests : Execute(k, r)
    <3>1. UNCHANGED <<committed, command, outcome, pc>>
      BY <2>18 DEF Cancel, Break, Execute, vars
    <3> QED BY <2>1, <3>1
  <2> QED BY <2>3, <2>6, <2>8, <2>9, <2>10, <2>11, <2>12, <2>13, <2>14, <2>15, <2>16, <2>17,
             <2>18 DEF Next, Work, Consume
<1>3. Treated => CommittedIsTreated
  BY DEF Treated
<1> QED BY <1>1, <1>2, <1>3, TypeCorrect, PTL DEF Spec
----------------------------------------------------------------------------
(* How many requests are under way, and how many calls are left, are numbers.  *)
Counts == \A c \in Command : Pending(c) \in Nat /\ CallsLeft(c) \in 0..2

(* Both counts are numbers in every reachable state, whatever they count. *)
LEMMA CountsAreNumbers == TypeInv => Counts
<1> SUFFICES ASSUME TypeInv PROVE Counts
  OBVIOUS
<1>1. pc[consumer] \in PcValue /\ attempt \in 0..2
  BY Goroutines DEF TypeInv, TypeOK
<1>2. pc[consumer] \in {"conn", "id", "send", "read", "clear", "connect"} => attempt \in {1, 2}
  BY DEF TypeInv, Places
<1>3. ASSUME NEW c \in Command PROVE CallsLeft(c) \in 0..2
  BY <1>1, <1>2 DEF CallsLeft, PcValue
<1> QED BY <1>3, PendingCounts DEF Counts

(* A step that executes no more than it takes from the requests or from the    *)
(* calls that are left.                                                        *)
LEMMA BudgetKept ==
  ASSUME TypeOK, TypeOK', Counts, Counts', Budget, UNCHANGED deliveries,
         \A c \in Command :
           execs'[c] + Pending(c)' + CallsLeft(c)' <= execs[c] + Pending(c) + CallsLeft(c)
  PROVE  Budget'
<1>1. ASSUME NEW c \in Command
      PROVE  execs'[c] + Pending(c)' + CallsLeft(c)' <= 2 * deliveries'[c]
  <2>1. execs[c] + Pending(c) + CallsLeft(c) <= 2 * deliveries[c]
    BY DEF Budget
  <2>2. /\ execs[c] \in Nat /\ execs'[c] \in Nat /\ deliveries[c] \in Nat
        /\ Pending(c) \in Nat /\ CallsLeft(c) \in Nat
        /\ Pending(c)' \in Nat /\ CallsLeft(c)' \in Nat
    BY DEF TypeOK, Counts
  <2> QED BY <2>1, <2>2
<1> QED BY <1>1 DEF Budget

(* A step after which the client's connection has no request.                  *)
LEMMA NothingPending ==
  ASSUME Requests' = {}
  PROVE  \A c \in Command : Pending(c)' = 0
<1>1. ASSUME NEW c PROVE Asking({}, c) = 0
  <2>1. {r \in {} : r.what = c} = {}
    OBVIOUS
  <2> QED BY <2>1, FS_EmptySet DEF Asking
<1>2. ASSUME NEW c \in Command PROVE Pending(c)' = Asking({}, c)
  BY DEF Pending, Asking
<1> QED BY <1>1, <1>2

(* One request is of its own command. *)
LEMMA AskingOne ==
  ASSUME NEW R, IsFiniteSet(R), NEW r \in R, NEW c
  PROVE  /\ Asking({r}, c) = IF r.what = c THEN 1 ELSE 0
         /\ Asking(R \ {r}, c) \in Nat
         /\ Asking(R, c) = Asking(R \ {r}, c) + Asking({r}, c)
<1> DEFINE Of(S) == {q \in S : q.what = c}
<1>1. /\ IsFiniteSet(Of(R \ {r})) /\ Cardinality(Of(R \ {r})) \in Nat
  <2>1. IsFiniteSet(R \ {r}) /\ Of(R \ {r}) \in SUBSET (R \ {r})
    BY FS_RemoveElement
  <2> HIDE DEF Of
  <2> QED BY <2>1, FS_Subset, FS_CardinalityType
<1>2. Of({r}) = IF r.what = c THEN {r} ELSE {}
  OBVIOUS
<1>3. r \notin Of(R \ {r}) /\ Of(R) = IF r.what = c THEN Of(R \ {r}) \cup {r} ELSE Of(R \ {r})
  OBVIOUS
<1>4. Cardinality({r}) = 1 /\ Cardinality({}) = 0
  BY FS_Singleton, FS_EmptySet
<1>5. \A S : Asking(S, c) = Cardinality(Of(S))
  BY DEF Asking
<1> HIDE DEF Of
<1>6. Cardinality(Of(R \ {r}) \cup {r}) = Cardinality(Of(R \ {r})) + 1
  BY <1>1, <1>3, FS_AddElement
<1>7. Asking(R \ {r}, c) = Cardinality(Of(R \ {r})) /\ Asking(R, c) = Cardinality(Of(R))
      /\ Asking({r}, c) = Cardinality(Of({r}))
  BY <1>5
<1>8. CASE r.what = c
  BY <1>1, <1>2, <1>3, <1>4, <1>6, <1>7, <1>8
<1>9. CASE r.what # c
  <2>1. Of({r}) = {} /\ Of(R) = Of(R \ {r})
    BY <1>2, <1>3, <1>9, Zenon
  <2>2. Asking({r}, c) = 0 /\ Asking(R, c) = Asking(R \ {r}, c)
    BY <1>4, <1>7, <2>1, Zenon
  <2>3. Asking(R \ {r}, c) \in Nat
    BY <1>1, <1>7, Zenon
  <2> QED BY <1>9, <2>2, <2>3
<1> QED BY <1>8, <1>9

(* A command is executed at most once for each call, and each time it is read  *)
(* from Kafka there are two calls; a request that outlives its connection      *)
(* still counts, and a crash forgets the calls that were left.                 *)
THEOREM ExecutedAtMostTwice == Spec => []AtMostTwice
<1> USE Goroutines
<1> DEFINE Step == TypeInv /\ TypeInv' /\ Counts /\ Counts' /\ Budget /\ [Next]_vars
<1>1. Init => Budget
  <2> SUFFICES ASSUME Init, NEW c \in Command
               PROVE  execs[c] + Pending(c) + CallsLeft(c) <= 2 * deliveries[c]
    BY DEF Budget
  <2>1. execs[c] = 0 /\ deliveries[c] = 0 /\ CallsLeft(c) = 0 /\ Requests = {}
    BY DEF Init, CallsLeft, Requests, Started
  <2>2. Pending(c) = 0
    <3>1. {r \in {} : r.what = c} = {}
      OBVIOUS
    <3> QED BY <2>1, <3>1, FS_EmptySet DEF Pending, Asking
  <2> QED BY <2>1, <2>2
<1>2. Step => Budget'
  <2> SUFFICES ASSUME TypeInv, TypeInv', Counts, Counts', Budget, [Next]_vars PROVE Budget'
    OBVIOUS
  <2> USE DEF TypeInv, kafkaVars, callVars, clientVars, workVars, bounds
  <2> DEFINE CallsKept == \A c \in Command : CallsLeft(c)' <= CallsLeft(c)
  <2>q. ASSUME UNCHANGED <<execs, deliveries, Requests>>, CallsKept PROVE Budget'
    <3>1. \A c \in Command : Pending(c)' = Pending(c)
      BY <2>q DEF Pending, Asking
    <3>2. \A c \in Command :
            /\ execs[c] \in Nat /\ Pending(c) \in Nat
            /\ CallsLeft(c) \in Nat /\ CallsLeft(c)' \in Nat
      BY DEF TypeOK, Counts
    <3> QED BY <2>q, <3>1, <3>2, BudgetKept
  <2>e. ASSUME UNCHANGED deliveries, CallsKept, Requests' = {},
               \A c \in Command : execs'[c] >= execs[c] /\ execs'[c] <= execs[c] + Pending(c)
        PROVE  Budget'
    <3>1. \A c \in Command :
            /\ execs[c] \in Nat /\ execs'[c] \in Nat /\ Pending(c) \in Nat
            /\ CallsLeft(c) \in Nat /\ CallsLeft(c)' \in Nat
      BY DEF TypeOK, Counts
    <3> QED BY <2>e, <3>1, NothingPending, BudgetKept
  <2>p. /\ pc[consumer] \in PcValue /\ attempt \in 0..2
        /\ pc[consumer] \in {"conn", "id", "send", "read", "clear"} => attempt \in {1, 2}
        /\ pc[consumer] = "connect" => attempt = 1
    BY DEF TypeOK, Places
  <2>s. ASSUME UNCHANGED <<command, attempt, conn, link, execs, deliveries>>,
               \/ pc'[consumer] = pc[consumer]
               \/ pc'[consumer] \in {"idle", "commit", "gone", "clear"}
               \/ pc'[consumer] \in {"conn", "id", "send"} /\ pc[consumer] \in {"conn", "id", "send"},
               pc'[consumer] = "clear" => pc[consumer] \in {"conn", "id", "send", "read", "clear"}
        PROVE  Budget'
    <3>1. CallsKept
      BY <2>s, <2>p DEF CallsLeft, PcValue
    <3> QED BY <2>q, <2>s, <3>1 DEF Requests
  <2>1. ASSUME NEW k \in Conn, NEW r \in link[k].requests, Execute(k, r) PROVE Budget'
    <3>1. IsFiniteSet({r}) /\ execs' \in [Command -> Nat]
      BY FS_Singleton DEF TypeOK
    <3>2. CallsKept
      BY <2>1 DEF Execute, CallsLeft, Counts
    <3>3. link[k].requests \cup link[k].replies # {} /\ k = conn
      BY MessagesOnConn
    <3>4. Requests = link[k].requests /\ IsFiniteSet(Requests) /\ r \in Requests
      BY <3>3, PendingCounts DEF Requests, TypeOK
    <3>5. Requests' = Requests \ {r}
      BY <2>1, <3>3, <3>4 DEF Execute, Answer, Requests, TypeOK, Link
    <3>6. \A c \in Command : Pending(c)' = Asking(Requests \ {r}, c)
      BY <3>5 DEF Pending, Asking
    <3>7. \A c \in Command : /\ Pending(c) = Asking(Requests \ {r}, c) + Asking({r}, c)
                             /\ Asking({r}, c) \in Nat /\ Asking(Requests \ {r}, c) \in Nat
      <4>1. ASSUME NEW c
            PROVE  /\ Asking(Requests, c) = Asking(Requests \ {r}, c) + Asking({r}, c)
                   /\ Asking({r}, c) \in Nat /\ Asking(Requests \ {r}, c) \in Nat
        <5>1. /\ Asking({r}, c) = IF r.what = c THEN 1 ELSE 0
              /\ Asking(Requests \ {r}, c) \in Nat
              /\ Asking(Requests, c) = Asking(Requests \ {r}, c) + Asking({r}, c)
          BY <3>4, AskingOne
        <5> HIDE DEF TypeInv
        <5> QED BY <5>1
      <4> QED BY <4>1, Zenon DEF Pending
    <3>8. \A c \in Command : execs'[c] = execs[c] \/ execs'[c] = execs[c] + Asking({r}, c)
      BY <2>1, <3>1, Executing DEF Execute
    <3>9. \A c \in Command : execs[c] \in Nat /\ CallsLeft(c) \in Nat /\ CallsLeft(c)' \in Nat
      BY DEF TypeOK, Counts
    <3>10. UNCHANGED deliveries
      BY <2>1 DEF Execute
    <3>11. ASSUME NEW c \in Command
           PROVE  execs'[c] + Pending(c)' + CallsLeft(c)' <= execs[c] + Pending(c) + CallsLeft(c)
      <4>1. /\ Pending(c)' = Asking(Requests \ {r}, c)
            /\ Pending(c) = Pending(c)' + Asking({r}, c)
            /\ Asking({r}, c) \in Nat /\ Pending(c)' \in Nat
        BY <3>6, <3>7
      <4>2. CallsLeft(c)' <= CallsLeft(c)
        BY <3>2
      <4>3. execs'[c] <= execs[c] + Asking({r}, c)
        BY <3>8, <3>9, <4>1
      <4>4. execs[c] \in Nat /\ execs'[c] \in Nat /\ CallsLeft(c) \in Nat /\ CallsLeft(c)' \in Nat
        BY <3>1, <3>9
      <4> HIDE DEF CallsKept
      <4> QED BY <4>1, <4>2, <4>3, <4>4
    <3> QED BY <3>10, <3>11, BudgetKept
  <2>2. ASSUME NEW k \in Conn, Break(k) PROVE Budget'
    <3>1. k = conn /\ Ends({k}) /\ {k} \in SUBSET Conn
      BY <2>2 DEF Break, NoStrayConnection
    <3>2. Requests' = {}
      BY <2>2, <3>1, LinkTypes DEF Break, Requests, TypeOK
    <3>3. CallsKept
      BY <2>2 DEF Break, CallsLeft, Counts
    <3> QED BY <2>2, <2>e, <3>1, <3>2, <3>3, Ending DEF Break
  <2>3. ASSUME NEW g \in Goroutine, ReadConn(g) \/ NextId(g) \/ Fail(g) PROVE Budget'
    <3>1. UNCHANGED <<command, attempt, conn, link, execs, deliveries>>
      BY <2>3 DEF ReadConn, NextId, Fail
    <3>2. CASE ReadConn(g)
      <4>1. /\ pc[g] = "conn" /\ pc'[g] \in {"clear", "id"}
            /\ \A q \in Goroutine \ {g} : pc'[q] = pc[q]
        BY <3>2, Going DEF ReadConn, PcValue
      <4> QED BY <2>s, <3>1, <4>1
    <3>3. CASE NextId(g)
      <4>1. /\ pc[g] = "id" /\ pc'[g] = "send"
            /\ \A q \in Goroutine \ {g} : pc'[q] = pc[q]
        BY <3>3, Going DEF NextId, PcValue
      <4> QED BY <2>s, <3>1, <4>1
    <3>4. CASE Fail(g)
      <4>1. pc'[consumer] = "commit"
        BY <3>4, Going DEF Fail, Finish, PcValue
      <4> QED BY <2>s, <3>1, <4>1
    <3> QED BY <2>3, <3>2, <3>3, <3>4
  <2>4. ASSUME NEW g \in Goroutine, Send(g) PROVE Budget'
    <3>1. /\ pc[g] = "send" /\ pc'[g] \in {"clear", "read"} /\ held[g] \in Conn
          /\ \A q \in Goroutine \ {g} : pc'[q] = pc[q]
          /\ UNCHANGED <<command, attempt, conn, execs, deliveries>>
      BY <2>4, Going DEF Send, Places, PcValue
    <3>2. \A c \in Command : CallsLeft(c) = CallsLeft(c)' + (IF g = consumer /\ c = command THEN 1 ELSE 0)
      BY <2>p, <3>1 DEF CallsLeft, PcValue
    <3>3. CallsKept
      BY <3>2 DEF Counts
    <3>4. CASE UNCHANGED link
      BY <2>q, <3>1, <3>3, <3>4 DEF Requests
    <3>5. CASE link[held[g]].writable
      <4> DEFINE request == [id |-> id[g], what |-> Asks(g)]
      <4>1. held[g] = conn
        BY <3>1, <3>5 DEF NoStrayConnection
      <4>2. Requests = link[conn].requests /\ IsFiniteSet(Requests) /\ conn \in Conn
        BY <3>1, <4>1, PendingCounts DEF Requests
      <4>3. link'[conn].requests \in {link[conn].requests, link[conn].requests \cup {request}}
        BY <2>4, <3>1, <3>5, <4>1, <4>2 DEF Send, TypeOK, Link
      <4>4. Requests' \in {Requests, Requests \cup {request}}
        BY <3>1, <4>2, <4>3 DEF Requests
      <4>5. CASE Requests' = Requests
        BY <2>q, <3>1, <3>3, <4>5
      <4>6. CASE Requests' = Requests \cup {request} /\ request \notin Requests
        <5>1. request.what = (IF g = consumer THEN command ELSE Ping)
          BY DEF Asks
        <5>2. \A c \in Command : Pending(c)' = Asking(Requests \cup {request}, c)
          BY <4>6 DEF Pending, Asking
        <5>3. IsFiniteSet(Requests \cup {request}) /\ request \in Requests \cup {request}
              /\ (Requests \cup {request}) \ {request} = Requests
          BY <4>2, <4>6, FS_AddElement
        <5>4. \A c \in Command : /\ Pending(c)' = Pending(c) + Asking({request}, c)
                                 /\ Asking({request}, c) = IF request.what = c THEN 1 ELSE 0
          <6> HIDE DEF request
          <6> QED BY <5>2, <5>3, AskingOne DEF Pending
        <5>5. \A c \in Command : c # Ping
          BY DEF Command, Ping
        <5>6. \A c \in Command : /\ execs[c] \in Nat /\ Pending(c) \in Nat /\ Pending(c)' \in Nat
                                 /\ CallsLeft(c)' \in Nat
          BY DEF TypeOK, Counts
        <5>7. \A c \in Command :
                execs'[c] + Pending(c)' + CallsLeft(c)' <= execs[c] + Pending(c) + CallsLeft(c)
          <6> HIDE DEF request
          <6>1. ASSUME NEW c \in Command PROVE
                  /\ Pending(c)' <= Pending(c) + (IF g = consumer /\ c = command THEN 1 ELSE 0)
                  /\ execs'[c] = execs[c]
            BY <3>1, <5>1, <5>4, <5>5, <5>6
          <6> QED BY <3>2, <5>6, <6>1
        <5> QED BY <3>1, <5>7, BudgetKept
      <4>7. CASE request \in Requests
        <5>1. Requests \cup {request} = Requests
          BY <4>7
        <5> QED BY <4>4, <4>5, <5>1
      <4> QED BY <4>4, <4>5, <4>6, <4>7
    <3> QED BY <2>4, <3>4, <3>5 DEF Send
  <2>f. CallFails => pc'[consumer] = "commit" \/ (attempt = 1 /\ pc'[consumer] = "clear")
    <3>1. leave(consumer, "clear") => pc'[consumer] = "clear"
      BY DEF leave, goto, TypeOK
    <3>2. leave(consumer, "commit") => pc'[consumer] = "commit"
      BY DEF leave, goto, TypeOK
    <3> QED BY <3>1, <3>2 DEF CallFails, Finish
  <2>5. ASSUME pc[consumer] = "read", NEW r, ReadResult(r) PROVE Budget'
    <3>1. held[consumer] \in Conn /\ UNCHANGED <<command, attempt, conn, execs, deliveries>>
      BY <2>5 DEF ReadResult, Places
    <3>2. UNCHANGED Requests
      BY <2>5, <3>1 DEF ReadResult, Requests, TypeOK, Link
    <3>3. pc'[consumer] \in {"read", "commit"} \/ (attempt = 1 /\ pc'[consumer] = "clear")
      <4>1. Finish("ok") \/ CallFails \/ UNCHANGED workVars
        BY <2>5 DEF ReadResult
      <4>2. Finish("ok") => pc'[consumer] = "commit"
        BY DEF Finish, leave, goto, TypeOK
      <4> QED BY <2>5, <2>f, <4>1, <4>2
    <3>4. CallsKept
      BY <2>5, <2>p, <3>1, <3>3 DEF CallsLeft
    <3> QED BY <2>q, <3>1, <3>2, <3>4
  <2>6. ASSUME pc[pinger] = "read", NEW r, ReadPong(r) PROVE Budget'
    <3>1. held[pinger] \in Conn /\ UNCHANGED <<command, attempt, conn, execs, deliveries>>
      BY <2>6 DEF ReadPong, Places
    <3>2. UNCHANGED Requests
      BY <2>6, <3>1 DEF ReadPong, Requests, TypeOK, Link
    <3>3. pc'[consumer] = pc[consumer]
      BY <2>6, Going DEF ReadPong, PcValue
    <3>4. CallsKept
      BY <3>1, <3>3 DEF CallsLeft, Counts
    <3> QED BY <2>q, <3>1, <3>2, <3>4
  <2>7. ASSUME NEW g \in Goroutine, ReadFails(g) PROVE Budget'
    <3>1. pc[g] = "read" /\ held[g] \in Conn /\ UNCHANGED <<command, attempt, conn, execs, deliveries>>
      BY <2>7 DEF ReadFails, Places
    <3>2. UNCHANGED Requests
      BY <2>7, <3>1 DEF ReadFails, Requests, TypeOK, Link
    <3>3. \/ g = pinger /\ pc'[consumer] = pc[consumer]
          \/ g = consumer /\ (pc'[consumer] = "commit" \/ (attempt = 1 /\ pc'[consumer] = "clear"))
      <4>1. IF g = consumer THEN CallFails ELSE leave(g, "clear")
        BY <2>7 DEF ReadFails
      <4>2. leave(pinger, "clear") => pc'[consumer] = pc[consumer]
        BY DEF leave, goto, TypeOK
      <4> QED BY <2>f, <4>1, <4>2
    <3>4. CallsKept
      BY <2>p, <3>1, <3>3 DEF CallsLeft
    <3> QED BY <2>q, <3>1, <3>2, <3>4
  <2>8. ASSUME NEW g \in Goroutine, ClearConnection(g) PROVE Budget'
    <3>1. Close(conn) /\ Requests' = {} /\ UNCHANGED <<deliveries, command, attempt>>
      BY <2>8 DEF ClearConnection, Requests
    <3>2. \/ g = pinger /\ pc'[consumer] = pc[consumer]
          \/ g = consumer /\ pc[consumer] = "clear" /\ pc'[consumer] = "connect"
      BY <2>8, Going DEF ClearConnection, PcValue
    <3>3. CallsKept
      BY <2>p, <3>1, <3>2 DEF CallsLeft
    <3> QED BY <2>e, <3>1, <3>3, Closing
  <2>9. ASSUME NEW g \in Goroutine, Connect(g) PROVE Budget'
    <3>1. Requests' = {}
      BY <2>9, Connecting, LinkTypes DEF Requests
    <3>2. UNCHANGED <<deliveries, command>>
      BY <2>9 DEF Connect
    <3>3. \/ pc'[consumer] = "idle"
          \/ g = consumer /\ pc[consumer] = "connect" /\ pc'[consumer] = "conn" /\ attempt' = 2
          \/ pc'[consumer] = pc[consumer] /\ attempt' = attempt
      BY <2>9 DEF Connect, ReturnConnected, TypeOK
    <3>4. CallsKept
      BY <2>p, <3>2, <3>3 DEF CallsLeft
    <3> QED BY <2>9, <2>e, <3>1, <3>2, <3>4, Connecting
  <2>10. ASSUME NEW g \in Goroutine, ConnectFails(g) PROVE Budget'
    <3>1. Close(conn) /\ Requests' = {} /\ UNCHANGED <<deliveries, command, attempt>>
      BY <2>10 DEF ConnectFails, Requests
    <3>2. pc'[consumer] \in {"gone", "commit", "idle"} \/ pc'[consumer] = pc[consumer]
      BY <2>10 DEF ConnectFails, goto, TypeOK
    <3>3. CallsKept
      BY <2>p, <3>1, <3>2 DEF CallsLeft
    <3> QED BY <2>e, <3>1, <3>3, Closing
  <2>11. ASSUME NEW c \in Command, Take(c) PROVE Budget'
    <3>1. /\ pc[consumer] = "idle" /\ command' = c /\ pc'[consumer] \in {"conn", "commit"}
          /\ pc'[consumer] = "conn" => attempt' = 1
          /\ UNCHANGED <<execs, conn, link>>
          /\ deliveries' = [deliveries EXCEPT ![c] = @ + 1]
      BY <2>11, Going DEF Take, FetchMessage, PcValue
    <3>2. \A d \in Command : Pending(d)' = Pending(d)
      BY <3>1 DEF Pending, Asking, Requests
    <3>3. \A d \in Command : /\ CallsLeft(d) = 0
                             /\ CallsLeft(d)' <= IF d = c THEN 2 ELSE 0
                             /\ deliveries'[d] = IF d = c THEN deliveries[d] + 1 ELSE deliveries[d]
      <4>1. \A d \in Command : CallsLeft(d) = 0
        BY <3>1 DEF CallsLeft
      <4>2. \A d \in Command : CallsLeft(d)' <= IF d = c THEN 2 ELSE 0
        BY <3>1 DEF CallsLeft
      <4>3. \A d \in Command : deliveries'[d] = IF d = c THEN deliveries[d] + 1 ELSE deliveries[d]
        BY <3>1 DEF TypeOK
      <4> QED BY <4>1, <4>2, <4>3
    <3>4. ASSUME NEW d \in Command
          PROVE  execs'[d] + Pending(d)' + CallsLeft(d)' <= 2 * deliveries'[d]
      <4>1. /\ execs[d] \in Nat /\ Pending(d) \in Nat /\ deliveries[d] \in Nat
            /\ CallsLeft(d)' \in Nat /\ execs'[d] = execs[d] /\ Pending(d)' = Pending(d)
        BY <3>1, <3>2 DEF TypeOK, Counts
      <4>2. execs[d] + Pending(d) <= 2 * deliveries[d]
        BY <3>3, <4>1 DEF Budget
      <4>3. CASE d = c
        BY <3>3, <4>1, <4>2, <4>3
      <4>4. CASE d # c
        BY <3>3, <4>1, <4>2, <4>4
      <4> QED BY <4>3, <4>4
    <3> QED BY <3>4 DEF Budget
  <2>12. CASE Crash
    <3>1. Ends(Conn) /\ Requests' = {} /\ UNCHANGED deliveries /\ pc'[consumer] = "start"
      BY <2>12 DEF Crash, Requests, Started
    <3>2. CallsKept
      BY <3>1 DEF CallsLeft, Counts
    <3> QED BY <2>e, <3>1, <3>2, Ending
  <2>13. CASE CommitMessages \/ Tick \/ (\E g \in Goroutine : Return(g)) \/ Cancel \/ UNCHANGED vars
    <3>1. CASE CommitMessages
      <4>1. /\ UNCHANGED <<execs, deliveries, Requests, command>>
            /\ pc[consumer] = "commit" /\ pc'[consumer] = "idle"
        BY <3>1, Going DEF CommitMessages, Requests, PcValue
      <4>2. CallsKept
        BY <4>1 DEF CallsLeft
      <4> QED BY <2>q, <4>1, <4>2
    <3>2. CASE Tick \/ Cancel \/ UNCHANGED vars
      <4>1. /\ UNCHANGED <<command, attempt, conn, link, execs, deliveries>>
            /\ pc'[consumer] = pc[consumer]
        BY <3>2, Going DEF Tick, Cancel, vars, PcValue
      <4>2. CallsKept
        BY <4>1 DEF CallsLeft, Counts
      <4> QED BY <2>q, <4>1, <4>2 DEF Requests
    <3>3. ASSUME NEW g \in Goroutine, Return(g) PROVE Budget'
      <4>1. /\ UNCHANGED <<command, attempt, conn, link, execs, deliveries>>
            /\ pc'[consumer] = pc[consumer] \/ pc'[consumer] = "gone"
        BY <3>3, Going DEF Return, PcValue
      <4> QED BY <2>s, <4>1
    <3> QED BY <2>13, <3>1, <3>2, <3>3
  <2> QED BY <2>1, <2>2, <2>3, <2>4, <2>5, <2>6, <2>7, <2>8, <2>9, <2>10, <2>11, <2>12, <2>13
          DEF Next, Work, Consume
<1>3. TypeInv /\ Counts /\ Budget => AtMostTwice
  <2> SUFFICES ASSUME TypeInv, Counts, Budget, NEW c \in Command
               PROVE  execs[c] <= 2 * deliveries[c]
    BY DEF AtMostTwice
  <2> QED BY DEF TypeInv, TypeOK, Counts, Budget
<1> QED BY <1>1, <1>2, <1>3, TypeCorrect, CountsAreNumbers, PTL DEF Spec
----------------------------------------------------------------------------
(* A step that gives no id, and brings no message that was not there.          *)
LEMMA IdsKept ==
  ASSUME Ids, UNCHANGED <<conn, msgID>>, conn # None => link'[conn].lastId <= msgID,
         \A r \in Messages' : \E q \in Messages : q.id = r.id /\ q.what = r.what,
         \A g \in Goroutine : Held(g)' /\ pc'[g] \in {"send", "read"} =>
           pc'[g] = pc[g] /\ held'[g] = held[g] /\ id'[g] = id[g],
         pc'[consumer] = "read" => command' = command
  PROVE  Ids'
<1> USE Goroutines
<1>1. \A g \in Goroutine : Held(g)' /\ pc'[g] \in {"send", "read"} =>
        Held(g) /\ pc[g] \in {"send", "read"} /\ id'[g] = id[g]
  BY DEF Held
<1>2. conn' # None => link'[conn'].lastId <= msgID' /\ \A r \in Messages' : r.id <= msgID'
  BY DEF Ids
<1>3. \A g \in Goroutine : Held(g)' /\ pc'[g] \in {"send", "read"} => id'[g] <= msgID'
  BY <1>1 DEF Ids
<1>4. Held(consumer)' /\ Held(pinger)' /\ pc'[consumer] \in {"send", "read"}
        /\ pc'[pinger] \in {"send", "read"} => id'[consumer] # id'[pinger]
  BY <1>1 DEF Ids
<1>5. \A g \in Goroutine : Held(g)' /\ pc'[g] = "send" => \A r \in Messages' : r.id # id'[g]
  BY <1>1 DEF Ids
<1>6. Held(consumer)' /\ pc'[consumer] = "read" =>
        \A r \in Messages' : r.id = id'[consumer] => r.what = command'
  BY <1>1 DEF Ids
<1> QED BY <1>2, <1>3, <1>4, <1>5, <1>6 DEF Ids

(* A step after which nobody works with the client's connection.               *)
LEMMA IdsUnheld ==
  ASSUME Messages' = {}, \A g \in Goroutine : held'[g] = None \/ held'[g] # conn',
         conn' # None => link'[conn'].lastId <= msgID'
  PROVE  Ids'
<1>1. \A g \in Goroutine : ~Held(g)'
  BY DEF Held
<1> QED BY <1>1, Goroutines DEF Ids

(* What goroutines have in hand, and the connection's messages, determine Ids. *)
LEMMA IdsSame ==
  ASSUME Ids, UNCHANGED <<conn, msgID, link>>,
         \A g \in Goroutine : Held(g)' /\ pc'[g] \in {"send", "read"} =>
           pc'[g] = pc[g] /\ held'[g] = held[g] /\ id'[g] = id[g],
         pc'[consumer] = "read" => command' = command
  PROVE  Ids'
<1>1. Messages' = Messages /\ (conn # None => link'[conn].lastId <= msgID)
  BY DEF Messages, Ids
<1> QED BY <1>1, IdsKept

(* The answer with the consumer's id is the one to its command: the client     *)
(* never gives two goroutines one id on one connection.                        *)
THEOREM AnswersBelong == Spec => []Ids
<1> USE Goroutines
<1>1. Init => Ids
  <2> SUFFICES ASSUME Init PROVE Ids
    OBVIOUS
  <2>1. conn = None /\ \A g \in Goroutine : ~Held(g)
    BY DEF Init, Held
  <2> QED BY <2>1 DEF Ids
<1>2. TypeInv /\ Ids /\ [Next]_vars => Ids'
  <2> SUFFICES ASSUME TypeInv, Ids, [Next]_vars PROVE Ids'
    OBVIOUS
  <2> USE DEF TypeInv, kafkaVars, callVars, clientVars, workVars, bounds
  <2>g. ASSUME UNCHANGED <<conn, msgID, link, command>>, NEW g \in Goroutine,
               NEW where \in PcValue \ {"send", "read"}, goto(g, where), UNCHANGED <<held, id>>
        PROVE  Ids'
    <3>1. \A q \in Goroutine : pc'[q] \in {"send", "read"} => pc'[q] = pc[q]
      BY <2>g, Going
    <3> QED BY <2>g, <3>1, IdsSame
  <2>1. ASSUME NEW k \in Conn, NEW r \in link[k].requests, Execute(k, r) PROVE Ids'
    <3>1. UNCHANGED <<conn, msgID, pc, held, id, command>>
      BY <2>1 DEF Execute
    <3>2. PICK b \in BOOLEAN : Answer(k, r, b)
      BY <2>1 DEF Execute
    <3>3. k = conn /\ conn # None
      BY MessagesOnConn DEF TypeOK
    <3>4. link'[conn].lastId = link[conn].lastId
      BY <3>2, <3>3 DEF Answer, TypeOK, Link
    <3>5. \A m \in Messages' : \E q \in Messages : q.id = m.id /\ q.what = m.what
      <4>1. Messages = link[k].requests \cup link[k].replies
        BY <3>3 DEF Messages
      <4>2. Messages' = link'[k].requests \cup link'[k].replies
        BY <3>1, <3>3 DEF Messages
      <4>3. /\ link'[k].requests = link[k].requests \ {r}
            /\ link'[k].replies = link[k].replies \cup
                 {[id |-> r.id, what |-> r.what, success |-> b,
                   type |-> IF r.what = Ping THEN "pong" ELSE "result"]}
        BY <3>2 DEF Answer, TypeOK, Link
      <4> QED BY <4>1, <4>2, <4>3
    <3> QED BY <3>1, <3>3, <3>4, <3>5, IdsKept DEF Ids
  <2>2. ASSUME NEW k \in Conn, Break(k) PROVE Ids'
    <3>1. k = conn /\ UNCHANGED <<conn, msgID, pc, held, id, command>>
      BY <2>2 DEF Break, NoStrayConnection
    <3>2. link'[conn] = Closed
      BY <2>2, <3>1 DEF Break, TypeOK
    <3>3. Messages' = {} /\ link'[conn].lastId = 0
      BY <3>1, <3>2 DEF Messages, Closed
    <3>4. 0 <= msgID
      BY DEF TypeOK
    <3> QED BY <3>1, <3>3, <3>4, IdsKept
  <2>3. ASSUME NEW g \in Goroutine, ReadConn(g) PROVE Ids'
    <3>1. UNCHANGED <<conn, msgID, link, command, id>>
      BY <2>3 DEF ReadConn
    <3>2. /\ pc'[g] \in {"clear", "id"}
          /\ \A q \in Goroutine \ {g} : pc'[q] = pc[q] /\ held'[q] = held[q]
      BY <2>3, Going DEF ReadConn, PcValue, TypeOK
    <3> QED BY <3>1, <3>2, IdsSame
  <2>4. ASSUME NEW g \in Goroutine, NextId(g) PROVE Ids'
    <3>1. /\ UNCHANGED <<conn, link, command, held>> /\ pc[g] = "id" /\ pc'[g] = "send"
          /\ msgID' = msgID + 1 /\ msgID \in Nat /\ id'[g] = msgID'
          /\ \A q \in Goroutine \ {g} : pc'[q] = pc[q] /\ id'[q] = id[q]
      BY <2>4, Going DEF NextId, PcValue, TypeOK
    <3>2. Messages' = Messages /\ \A q \in Goroutine : Held(q)' = Held(q)
      BY <3>1 DEF Messages, Held
    <3>3. \A r \in Messages : r.id \in Nat /\ r.id <= msgID
      BY DEF Ids, Messages, TypeOK, Link, Request, Reply
    <3>4. \A q \in Goroutine : id[q] \in Nat
      BY DEF TypeOK
    <3>5. conn # None => link[conn].lastId \in Nat /\ link[conn].lastId <= msgID
      BY DEF Ids, TypeOK, Link
    <3>6. conn' # None => link'[conn'].lastId <= msgID' /\ \A r \in Messages' : r.id <= msgID'
      BY <3>1, <3>2, <3>3, <3>5
    <3>7. \A q \in Goroutine : Held(q)' /\ pc'[q] \in {"send", "read"} =>
            id'[q] <= msgID' /\ (q # g => id'[q] <= msgID)
      BY <3>1, <3>2, <3>4 DEF Ids
    <3>8. Held(consumer)' /\ Held(pinger)' /\ pc'[consumer] \in {"send", "read"}
            /\ pc'[pinger] \in {"send", "read"} => id'[consumer] # id'[pinger]
      BY <3>1, <3>4, <3>7
    <3>9. \A q \in Goroutine : Held(q)' /\ pc'[q] = "send" => \A r \in Messages' : r.id # id'[q]
      BY <3>1, <3>2, <3>3 DEF Ids
    <3>10. Held(consumer)' /\ pc'[consumer] = "read" =>
             \A r \in Messages' : r.id = id'[consumer] => r.what = command'
      BY <3>1, <3>2 DEF Ids
    <3> QED BY <3>6, <3>7, <3>8, <3>9, <3>10 DEF Ids
  <2>5. ASSUME NEW g \in Goroutine, Send(g) PROVE Ids'
    <3>1. /\ pc[g] = "send" /\ pc'[g] \in {"clear", "read"} /\ held[g] \in Conn
          /\ \A q \in Goroutine \ {g} : pc'[q] = pc[q]
          /\ UNCHANGED <<conn, msgID, command, held, id>>
      BY <2>5, Going DEF Send, Places, PcValue
    <3>2. CASE pc'[g] = "clear" /\ UNCHANGED link
      BY <3>1, <3>2, IdsSame
    <3>3. CASE link[held[g]].writable
      <4>1. held[g] = conn /\ Held(g) /\ conn # None
        BY <3>1, <3>3 DEF NoStrayConnection, Held, TypeOK
      <4>2. /\ link'[conn].lastId \in {link[conn].lastId, id[g]}
            /\ \A r \in link'[conn].requests \cup link'[conn].replies :
                 r \in link[conn].requests \cup link[conn].replies \/ (r.id = id[g] /\ r.what = Asks(g))
        BY <2>5, <3>1, <3>3, <4>1 DEF Send, TypeOK, Link
      <4>3. \A r \in Messages' : r \in Messages \/ (r.id = id[g] /\ r.what = Asks(g))
        BY <3>1, <4>1, <4>2 DEF Messages
      <4>4. conn' # None => link'[conn'].lastId <= msgID' /\ \A r \in Messages' : r.id <= msgID'
        BY <3>1, <4>1, <4>2, <4>3 DEF Ids
      <4>5. \A q \in Goroutine : Held(q)' = Held(q)
                                 /\ (pc'[q] \in {"send", "read"} => pc[q] \in {"send", "read"})
        BY <3>1 DEF Held
      <4>6. \A q \in Goroutine : Held(q)' /\ pc'[q] \in {"send", "read"} => id'[q] <= msgID'
        BY <3>1, <4>5 DEF Ids
      <4>7. Held(consumer)' /\ Held(pinger)' /\ pc'[consumer] \in {"send", "read"}
              /\ pc'[pinger] \in {"send", "read"} => id'[consumer] # id'[pinger]
        BY <3>1, <4>5 DEF Ids
      <4>8. \A q \in Goroutine : Held(q)' /\ pc'[q] = "send" => \A r \in Messages' : r.id # id'[q]
        <5>1. ASSUME NEW q \in Goroutine, Held(q)', pc'[q] = "send" PROVE q # g /\ id[q] # id[g]
          BY <3>1, <4>1, <4>5, <5>1 DEF Ids
        <5> QED BY <3>1, <4>3, <4>5, <5>1 DEF Ids
      <4>9. Held(consumer)' /\ pc'[consumer] = "read" =>
              \A r \in Messages' : r.id = id'[consumer] => r.what = command'
        <5>1. CASE g = consumer
          BY <3>1, <4>1, <4>3, <5>1 DEF Ids, Asks
        <5>2. CASE g = pinger
          BY <3>1, <4>1, <4>3, <4>5, <5>2 DEF Ids
        <5> QED BY <5>1, <5>2
      <4> QED BY <4>4, <4>6, <4>7, <4>8, <4>9 DEF Ids
    <3> QED BY <2>5, <3>1, <3>2, <3>3 DEF Send, goto, TypeOK
  <2>l. ASSUME NEW g \in Goroutine, NEW where \in PcValue \ {"send", "read"}, leave(g, where),
               UNCHANGED command
        PROVE  /\ \A q \in Goroutine : Held(q)' /\ pc'[q] \in {"send", "read"} =>
                    pc'[q] = pc[q] /\ held'[q] = held[q] /\ id'[q] = id[q]
               /\ pc'[consumer] = "read" => command' = command
    BY <2>l, Going
  <2>w. ASSUME UNCHANGED <<conn, msgID, command>>, NEW k \in Conn, NEW replies \in SUBSET link[k].replies,
               link'[k].replies = replies, link'[k].requests = link[k].requests,
               link'[k].lastId = link[k].lastId, \A j \in Conn \ {k} : link'[j] = link[j],
               \/ UNCHANGED workVars
               \/ \E g \in Goroutine, where \in PcValue \ {"send", "read"} : leave(g, where)
        PROVE  Ids'
    <3>1. Messages' \subseteq Messages /\ (conn # None => link'[conn].lastId = link[conn].lastId)
      BY <2>w DEF Messages, TypeOK
    <3>2. \A q \in Goroutine : Held(q)' /\ pc'[q] \in {"send", "read"} =>
            pc'[q] = pc[q] /\ held'[q] = held[q] /\ id'[q] = id[q]
      BY <2>w, <2>l
    <3> QED BY <2>w, <3>1, <3>2, IdsKept DEF Ids
  <2>6. ASSUME pc[consumer] = "read", NEW r, ReadResult(r) PROVE Ids'
    <3>1. held[consumer] \in Conn /\ UNCHANGED <<conn, msgID, command>>
      BY <2>6 DEF ReadResult, Places
    <3>2. \/ UNCHANGED workVars
          \/ \E where \in {"commit", "clear"} : leave(consumer, where)
      BY <2>6 DEF ReadResult, Finish, CallFails
    <3>3. /\ link'[held[consumer]].replies = link[held[consumer]].replies \ {r}
          /\ link'[held[consumer]].requests = link[held[consumer]].requests
          /\ link'[held[consumer]].lastId = link[held[consumer]].lastId
          /\ \A j \in Conn \ {held[consumer]} : link'[j] = link[j]
      BY <2>6, <3>1 DEF ReadResult, TypeOK, Link
    <3> QED BY <2>w, <3>1, <3>2, <3>3 DEF PcValue
  <2>7. ASSUME pc[pinger] = "read", NEW r, ReadPong(r) PROVE Ids'
    <3>1. held[pinger] \in Conn /\ UNCHANGED <<conn, msgID, command>>
      BY <2>7 DEF ReadPong, Places
    <3>2. UNCHANGED workVars \/ leave(pinger, "idle")
      BY <2>7 DEF ReadPong
    <3>3. /\ link'[held[pinger]].replies = link[held[pinger]].replies \ {r}
          /\ link'[held[pinger]].requests = link[held[pinger]].requests
          /\ link'[held[pinger]].lastId = link[held[pinger]].lastId
          /\ \A j \in Conn \ {held[pinger]} : link'[j] = link[j]
      BY <2>7, <3>1 DEF ReadPong, TypeOK, Link
    <3> QED BY <2>w, <3>1, <3>2, <3>3 DEF PcValue
  <2>8. ASSUME NEW g \in Goroutine, ReadFails(g) PROVE Ids'
    <3>1. held[g] \in Conn /\ UNCHANGED <<conn, msgID, command>>
      BY <2>8 DEF ReadFails, Places
    <3>2. \E where \in {"commit", "clear"} : leave(g, where)
      BY <2>8 DEF ReadFails, Finish, CallFails
    <3>3. /\ link'[held[g]].replies = link[held[g]].replies
          /\ link'[held[g]].requests = link[held[g]].requests
          /\ link'[held[g]].lastId = link[held[g]].lastId
          /\ \A j \in Conn \ {held[g]} : link'[j] = link[j]
      BY <2>8, <3>1 DEF ReadFails, TypeOK, Link
    <3> QED BY <2>w, <3>1, <3>2, <3>3 DEF PcValue
  <2>9. ASSUME NEW g \in Goroutine, Fail(g) PROVE Ids'
    <3>1. UNCHANGED <<conn, msgID, link, command>> /\ leave(consumer, "commit")
      BY <2>9 DEF Fail, Finish
    <3> QED BY <2>l, <3>1, IdsSame DEF PcValue
  <2>10. ASSUME conn' = None PROVE Ids'
    <3>1. Messages' = {} /\ \A g \in Goroutine : held'[g] = None \/ held'[g] # conn'
      BY <2>10 DEF Messages
    <3> QED BY <2>10, <3>1, IdsUnheld
  <2>11. ASSUME NEW g \in Goroutine, Connect(g) PROVE Ids'
    <3>1. /\ \A q \in Goroutine : held'[q] # conn'
          /\ link'[conn'] = Fresh /\ msgID' = 0
      BY <2>11, Connecting DEF Connect
    <3>2. Messages' = {} /\ link'[conn'].lastId <= msgID'
      BY <3>1, LinkTypes DEF Messages
    <3> QED BY <3>1, <3>2, IdsUnheld
  <2>12. ASSUME NEW c \in Command, Take(c) PROVE Ids'
    <3>1. /\ UNCHANGED <<conn, msgID, link, held, id>> /\ pc'[consumer] \in {"conn", "commit"}
          /\ pc'[pinger] = pc[pinger]
      BY <2>12, Going DEF Take, PcValue
    <3> QED BY <3>1, IdsSame
  <2>13. CASE CommitMessages \/ Tick \/ (\E g \in Goroutine : Return(g))
    BY <2>13, <2>g DEF CommitMessages, Tick, Return, PcValue
  <2>14. CASE Cancel \/ UNCHANGED vars
    BY <2>14, IdsSame DEF Cancel, vars
  <2> QED BY <2>1, <2>2, <2>3, <2>4, <2>5, <2>6, <2>7, <2>8, <2>9, <2>10, <2>11, <2>12, <2>13,
             <2>14 DEF Next, Work, Consume, ClearConnection, ConnectFails, Crash
<1> QED BY <1>1, <1>2, TypeCorrect, PTL DEF Spec

(* A step that executes no less, and brings no success that was not there.     *)
LEMMA ResultsKept ==
  ASSUME TypeOK, Results, \A c \in Command : execs'[c] \in Nat /\ execs'[c] >= execs[c],
         \A k \in Conn : \A r \in link'[k].replies : r \in link[k].replies \/ ~r.success,
         \A c \in Command : outcome'[c] = "ok" => outcome[c] = "ok"
  PROVE  Results'
<1>1. \A c \in Command : execs[c] > 0 => execs'[c] > 0
  BY DEF TypeOK
<1>2. \A k \in Conn : \A r \in link'[k].replies :
        r.type = "result" /\ r.success => r.what \in Command /\ execs'[r.what] > 0
  BY <1>1 DEF Results
<1>3. \A c \in Command : outcome'[c] = "ok" => execs'[c] > 0
  BY <1>1 DEF Results, SuccessIsExecuted
<1> QED BY <1>2, <1>3 DEF Results, SuccessIsExecuted

(* No answer to another call, to a ping, or to a call on an earlier connection *)
(* is taken for the success of a command.                                      *)
THEOREM SuccessAlwaysExecuted == Spec => []SuccessIsExecuted
<1> USE Goroutines
<1>1. Init => Results
  BY LinkTypes DEF Init, Results, SuccessIsExecuted
<1>2. TypeInv /\ Ids /\ Results /\ [Next]_vars => Results'
  <2> SUFFICES ASSUME TypeInv, Ids, Results, [Next]_vars PROVE Results'
    OBVIOUS
  <2> USE DEF TypeInv, kafkaVars, callVars, clientVars, workVars, bounds
  <2>u. ASSUME UNCHANGED execs,
               \A k \in Conn : \A r \in link'[k].replies : r \in link[k].replies \/ ~r.success,
               \A c \in Command : outcome'[c] = "ok" => outcome[c] = "ok"
        PROVE  Results'
    <3>1. \A c \in Command : execs'[c] \in Nat /\ execs'[c] >= execs[c]
      BY <2>u DEF TypeOK
    <3> QED BY <2>u, <3>1, ResultsKept
  <2>e. ASSUME UNCHANGED outcome, \A k \in Conn : link'[k].replies \subseteq link[k].replies,
               execs' \in [Command -> Nat], \A c \in Command : execs'[c] >= execs[c]
        PROVE  Results'
    BY <2>e, ResultsKept
  <2>f. ASSUME CallFails, pc[consumer] = "read"
        PROVE  \A c \in Command : outcome'[c] = "ok" => outcome[c] = "ok"
    BY <2>f DEF CallFails, Finish, TypeOK
  <2>1. ASSUME NEW k \in Conn, NEW r \in link[k].requests, Execute(k, r) PROVE Results'
    <3>1. r.what \in Command \cup {Ping}
      BY DEF TypeOK, Link, Request
    <3>2. PICK b \in BOOLEAN : /\ Answer(k, r, b)
                               /\ \/ execs' = Executed({r})
                                  \/ b = FALSE /\ UNCHANGED execs
      BY <2>1 DEF Execute
    <3> DEFINE reply == [id |-> r.id, what |-> r.what, success |-> b,
                         type |-> IF r.what = Ping THEN "pong" ELSE "result"]
    <3>3. \A j \in Conn : \A m \in link'[j].replies : m \in link[j].replies \/ m = reply
      BY <3>2 DEF Answer, TypeOK, Link
    <3>4. UNCHANGED outcome
      BY <2>1 DEF Execute
    <3>5. CASE b = FALSE /\ UNCHANGED execs
      BY <2>u, <3>3, <3>4, <3>5
    <3>6. CASE execs' = Executed({r})
      <4>1. \A c \in Command : /\ execs'[c] = execs[c] + Asking({r}, c) /\ execs'[c] \in Nat
                               /\ execs'[c] >= execs[c] /\ execs[c] \in Nat
        BY <3>6, FS_Singleton, Executing DEF TypeOK
      <4>2. \A c : Asking({r}, c) = IF r.what = c THEN 1 ELSE 0
        BY FS_Singleton, AskingOne
      <4>3. reply.type = "result" => reply.what \in Command /\ execs'[reply.what] > 0
        BY <3>1, <4>1, <4>2
      <4> HIDE DEF reply
      <4>4. \A c \in Command : execs[c] > 0 => execs'[c] > 0
        BY <4>1
      <4>5. \A j \in Conn : \A m \in link'[j].replies :
              m.type = "result" /\ m.success => m.what \in Command /\ execs'[m.what] > 0
        BY <3>3, <4>3, <4>4 DEF Results
      <4>6. \A c \in Command : outcome'[c] = "ok" => execs'[c] > 0
        BY <3>4, <4>4 DEF Results, SuccessIsExecuted
      <4> QED BY <4>5, <4>6 DEF Results, SuccessIsExecuted
    <3> QED BY <3>2, <3>5, <3>6
  <2>2. ASSUME NEW k \in Conn, Break(k) PROVE Results'
    <3>1. Ends({k}) /\ {k} \in SUBSET Conn /\ UNCHANGED outcome
      BY <2>2 DEF Break
    <3>2. \A j \in Conn : link'[j].replies \subseteq link[j].replies
      BY <2>2, LinkTypes DEF Break, TypeOK
    <3> QED BY <2>e, <3>1, <3>2, Ending
  <2>3. ASSUME UNCHANGED <<execs, link, outcome>> PROVE Results'
    BY <2>3, <2>u
  <2>4. ASSUME NEW g \in Goroutine, Send(g) PROVE Results'
    <3>1. held[g] \in Conn /\ UNCHANGED <<execs, outcome>>
      BY <2>4 DEF Send, Places
    <3>2. \A k \in Conn : \A r \in link'[k].replies : r \in link[k].replies \/ ~r.success
      BY <2>4, <3>1 DEF Send, TypeOK, Link
    <3> QED BY <2>u, <3>1, <3>2
  <2>5. ASSUME pc[consumer] = "read", NEW r, ReadResult(r) PROVE Results'
    <3>1. held[consumer] \in Conn /\ r \in link[held[consumer]].replies /\ UNCHANGED execs
      BY <2>5 DEF ReadResult, Places
    <3>2. \A k \in Conn : \A q \in link'[k].replies : q \in link[k].replies
      BY <2>5, <3>1 DEF ReadResult, TypeOK, Link
    <3>3. CASE UNCHANGED outcome
      BY <2>u, <3>1, <3>2, <3>3
    <3>4. CASE CallFails
      BY <2>5, <2>f, <2>u, <3>1, <3>2, <3>4
    <3>5. CASE r.type = "result" /\ r.id = id[consumer] /\ r.success /\ Finish("ok")
      <4>1. Held(consumer) /\ r \in Messages
        BY <3>1, MessagesOnConn DEF Held, Messages, TypeOK
      <4>2. r.what = command /\ command \in Command /\ execs[command] > 0
        BY <2>5, <3>1, <3>5, <4>1 DEF Ids, Results
      <4>3. \A c \in Command : outcome'[c] = "ok" => outcome[c] = "ok" \/ c = command
        BY <3>5 DEF Finish, TypeOK
      <4> QED BY <3>1, <3>2, <4>2, <4>3 DEF Results, SuccessIsExecuted
    <3> QED BY <2>5, <3>3, <3>4, <3>5 DEF ReadResult
  <2>6. ASSUME pc[pinger] = "read", NEW r, ReadPong(r) PROVE Results'
    <3>1. held[pinger] \in Conn /\ UNCHANGED <<execs, outcome>>
      BY <2>6 DEF ReadPong, Places
    <3>2. \A k \in Conn : \A q \in link'[k].replies : q \in link[k].replies
      BY <2>6, <3>1 DEF ReadPong, TypeOK, Link
    <3> QED BY <2>u, <3>1, <3>2
  <2>7. ASSUME NEW g \in Goroutine, ReadFails(g) PROVE Results'
    <3>1. held[g] \in Conn /\ UNCHANGED execs
      BY <2>7 DEF ReadFails, Places
    <3>2. \A k \in Conn : \A q \in link'[k].replies : q \in link[k].replies
      BY <2>7, <3>1 DEF ReadFails, TypeOK, Link
    <3>3. \A c \in Command : outcome'[c] = "ok" => outcome[c] = "ok"
      BY <2>7, <2>f DEF ReadFails
    <3> QED BY <2>u, <3>1, <3>2, <3>3
  <2>8. ASSUME NEW g \in Goroutine, Fail(g) PROVE Results'
    <3>1. UNCHANGED <<execs, link>> /\ outcome' = [outcome EXCEPT ![command] = "failed"]
      BY <2>8 DEF Fail, Finish
    <3>2. \A c \in Command : outcome'[c] = "ok" => outcome[c] = "ok"
      BY <3>1 DEF TypeOK
    <3> QED BY <2>u, <3>1, <3>2
  <2>9. ASSUME Close(conn), \A c \in Command : outcome'[c] = "ok" => outcome[c] = "ok"
        PROVE  Results'
    <3>1. \A k \in Conn : \A r \in link'[k].replies : r \in link[k].replies
      BY <2>9, Closing, LinkTypes
    <3> QED BY <2>9, <3>1, Closing, ResultsKept
  <2>10. ASSUME NEW g \in Goroutine, ClearConnection(g) \/ ConnectFails(g) PROVE Results'
    <3>1. \A c \in Command : outcome'[c] = "ok" => outcome[c] = "ok"
      BY <2>10 DEF ClearConnection, ConnectFails, TypeOK
    <3> QED BY <2>9, <2>10, <3>1 DEF ClearConnection, ConnectFails
  <2>11. ASSUME NEW g \in Goroutine, Connect(g) PROVE Results'
    <3>1. \A k \in Conn : link'[k].replies \subseteq link[k].replies
      BY <2>11, Connecting, LinkTypes
    <3>2. UNCHANGED outcome
      BY <2>11 DEF Connect, ReturnConnected
    <3> QED BY <2>11, <2>e, <3>1, <3>2, Connecting
  <2>12. ASSUME NEW c \in Command, Take(c) PROVE Results'
    <3>1. UNCHANGED <<execs, link>> /\ \A d \in Command : outcome'[d] = "ok" => outcome[d] = "ok"
      BY <2>12 DEF Take, TypeOK
    <3> QED BY <2>u, <3>1
  <2>13. CASE Crash
    <3>1. Ends(Conn) /\ UNCHANGED outcome
      BY <2>13 DEF Crash
    <3>2. \A j \in Conn : link'[j].replies \subseteq link[j].replies
      BY <2>13, LinkTypes DEF Crash, TypeOK
    <3> QED BY <2>e, <3>1, <3>2, Ending
  <2> QED BY <2>1, <2>2, <2>3, <2>4, <2>5, <2>6, <2>7, <2>8, <2>10, <2>11, <2>12, <2>13
          DEF Next, Work, Consume, ReadConn, NextId, Return, CommitMessages, Tick, Cancel, vars
<1>3. Results => SuccessIsExecuted
  BY DEF Results
<1> QED BY <1>1, <1>2, <1>3, TypeCorrect, AnswersBelong, PTL DEF Spec
=============================================================================
