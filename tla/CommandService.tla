--------------------------- MODULE CommandService ---------------------------
(***************************************************************************)
(* homeassistant-command: service/service.go and ha/client.go.  A consumer *)
(* reads commands from a Kafka topic and calls Home Assistant over a       *)
(* websocket, with one reconnect and one more attempt when a call fails; a *)
(* pinger goroutine shares the connection.                                 *)
(*                                                                         *)
(* A connection and the part of Home Assistant behind it is a link.  Home  *)
(* Assistant refuses a message whose id is not above the last one of its   *)
(* connection, answers the others in any order, and may never answer.  Two *)
(* goroutines may read one connection: a message goes to one of them.      *)
(***************************************************************************)
EXTENDS Naturals, FiniteSets

CONSTANTS
  Length,      \* commands are the offsets 1..Length of the topic
  Valid,       \* those that can be parsed and pass Validate
  Conn,        \* connections; one that is closed and let go of is used again
  None,        \* no connection
  MaxPings,    \* bound: pings of one run of the process
  MaxFaults    \* bound: crashes and lost connections

ASSUME CommandAssumption ==
  /\ Length \in Nat /\ Valid \subseteq 1..Length
  /\ None \notin Conn /\ IsFiniteSet(Conn) /\ Cardinality(Conn) >= 3
  /\ MaxPings \in Nat /\ MaxFaults \in Nat

Command == 1..Length
consumer == "consumer"
pinger == "pinger"
Goroutine == {consumer, pinger}
Ping == 0    \* what a ping asks for

VARIABLES
  committed,  \* offset of the last committed message
  deliveries, \* how often each command was fetched
  execs,      \* how often Home Assistant has executed it
  outcome,    \* what the service has logged about it
  command,    \* the message in hand
  attempt,    \* 1 or 2: which call of executeWithReconnect
  pc,         \* what each goroutine is doing, see PcValue
  held,       \* the conn a call or ping works with
  id,         \* and the id of its message
  conn,       \* Client.conn
  msgID,      \* Client.msgID
  link,       \* the connections
  cancelled,  \* SIGTERM has come
  pings, faults

kafkaVars == <<committed, deliveries>>
callVars == <<command, attempt>>
clientVars == <<conn, msgID>>
workVars == <<pc, held, id>>
bounds == <<pings, faults>>
vars == <<kafkaVars, execs, outcome, callVars, workVars, clientVars, link, cancelled, bounds>>

(* start    in the first ConnectWithRetry
   idle     in FetchMessage, or waiting for the ticker
   conn     about to read Client.conn
   id       about to take an id
   send     about to send
   read     in ReadMessage with its deadline set
   clear    the call or the ping has failed
   connect  in ConnectWithRetry
   commit   about to commit
   gone     not started, or returned                                        *)
PcValue == {"start", "idle", "conn", "id", "send", "read", "clear", "connect", "commit", "gone"}

Request == [id : Nat, what : Command \cup {Ping}]
Reply == [id : Nat, what : Command \cup {Ping}, type : {"result", "pong"}, success : BOOLEAN]

Link == [readable : BOOLEAN, writable : BOOLEAN, deadline : BOOLEAN, lastId : Nat,
         requests : SUBSET Request, replies : SUBSET Reply]

Closed == [readable |-> FALSE, writable |-> FALSE, deadline |-> FALSE, lastId |-> 0,
           requests |-> {}, replies |-> {}]
Fresh == [Closed EXCEPT !.readable = TRUE, !.writable = TRUE]

(* The pinger starts after the first connection. *)
Started == [g \in Goroutine |-> IF g = consumer THEN "start" ELSE "gone"]

Init ==
  /\ committed = 0
  /\ deliveries = [c \in Command |-> 0]
  /\ execs = [c \in Command |-> 0]
  /\ outcome = [c \in Command |-> "none"]
  /\ command = 0
  /\ attempt = 0
  /\ pc = Started
  /\ held = [g \in Goroutine |-> None]
  /\ id = [g \in Goroutine |-> 0]
  /\ conn = None
  /\ msgID = 0
  /\ pings = 0
  /\ link = [k \in Conn |-> Closed]
  /\ cancelled = FALSE
  /\ faults = 0

stopped == cancelled /\ pc[consumer] = "gone"

goto(g, where) == pc' = [pc EXCEPT ![g] = where]

(* A call or ping returns: its local variables are gone. *)
leave(g, where) ==
  /\ goto(g, where)
  /\ held' = [held EXCEPT ![g] = None]
  /\ id' = [id EXCEPT ![g] = 0]

----------------------------------------------------------------------------
(* Home Assistant executes a set of requests. *)
Executed(requests) ==
  [c \in Command |-> execs[c] + Cardinality({r \in requests : r.what = c})]

(* Of the requests on a connection that ends, any may yet be executed. *)
Ends(K) == \E S \in SUBSET UNION {link[k].requests : k \in K} : execs' = Executed(S)

Answer(k, r, success) ==
  link' = [link EXCEPT
    ![k].requests = @ \ {r},
    ![k].replies = @ \cup {[id |-> r.id, what |-> r.what, success |-> success,
                            type |-> IF r.what = Ping THEN "pong" ELSE "result"]}]

Execute(k, r) ==
  /\ r \in link[k].requests
  /\ \/ execs' = Executed({r}) /\ Answer(k, r, TRUE)
     \/ r.what # Ping /\ UNCHANGED execs /\ Answer(k, r, FALSE)
  /\ UNCHANGED <<kafkaVars, outcome, callVars, workVars, clientVars, cancelled, bounds>>

(* The network, or Home Assistant, drops the connection. *)
Break(k) ==
  /\ faults < MaxFaults
  /\ link[k].writable
  /\ Ends({k})
  /\ link' = [link EXCEPT ![k] = Closed]
  /\ faults' = faults + 1
  /\ UNCHANGED <<kafkaVars, outcome, callVars, workVars, clientVars, cancelled, pings>>

----------------------------------------------------------------------------
(* CallService and Ping up to the wait for the answer. *)
ReadConn(g) ==
  /\ pc[g] = "conn"
  /\ IF conn = None
       THEN goto(g, "clear") /\ UNCHANGED held
       ELSE goto(g, "id") /\ held' = [held EXCEPT ![g] = conn]
  /\ UNCHANGED <<kafkaVars, execs, outcome, callVars, id, clientVars, link, cancelled, bounds>>

NextId(g) ==
  /\ pc[g] = "id"
  /\ msgID' = msgID + 1
  /\ id' = [id EXCEPT ![g] = msgID']
  /\ goto(g, "send")
  /\ UNCHANGED <<kafkaVars, execs, outcome, callVars, held, conn, link, cancelled, bounds>>

Asks(g) == IF g = pinger THEN Ping ELSE command

(* Mutant: the call waits without a deadline. *)
SendWithoutDeadline(g) ==
  /\ pc[g] = "send"
  /\ link[held[g]].writable
  /\ goto(g, "read")
  /\ link' = [link EXCEPT ![held[g]].requests = @ \cup {[id |-> id[g], what |-> Asks(g)]}]
  /\ UNCHANGED <<kafkaVars, execs, outcome, callVars, held, id, clientVars, cancelled, bounds>>

(* Both set the read deadline of the connection before they read.  Home       *)
(* Assistant refuses an id that is not above those it has seen.               *)
Send(g) ==
  /\ pc[g] = "send"
  /\ LET k == held[g]
         request == [id |-> id[g], what |-> Asks(g)]
         refusal == [id |-> id[g], what |-> Asks(g), type |-> "result", success |-> FALSE]
         fresh == id[g] > link[k].lastId
     IN IF ~link[k].writable
          THEN goto(g, "clear") /\ UNCHANGED link
          ELSE /\ goto(g, "read")
               /\ link' = [link EXCEPT
                    ![k].deadline = TRUE,
                    ![k].lastId = IF fresh THEN id[g] ELSE @,
                    ![k].requests = IF fresh THEN @ \cup {request} ELSE @,
                    ![k].replies = IF fresh THEN @ ELSE @ \cup {refusal}]
  /\ UNCHANGED <<kafkaVars, execs, outcome, callVars, held, id, clientVars, cancelled, bounds>>

Finish(result) ==
  /\ outcome' = [outcome EXCEPT ![command] = result]
  /\ leave(consumer, "commit")

(* The first failed call leads to a reconnect and the second one, which does  *)
(* not clear the connection when it fails.                                    *)
CallFails ==
  IF attempt = 1
    THEN leave(consumer, "clear") /\ UNCHANGED outcome
    ELSE Finish("failed")

(* readResult: what does not match is dropped, whoever waits for it. *)
ReadResult(r) ==
  /\ pc[consumer] = "read"
  /\ LET k == held[consumer]
         own == r.type = "result" /\ r.id = id[consumer]
     IN /\ link[k].readable
        /\ r \in link[k].replies
        /\ link' = [link EXCEPT ![k].replies = @ \ {r},
                               ![k].deadline = IF own THEN FALSE ELSE @]
        /\ \/ own /\ r.success /\ Finish("ok")
           \/ own /\ ~r.success /\ CallFails
           \/ ~own /\ UNCHANGED <<workVars, outcome>>
  /\ UNCHANGED <<kafkaVars, execs, callVars, clientVars, cancelled, bounds>>

(* Ping sets its deadline before every read, and clears it after the pong,    *)
(* also when the consumer is waiting on the same connection.                  *)
ReadPong(r) ==
  /\ pc[pinger] = "read"
  /\ LET k == held[pinger]
         own == r.type = "pong" /\ r.id = id[pinger]
     IN /\ link[k].readable
        /\ r \in link[k].replies
        /\ link' = [link EXCEPT ![k].replies = @ \ {r}, ![k].deadline = ~own]
        /\ IF own THEN leave(pinger, "idle") ELSE UNCHANGED workVars
  /\ UNCHANGED <<kafkaVars, execs, outcome, callVars, clientVars, cancelled, bounds>>

(* ReadMessage fails: the connection is lost or closed, or its deadline has   *)
(* come.  A connection that failed once fails every later read, but can still *)
(* be written to.                                                             *)
ReadFails(g) ==
  /\ pc[g] = "read"
  /\ LET k == held[g]
     IN /\ ~link[k].readable \/ link[k].deadline
        /\ link' = [link EXCEPT ![k].readable = FALSE, ![k].deadline = FALSE]
  /\ IF g = consumer THEN CallFails ELSE leave(g, "clear") /\ UNCHANGED outcome
  /\ UNCHANGED <<kafkaVars, execs, callVars, clientVars, cancelled, bounds>>

(* The same of an attempt that got no further than ReadConn or Send. *)
Fail(g) ==
  /\ pc[g] = "clear" /\ g = consumer /\ attempt = 2
  /\ Finish("failed")
  /\ UNCHANGED <<kafkaVars, execs, callVars, clientVars, link, cancelled, bounds>>

----------------------------------------------------------------------------
Close(k) ==
  IF k = None
    THEN UNCHANGED <<execs, link>>
    ELSE Ends({k}) /\ link' = [link EXCEPT ![k] = Closed]

(* ClearConnection closes the connection the client has, which need not be    *)
(* the one that failed.                                                       *)
ClearConnection(g) ==
  /\ pc[g] = "clear"
  /\ g = consumer => attempt = 1
  /\ Close(conn)
  /\ conn' = None
  /\ leave(g, "connect")
  /\ UNCHANGED <<kafkaVars, outcome, callVars, msgID, cancelled, bounds>>

(* Mutant: the call counts as done once the connection is back. *)
ReturnAfterReconnect(g) ==
  IF g = consumer /\ pc[g] = "connect"
    THEN /\ outcome' = [outcome EXCEPT ![command] = "ok"]
         /\ attempt' = 2
         /\ goto(g, "commit")
    ELSE /\ pc' = [pc EXCEPT ![g] = "idle",
                             ![pinger] = IF pc[g] = "start" THEN "idle" ELSE pc'[g]]
         /\ UNCHANGED <<outcome, attempt>>

(* Mutant: the call after the reconnect is a first attempt again. *)
ReturnToFirstAttempt(g) ==
  /\ pc' = CASE pc[g] = "start" -> [pc EXCEPT ![consumer] = "idle", ![pinger] = "idle"]
             [] pc[g] = "connect" /\ g = consumer -> [pc EXCEPT ![g] = "conn"]
             [] OTHER -> [pc EXCEPT ![g] = "idle"]
  /\ UNCHANGED <<attempt, outcome>>

(* Start begins to consume and starts the pinger; executeWithReconnect calls  *)
(* again; the pinger waits for its ticker.                                    *)
ReturnConnected(g) ==
  /\ pc' = CASE pc[g] = "start" -> [pc EXCEPT ![consumer] = "idle", ![pinger] = "idle"]
             [] pc[g] = "connect" /\ g = consumer -> [pc EXCEPT ![g] = "conn"]
             [] OTHER -> [pc EXCEPT ![g] = "idle"]
  /\ attempt' = IF g = consumer /\ pc[g] = "connect" THEN 2 ELSE attempt
  /\ UNCHANGED outcome

(* Mutant: Connect does not close the connection it replaces. *)
ConnectOver(k) ==
  /\ link' = [link EXCEPT ![k] = Fresh]
  /\ UNCHANGED execs

(* The old connection, if any, is closed before the new one is made. *)
Replace(k) ==
  /\ Ends({conn} \ {None})
  /\ link' = [link EXCEPT ![k] = Fresh, ![IF conn = None THEN k ELSE conn] =
                IF conn = None THEN Fresh ELSE Closed]

Free(k) == ~link[k].writable /\ k # conn /\ \A g \in Goroutine : held[g] # k

(* Connect, under the client's mutex, and the return of ConnectWithRetry. *)
Connect(g) ==
  /\ pc[g] \in {"start", "connect"}
  /\ conn' = CHOOSE k \in Conn : Free(k)
  /\ Replace(conn')
  /\ msgID' = 0
  /\ ReturnConnected(g)
  /\ UNCHANGED <<kafkaVars, command, held, id, cancelled, bounds>>

(* A failed Connect is tried again after the backoff, unless the context is   *)
(* cancelled.  The old connection is closed all the same.                     *)
ConnectFails(g) ==
  /\ pc[g] \in {"start", "connect"}
  /\ Close(conn)
  /\ conn' = None
  /\ IF cancelled
       THEN /\ outcome' = IF g = consumer /\ pc[g] = "connect"
                            THEN [outcome EXCEPT ![command] = "failed"] ELSE outcome
            /\ goto(g, CASE pc[g] = "start" -> "gone"
                         [] pc[g] = "connect" /\ g = consumer -> "commit"
                         [] OTHER -> "idle")
       ELSE UNCHANGED <<pc, outcome>>
  /\ UNCHANGED <<kafkaVars, callVars, held, id, msgID, cancelled, bounds>>

----------------------------------------------------------------------------
(* Mutant: ReadMessage, which commits what it returns. *)
FetchCommits(c) ==
  /\ command' = c
  /\ deliveries' = [deliveries EXCEPT ![c] = @ + 1]
  /\ committed' = c

(* FetchMessage after the one in hand before; the group has no other member.  *)
FetchMessage(c) ==
  /\ command' = c
  /\ deliveries' = [deliveries EXCEPT ![c] = @ + 1]
  /\ UNCHANGED committed

(* Start's loop and processMessage up to the first call. *)
Take(c) ==
  /\ pc[consumer] = "idle"
  /\ c = (IF command = 0 THEN committed ELSE command) + 1
  /\ FetchMessage(c)
  /\ IF c \in Valid
       THEN goto(consumer, "conn") /\ attempt' = 1 /\ UNCHANGED outcome
       ELSE /\ goto(consumer, "commit")
            /\ outcome' = [outcome EXCEPT ![c] = "invalid"]
            /\ attempt' = 0
  /\ UNCHANGED <<execs, held, id, clientVars, link, cancelled, bounds>>

(* CommitMessages, whose error is logged. *)
CommitMessages ==
  /\ pc[consumer] = "commit"
  /\ committed' \in {committed, command}
  /\ goto(consumer, "idle")
  /\ attempt' = 0
  /\ UNCHANGED <<deliveries, execs, outcome, command, held, id, clientVars, link, cancelled,
                 bounds>>

Tick ==
  /\ pc[pinger] = "idle"
  /\ conn # None
  /\ pings < MaxPings
  /\ pings' = pings + 1
  /\ goto(pinger, "conn")
  /\ UNCHANGED <<kafkaVars, execs, outcome, callVars, held, id, clientVars, link, cancelled,
                 faults>>

Cancel ==
  /\ ~cancelled
  /\ cancelled' = TRUE
  /\ UNCHANGED <<kafkaVars, execs, outcome, callVars, workVars, clientVars, link, bounds>>

(* FetchMessage fails, or the select of keepAlive, once the context is        *)
(* cancelled.  The consumer's return ends the process.                        *)
Return(g) ==
  /\ pc[g] = "idle"
  /\ cancelled
  /\ goto(g, "gone")
  /\ UNCHANGED <<kafkaVars, execs, outcome, callVars, held, id, clientVars, link, cancelled,
                 bounds>>

(* A crash, and the restart by Docker. *)
Crash ==
  /\ faults < MaxFaults
  /\ ~cancelled
  /\ Ends(Conn)
  /\ link' = [k \in Conn |-> Closed]
  /\ command' = 0
  /\ attempt' = 0
  /\ pc' = Started
  /\ held' = [g \in Goroutine |-> None]
  /\ id' = [g \in Goroutine |-> 0]
  /\ conn' = None
  /\ msgID' = 0
  /\ pings' = 0
  /\ faults' = faults + 1
  /\ UNCHANGED <<kafkaVars, outcome, cancelled>>

Work(g) ==
  \/ ReadConn(g)
  \/ NextId(g)
  \/ Send(g)
  \/ ReadFails(g)
  \/ Fail(g)
  \/ ClearConnection(g)
  \/ Connect(g)
  \/ Return(g)

Consume ==
  \/ \E c \in Command : Take(c)
  \/ CommitMessages
  \/ pc[consumer] = "read" /\ \E r \in link[held[consumer]].replies : ReadResult(r)

Next ==
  /\ ~stopped
  /\ \/ \E g \in Goroutine : Work(g) \/ ConnectFails(g)
     \/ Consume
     \/ pc[pinger] = "read" /\ \E r \in link[held[pinger]].replies : ReadPong(r)
     \/ Tick
     \/ \E k \in Conn : Break(k) \/ \E r \in link[k].requests : Execute(k, r)
     \/ Cancel
     \/ Crash

Spec == Init /\ [][Next]_vars

(* Goroutines run, deadlines strike, and a Connect that is tried again and    *)
(* again succeeds at last.  Home Assistant need not answer, and no message    *)
(* has to reach the goroutine that waits for it.                              *)
FairSpec == Spec /\ WF_vars(~stopped /\ (Work(consumer) \/ Consume))
                 /\ WF_vars(~stopped /\ Work(pinger))

----------------------------------------------------------------------------
TypeOK ==
  /\ committed \in 0..Length
  /\ deliveries \in [Command -> Nat] /\ execs \in [Command -> Nat]
  /\ outcome \in [Command -> {"none", "invalid", "ok", "failed"}]
  /\ command \in 0..Length /\ attempt \in 0..2
  /\ pc \in [Goroutine -> PcValue]
  /\ held \in [Goroutine -> Conn \cup {None}]
  /\ id \in [Goroutine -> Nat]
  /\ conn \in Conn \cup {None}
  /\ msgID \in Nat
  /\ link \in [Conn -> Link]
  /\ cancelled \in BOOLEAN
  /\ pings \in 0..MaxPings /\ faults \in 0..MaxFaults

(* A command is executed at most twice for each time it is read from Kafka,   *)
(* however answers are lost, late, or taken by the wrong reader.              *)
AtMostTwice == \A c \in Command : execs[c] <= 2 * deliveries[c]

(* What the service logs as a success, Home Assistant has executed. *)
SuccessIsExecuted == \A c \in Command : outcome[c] = "ok" => execs[c] > 0

(* The commit covers only commands that were executed, found invalid or       *)
(* logged as failed: after a crash the others come again.                     *)
CommittedIsTreated == \A c \in 1..committed : outcome[c] # "none"

(* Two goroutines that reconnect at once leave no connection open that the    *)
(* client does not know.                                                      *)
NoStrayConnection == \A k \in Conn : link[k].writable => k = conn

(* The consumer waits for an answer, and a ping has cleared its deadline. *)
WaitsForever ==
  /\ pings > 0
  /\ pc[consumer] = "read" /\ link[held[consumer]].readable /\ ~link[held[consumer]].deadline

(* The consumer comes back for the next command over and over: every command *)
(* it has fetched is dealt with and committed, or comes again after a crash;  *)
(* and Start returns when the context is cancelled.  The only thing that can  *)
(* keep it is a lost deadline.                                                *)
CommandsFinish ==
  []<>(WaitsForever \/ IF cancelled THEN stopped ELSE pc[consumer] = "idle")
============================================================================
