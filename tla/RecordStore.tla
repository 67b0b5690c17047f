---------------------------- MODULE RecordStore ----------------------------
(***************************************************************************)
(* What the buffered writer of weatherlink-sql promises its callers,       *)
(* without buffers, locks or goroutines: a record that has been accepted   *)
(* is pending until a whole group of pending records is either committed   *)
(* in one transaction or given up with an error.  Rows of the three        *)
(* records_* tables are identified by their primary key (tag_id, ts), and  *)
(* the first value stored for a row stays.                                 *)
(***************************************************************************)
EXTENDS FiniteSets

CONSTANTS Record,   \* records handed to the writer, one per Add* call
          Row,      \* rows of the records_* tables: a table and its (tag_id, ts)
          RowOf     \* the row each record is to be stored in: a function from Record to Row

VARIABLES accepted, \* records ever handed to the writer
          pending,  \* accepted records that are neither committed nor given up
          rejected, \* records of groups that were given up with an error
          table     \* the records whose values the database holds

vars == <<accepted, pending, rejected, table>>

----------------------------------------------------------------------------
(* INSERT ... ON CONFLICT (tag_id, ts) DO NOTHING of a set of records: the  *)
(* rows already present stay, every other row of S gets the value of one of *)
(* the records of S for it (the SELECT feeding the INSERT states no order). *)
Covers(S, r) == \E s \in S : RowOf[s] = RowOf[r]

Inserts(tbl, S) ==
  {tbl \cup T : T \in
    {U \in SUBSET S :
       /\ \A r \in S : Covers(tbl \cup U, r)
       /\ \A u \in U : ~Covers(tbl, u)
       /\ \A u, v \in U : RowOf[u] = RowOf[v] => u = v}}

Stored(r) == Covers(table, r)

----------------------------------------------------------------------------
Init ==
  /\ accepted = {}
  /\ pending = {}
  /\ rejected = {}
  /\ table = {}

Accept(r) ==
  /\ r \notin accepted
  /\ accepted' = accepted \cup {r}
  /\ pending' = pending \cup {r}
  /\ UNCHANGED <<rejected, table>>

Commit(S) ==
  /\ pending' = pending \ S
  /\ table' \in Inserts(table, S)
  /\ UNCHANGED <<accepted, rejected>>

(* A COMMIT whose answer is lost may have been applied: the group is given  *)
(* up with an error although its rows are there.                            *)
Reject(S) ==
  /\ pending' = pending \ S
  /\ rejected' = rejected \cup S
  /\ table' \in {table} \cup Inserts(table, S)
  /\ UNCHANGED accepted

Next ==
  \/ \E r \in Record : Accept(r)
  \/ \E S \in SUBSET pending : Commit(S) \/ Reject(S)

Spec == Init /\ [][Next]_vars

(* Every accepted record is pending, was given up with an error, or has its *)
(* row in the database.                                                     *)
NothingLostSilently ==
  \A r \in accepted : r \in pending \cup rejected \/ Stored(r)

TypeOK ==
  /\ accepted \subseteq Record
  /\ pending \subseteq accepted
  /\ rejected \subseteq accepted
  /\ table \subseteq accepted
============================================================================
