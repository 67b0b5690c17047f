--------------------------- MODULE MCBatchWriter ---------------------------
(* Two workers, four records: n1 and n2 compete for one row of             *)
(* records_numeric, n3 has a row of its own, t1 goes to records_text.      *)
EXTENDS BatchWriter

CONSTANTS n1, n2, n3, t1

MCRow == {"tag1@1", "tag1@2", "tag2@1"}
MCRecord == {n1, n2, n3, t1}
MCRowOf == [r \in MCRecord |-> CASE r \in {n1, n2} -> "tag1@1"
                                 [] r = n3 -> "tag1@2"
                                 [] r = t1 -> "tag2@1"]
MCKindOf == [r \in MCRecord |-> IF r = t1 THEN Text ELSE Numeric]
============================================================================
