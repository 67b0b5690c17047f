------------------------- MODULE MCBackfillProcess -------------------------
(* Two topics.  One has a message that gives a new tag its data type, one    *)
(* that cannot be parsed and one at END_OFFSET; the other one without lsid,  *)
(* and one of the device that only the metadata knows.                       *)
EXTENDS BackfillProcess, TLC

CONSTANTS d1, d2, f1, m1, m2, m3, m4, m5, iss, indoor

MCDeviceOf == [m \in Message |-> CASE m = m4 -> d2 [] m = m5 -> None [] OTHER -> d1]
MCBody == [m \in Message |-> IF m = m2 THEN Malformed ELSE (f1 :> "number")]
MCKnownType == [t \in Tag |-> None]
MCLog == [t \in Topic |-> IF t = iss THEN <<m1, m2, m3>> ELSE <<m5, m4>>]
MCMetadataLog == << <<Malformed, d2>>, <<Other>> >>

ASSUME ServiceAssumption
============================================================================
