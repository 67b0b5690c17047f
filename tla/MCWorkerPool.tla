---------------------------- MODULE MCWorkerPool ----------------------------
(* Two messages that give one new tag different data types, one that needs   *)
(* two tags of which one is known, one of a device that may appear late, one *)
(* that cannot be parsed and one without lsid.                               *)
EXTENDS WorkerPool, TLC

CONSTANTS d1, d2, f1, f2, m1, m2, m3, m4, m5

MCDeviceOf == [m \in Message |-> CASE m = m3 -> d2 [] m = m5 -> None [] OTHER -> d1]
MCBody == [m \in Message |-> CASE m = m1 -> (f1 :> "number" @@ f2 :> "null")
                                [] m = m2 -> (f1 :> "string")
                                [] m = m3 -> (f1 :> "bool")
                                [] m = m4 -> Malformed
                                [] m = m5 -> (f1 :> "number")]
MCKnownType == [t \in Tag |-> IF t = <<d1, f2>> THEN "text" ELSE None]
============================================================================
