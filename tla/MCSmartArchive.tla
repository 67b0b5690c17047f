--------------------------- MODULE MCSmartArchive ---------------------------
(* Two detection types of one camera: p1 and p2 are persons, v1 a vehicle.   *)
EXTENDS SmartArchive, TLC

CONSTANTS p1, p2, v1, person, vehicle, porch

MCKeyOf == [e \in Event |-> IF e = v1 THEN vehicle ELSE person]
MCCameraOf == [k \in Key |-> porch]
MCStartOf == [e \in Event |-> IF e = p2 THEN 2 ELSE 1]
MCEndOf == [e \in Event |-> IF e = p2 THEN 3 ELSE 2]
============================================================================
