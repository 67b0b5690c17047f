--------------------------- MODULE MCCameraRunner ---------------------------
(***************************************************************************)
(* Two cameras whose names are sanitized to the same directory, with two   *)
(* delays and frames kept for one tick.                                    *)
(***************************************************************************)
EXTENDS CameraRunner, TLC

CONSTANTS c1, c2, d

MCDirOf == c1 :> d @@ c2 :> d
============================================================================
