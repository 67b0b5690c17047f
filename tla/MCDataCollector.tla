-------------------------- MODULE MCDataCollector --------------------------
(***************************************************************************)
(* Two back-fill workers and three windows of the history: p is on the     *)
(* boundary the first two share, the third one is empty.  A piece of       *)
(* metadata, m, is in one window of time only: nothing excuses a second    *)
(* copy of it.  The process is started twice, and two calls may fail.      *)
(***************************************************************************)
EXTENDS DataCollector, TLC

CONSTANTS iss, sensors, p, m, s, w1, w2

MCTopicOf == p :> iss @@ m :> sensors
MCSensorOf == p :> s @@ m :> None
MCPointsOf == <<{p}, {p}, {}>>
============================================================================
