--------------------------- MODULE MCMaterializer ---------------------------
(* One topic and one worker with a channel of two: the first message is       *)
(* skipped by the first reader, so the four the log takes and a rejoin or a   *)
(* restart that reads some of them again fill the worker, the channel and the *)
(* listener's hand at once.                                                  *)
EXTENDS Materializer
============================================================================
