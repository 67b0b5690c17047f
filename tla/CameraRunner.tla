---------------------------- MODULE CameraRunner ----------------------------
(***************************************************************************)
(* The video services: unifi-video-jpg (service/service.go and             *)
(* stream/runner.go), and unifi-video-kafka, whose camera loop is the same *)
(* and whose frames go to a topic instead of a directory.  A goroutine per *)
(* camera asks the NVR for a stream, reads frames from ffmpeg until it     *)
(* ends, and tries again with a rising delay; a camera that is offline is  *)
(* polled every hour.  A second goroutine deletes old frames.              *)
(***************************************************************************)
EXTENDS Naturals, FiniteSets

CONSTANTS
  Camera,
  Dir,         \* the directories of frames
  DirOf,       \* the directory of a camera: its sanitized name
  Delays,      \* the number of delays in RECONNECT_BACKOFF
  Retention,   \* ticks a frame is kept
  MaxTime,     \* bound: ticks
  MaxFaults    \* bound: failed calls, lost or stalled streams, cameras that go offline

ASSUME CameraAssumption ==
  /\ DirOf \in [Camera -> Dir]
  /\ Delays \in Nat \ {0}
  /\ Retention \in Nat /\ MaxTime \in Nat /\ MaxFaults \in Nat

VARIABLES
  online,     \* the camera's state, as the NVR knows it
  now,        \* time.Now().Unix(), in ticks of retentionCheckInterval
  files,      \* the frames in each directory, by their timestamps
  cancelled,  \* SIGTERM has cancelled ctx
  faults,
  \* of each runCamera
  pc, connected, backoffIdx,
  stalled,    \* its ffmpeg hangs
  attempts,   \* history: failed attempts since the camera's status was last
              \* looked at or a stream was stable
  due         \* the next pass of each runRetention

cameraVars == <<pc, connected, backoffIdx, stalled, attempts>>
vars == <<online, now, files, cancelled, faults, cameraVars, due>>

(* top    at the head of the loop         poll   waiting for the next hour
   asked  in checkCameraConnected, from polling     check  the same, after failures
   url    in CreateRTSPSStream            stream in Run
   backoff  waiting                       gone   returned                  *)
PcValue == {"top", "poll", "asked", "check", "url", "stream", "backoff", "gone"}

Init ==
  /\ online \in [Camera -> BOOLEAN]
  /\ now = 0
  /\ files = [d \in Dir |-> {}]
  /\ cancelled = FALSE
  /\ faults = 0
  /\ pc = [c \in Camera |-> "top"]
  /\ connected = online
  /\ backoffIdx = [c \in Camera |-> 0]
  /\ stalled = [c \in Camera |-> FALSE]
  /\ attempts = [c \in Camera |-> 0]
  /\ due = [c \in Camera |-> 0]

Fault == faults < MaxFaults /\ faults' = faults + 1

goto(c, where) == pc' = [pc EXCEPT ![c] = where]

----------------------------------------------------------------------------
(* The camera, the NVR and the clock; a retention pass ends within its tick. *)
GoesOffline(c) ==
  /\ online[c]
  /\ Fault
  /\ online' = [online EXCEPT ![c] = FALSE]
  /\ UNCHANGED <<now, files, cancelled, cameraVars, due>>

ComesOnline(c) ==
  /\ ~online[c]
  /\ online' = [online EXCEPT ![c] = TRUE]
  /\ UNCHANGED <<now, files, cancelled, faults, cameraVars, due>>

Signal ==
  /\ ~cancelled
  /\ cancelled' = TRUE
  /\ UNCHANGED <<online, now, files, faults, cameraVars, due>>

(* At the bound the clock stands still. *)
Tick ==
  /\ cancelled \/ \A c \in Camera : due[c] > now
  /\ now' = IF now < MaxTime THEN now + 1 ELSE now
  /\ UNCHANGED <<online, files, cancelled, faults, cameraVars, due>>

----------------------------------------------------------------------------
Top(c) ==
  /\ pc[c] = "top"
  /\ goto(c, IF cancelled THEN "gone" ELSE IF connected[c] THEN "url" ELSE "poll")
  /\ UNCHANGED <<online, now, files, cancelled, faults, connected, backoffIdx, stalled, attempts,
                 due>>

(* The hour is over, or ctx is cancelled. *)
Poll(c) ==
  /\ pc[c] = "poll"
  /\ \/ goto(c, "asked")
     \/ cancelled /\ goto(c, "gone")
  /\ UNCHANGED <<online, now, files, cancelled, faults, connected, backoffIdx, stalled, attempts,
                 due>>

(* checkCameraConnected: a failed call counts as offline. *)
Answer(c) ==
  /\ connected' \in [Camera -> BOOLEAN]
  /\ \A k \in Camera \ {c} : connected'[k] = connected[k]
  /\ \/ connected'[c] = online[c] /\ UNCHANGED faults
     \/ ~connected'[c] /\ cancelled /\ UNCHANGED faults
     \/ ~connected'[c] /\ Fault
  /\ attempts' = [attempts EXCEPT ![c] = 0]

Asked(c) ==
  /\ pc[c] = "asked"
  /\ Answer(c)
  /\ backoffIdx' = IF connected'[c] THEN [backoffIdx EXCEPT ![c] = 0] ELSE backoffIdx
  /\ goto(c, "top")
  /\ UNCHANGED <<online, now, files, cancelled, stalled, due>>

(* Mutant: a camera that is not connected is given up. *)
CheckOnce(c) ==
  /\ pc[c] = "check"
  /\ Answer(c)
  /\ goto(c, IF connected'[c] THEN "backoff" ELSE "gone")
  /\ UNCHANGED <<online, now, files, cancelled, backoffIdx, stalled, due>>

Check(c) ==
  /\ pc[c] = "check"
  /\ Answer(c)
  /\ goto(c, IF connected'[c] THEN "backoff" ELSE "top")
  /\ UNCHANGED <<online, now, files, cancelled, backoffIdx, stalled, due>>

AtLastDelay(c) == backoffIdx[c] >= Delays - 1

(* A call or a stream of less than a minute has failed. *)
AttemptFails(c) ==
  /\ attempts' = [attempts EXCEPT ![c] = @ + 1]
  /\ goto(c, IF cancelled THEN "gone" ELSE IF AtLastDelay(c) THEN "check" ELSE "backoff")
  /\ UNCHANGED backoffIdx

CreateRTSPSStream(c) ==
  /\ pc[c] = "url"
  /\ \/ goto(c, "stream") /\ UNCHANGED <<attempts, backoffIdx, faults>>
     \/ /\ AttemptFails(c)
        /\ cancelled \/ ~online[c]
        /\ UNCHANGED faults
     \/ AttemptFails(c) /\ Fault
  /\ UNCHANGED <<online, now, files, cancelled, connected, stalled, due>>

(* A frame is written; one of the same second takes its place. *)
Frame(c) ==
  /\ pc[c] = "stream" /\ online[c] /\ ~stalled[c] /\ ~cancelled
  /\ now \notin files[DirOf[c]]
  /\ files' = [files EXCEPT ![DirOf[c]] = @ \cup {now}]
  /\ UNCHANGED <<online, now, cancelled, faults, cameraVars, due>>

(* ffmpeg neither delivers frames nor ends. *)
Stall(c) ==
  /\ pc[c] = "stream" /\ ~stalled[c]
  /\ Fault
  /\ stalled' = [stalled EXCEPT ![c] = TRUE]
  /\ UNCHANGED <<online, now, files, cancelled, pc, connected, backoffIdx, attempts,
                 due>>

(* Mutant: ffmpeg is not bound to ctx. *)
StreamOutlivesContext(c) == ~online[c] /\ ~stalled[c]

(* ffmpeg ends because of the camera, or is killed. *)
StreamEnds(c) == cancelled \/ (~online[c] /\ ~stalled[c])

(* Run returns, after more than a minute or less. *)
Run(c) ==
  /\ pc[c] = "stream"
  /\ \/ StreamEnds(c) /\ UNCHANGED faults
     \/ ~StreamEnds(c) /\ Fault
  /\ \/ AttemptFails(c)
     \/ /\ goto(c, IF cancelled THEN "gone" ELSE "backoff")
        /\ backoffIdx' = [backoffIdx EXCEPT ![c] = 0]
        /\ attempts' = [attempts EXCEPT ![c] = 0]
  /\ stalled' = [stalled EXCEPT ![c] = FALSE]
  /\ UNCHANGED <<online, now, files, cancelled, connected, due>>

(* The index stays within the list of delays. *)
DelayIndex(i) == IF i >= Delays THEN Delays - 1 ELSE i

Backoff(c) ==
  /\ pc[c] = "backoff"
  /\ backoffIdx' = [backoffIdx EXCEPT ![c] = DelayIndex(@) + 1]
  /\ goto(c, "top")
  /\ UNCHANGED <<online, now, files, cancelled, faults, connected, stalled, attempts,
                 due>>

----------------------------------------------------------------------------
(* Mutant: frames are deleted as part of streaming. *)
CleanupWhileStreaming(c) ==
  files' = [files EXCEPT ![DirOf[c]] =
              IF pc[c] = "stream" THEN {ts \in @ : ts + Retention >= now} ELSE @]

(* doCleanup as one step: a frame written while the pass lasts is too young   *)
(* for it, and one that another camera's pass has deleted is only logged.     *)
doCleanup(c) ==
  files' = [files EXCEPT ![DirOf[c]] = {ts \in @ : ts + Retention >= now}]

runRetention(c) ==
  /\ ~cancelled
  /\ due[c] <= now
  /\ doCleanup(c)
  /\ due' = [due EXCEPT ![c] = now + 1]
  /\ UNCHANGED <<online, now, cancelled, faults, cameraVars>>

----------------------------------------------------------------------------
runCamera(c) ==
  \/ Top(c)
  \/ Poll(c)
  \/ Asked(c)
  \/ Check(c)
  \/ CreateRTSPSStream(c)
  \/ Run(c)
  \/ Backoff(c)

Next ==
  \/ \E c \in Camera :
       \/ runCamera(c)
       \/ runRetention(c)
       \/ Frame(c)
       \/ Stall(c)
       \/ GoesOffline(c)
       \/ ComesOnline(c)
  \/ Tick
  \/ Signal

(* Goroutines run, hours pass, calls of the NVR end, and ffmpeg ends when its *)
(* camera is gone or it is killed, unless it hangs.                           *)
Spec ==
  /\ Init /\ [][Next]_vars
  /\ \A c \in Camera : WF_vars(runCamera(c) /\ faults' = faults) /\ WF_vars(runRetention(c))

----------------------------------------------------------------------------
TypeOK ==
  /\ online \in [Camera -> BOOLEAN]
  /\ now \in 0..MaxTime
  /\ files \in [Dir -> SUBSET (0..MaxTime)]
  /\ cancelled \in BOOLEAN /\ faults \in 0..MaxFaults
  /\ pc \in [Camera -> PcValue]
  /\ connected \in [Camera -> BOOLEAN]
  /\ backoffIdx \in [Camera -> 0..Delays]
  /\ stalled \in [Camera -> BOOLEAN]
  /\ attempts \in [Camera -> Nat]
  /\ due \in [Camera -> 0..MaxTime + 1]

(* service.go, 135 and 160: no camera is tried more often than there are      *)
(* delays without the NVR being asked whether it is connected.                *)
StatusIsChecked == \A c \in Camera : attempts[c] <= Delays

(* README.md, "Retention cleanup runs every 1 minute per camera: deletes      *)
(* files older than RETENTION": a directory holds no frame older than that    *)
(* and a minute, whatever its cameras do, until the service is told to stop.  *)
OldFramesGo ==
  cancelled \/ \A d \in {DirOf[c] : c \in Camera} : \A ts \in files[d] : now - ts <= Retention + 1

(* README.md, "On stream failure: backs off, re-fetches RTSPS URL, restarts   *)
(* ffmpeg": a camera that stays online in the end is streamed again and       *)
(* again.  A stream that hangs counts: nothing in the code ends it.           *)
CamerasStream == \A c \in Camera : <>[]online[c] => []<>(pc[c] = "stream" \/ cancelled)

(* Once ctx is cancelled every camera's goroutine returns, and so does Start. *)
StartReturns == []<>(cancelled => \A c \in Camera : pc[c] = "gone")
============================================================================
