------------------------- MODULE CameraRunnerProofs -------------------------
(***************************************************************************)
(* Theorems about CameraRunner, for every number of cameras, whichever     *)
(* directories they share, and every number of delays and length of        *)
(* retention.                                                              *)
(***************************************************************************)
EXTENDS CameraRunner, TLAPS

USE CameraAssumption

(* Type correctness: in particular the index of the delays stays in its list. *)
THEOREM TypeCorrect == Spec => []TypeOK
<1>1. Init => TypeOK
  <2> SUFFICES ASSUME Init PROVE TypeOK
    OBVIOUS
  <2>1. pc \in [Camera -> PcValue] /\ files \in [Dir -> SUBSET (0..MaxTime)]
    BY DEF Init, PcValue
  <2>2. backoffIdx \in [Camera -> 0..Delays] /\ due \in [Camera -> 0..MaxTime + 1]
    BY DEF Init
  <2>3. now \in 0..MaxTime /\ faults \in 0..MaxFaults /\ attempts \in [Camera -> Nat]
    BY DEF Init
  <2>4. /\ online \in [Camera -> BOOLEAN] /\ connected \in [Camera -> BOOLEAN]
        /\ stalled \in [Camera -> BOOLEAN] /\ cancelled \in BOOLEAN
    BY Zenon DEF Init
  <2> QED BY <2>1, <2>2, <2>3, <2>4, Zenon DEF TypeOK
<1>2. TypeOK /\ [Next]_vars => TypeOK'
  <2> SUFFICES ASSUME TypeOK, [Next]_vars PROVE TypeOK'
    OBVIOUS
  <2> USE DEF TypeOK, PcValue, cameraVars, goto, Fault
  <2>1. ASSUME NEW c \in Camera, GoesOffline(c) \/ ComesOnline(c) PROVE TypeOK'
    <3>1. online' \in [Camera -> BOOLEAN]
      BY <2>1, Zenon DEF GoesOffline, ComesOnline
    <3>2. faults' \in 0..MaxFaults
      BY <2>1 DEF GoesOffline, ComesOnline
    <3> QED BY <2>1, <3>1, <3>2, Zenon DEF GoesOffline, ComesOnline
  <2>2. CASE Signal
    BY <2>2 DEF Signal
  <2>3. CASE Tick
    BY <2>3 DEF Tick
  <2>4. ASSUME NEW c \in Camera, Top(c) PROVE TypeOK'
    BY <2>4 DEF Top
  <2>5. ASSUME NEW c \in Camera, Poll(c) PROVE TypeOK'
    BY <2>5 DEF Poll
  <2>6. ASSUME NEW c \in Camera, Answer(c)
        PROVE  /\ connected' \in [Camera -> BOOLEAN]
               /\ faults' \in 0..MaxFaults
               /\ attempts' \in [Camera -> Nat]
    BY <2>6 DEF Answer
  <2>7. ASSUME NEW c \in Camera, Asked(c) PROVE TypeOK'
    BY <2>6, <2>7 DEF Asked
  <2>8. ASSUME NEW c \in Camera, Check(c) PROVE TypeOK'
    BY <2>6, <2>8 DEF Check
  <2>9. ASSUME NEW c \in Camera, CreateRTSPSStream(c) PROVE TypeOK'
    BY <2>9 DEF CreateRTSPSStream, AttemptFails
  <2>10. ASSUME NEW c \in Camera, Frame(c) PROVE TypeOK'
    BY <2>10 DEF Frame
  <2>11. ASSUME NEW c \in Camera, Stall(c) PROVE TypeOK'
    BY <2>11 DEF Stall
  <2>12. ASSUME NEW c \in Camera, Run(c) PROVE TypeOK'
    BY <2>12 DEF Run, AttemptFails
  <2>13. ASSUME NEW c \in Camera, Backoff(c) PROVE TypeOK'
    BY <2>13 DEF Backoff, DelayIndex
  <2>14. ASSUME NEW c \in Camera, runRetention(c) PROVE TypeOK'
    BY <2>14 DEF runRetention, doCleanup
  <2>15. CASE UNCHANGED vars
    BY <2>15 DEF vars
  <2> QED BY <2>1, <2>2, <2>3, <2>4, <2>5, <2>7, <2>8, <2>9, <2>10, <2>11, <2>12, <2>13,
             <2>14, <2>15 DEF Next, runCamera
<1> QED BY <1>1, <1>2, PTL DEF Spec

----------------------------------------------------------------------------
(* How many failed attempts a camera may have behind it, by its place in the  *)
(* loop: no more than delays it has waited, and before the last delay it must *)
(* have been looked at.                                                       *)
AttemptInv ==
  \A c \in Camera :
    /\ attempts[c] <= Delays
    /\ pc[c] \in {"top", "poll", "asked", "url", "stream"} =>
         attempts[c] <= backoffIdx[c] /\ attempts[c] < Delays
    /\ pc[c] = "backoff" => attempts[c] <= backoffIdx[c] + 1 /\ attempts[c] < Delays

(* A step of one camera's loop leaves the others where they are. *)
LEMMA OtherCamera ==
  ASSUME NEW c \in Camera, AttemptInv, TypeOK,
         \A k \in Camera \ {c} : /\ pc'[k] = pc[k] /\ attempts'[k] = attempts[k]
                                 /\ backoffIdx'[k] = backoffIdx[k],
         attempts'[c] <= Delays,
         pc'[c] \in {"top", "poll", "asked", "url", "stream"} =>
           attempts'[c] <= backoffIdx'[c] /\ attempts'[c] < Delays,
         pc'[c] = "backoff" => attempts'[c] <= backoffIdx'[c] + 1 /\ attempts'[c] < Delays
  PROVE  AttemptInv'
BY DEF AttemptInv

(* runCamera asks the NVR about a camera at least once in as many attempts as *)
(* there are delays, in whatever order calls fail, streams end and the camera *)
(* goes and comes.                                                            *)
THEOREM StatusAlwaysChecked == Spec => []StatusIsChecked
<1>1. Init => AttemptInv
  BY DEF Init, AttemptInv
<1>2. TypeOK /\ AttemptInv /\ [Next]_vars => AttemptInv'
  <2> SUFFICES ASSUME TypeOK, AttemptInv, [Next]_vars PROVE AttemptInv'
    OBVIOUS
  <2> USE DEF TypeOK, cameraVars, goto
  <2>1. CASE UNCHANGED <<pc, attempts, backoffIdx>>
    BY <2>1 DEF AttemptInv
  <2>2. ASSUME NEW c \in Camera, Top(c) \/ Poll(c) PROVE AttemptInv'
    BY <2>2 DEF Top, Poll, AttemptInv
  <2>3. ASSUME NEW c \in Camera, Asked(c) PROVE AttemptInv'
    <3>1. attempts'[c] = 0 /\ backoffIdx'[c] >= 0
      BY <2>3 DEF Asked, Answer
    <3>2. \A k \in Camera \ {c} : /\ pc'[k] = pc[k] /\ attempts'[k] = attempts[k]
                                  /\ backoffIdx'[k] = backoffIdx[k]
      BY <2>3 DEF Asked, Answer
    <3> QED BY <2>3, <3>1, <3>2, OtherCamera DEF Asked
  <2>4. ASSUME NEW c \in Camera, Check(c) PROVE AttemptInv'
    <3>1. attempts'[c] = 0 /\ backoffIdx'[c] = backoffIdx[c] /\ backoffIdx[c] >= 0
      BY <2>4 DEF Check, Answer
    <3>2. \A k \in Camera \ {c} : /\ pc'[k] = pc[k] /\ attempts'[k] = attempts[k]
                                  /\ backoffIdx'[k] = backoffIdx[k]
      BY <2>4 DEF Check, Answer
    <3> QED BY <3>1, <3>2, OtherCamera
  <2>5. ASSUME NEW c \in Camera, pc[c] \in {"url", "stream"}, AttemptFails(c)
        PROVE  AttemptInv'
    <3>1. attempts'[c] = attempts[c] + 1 /\ backoffIdx'[c] = backoffIdx[c]
      BY <2>5 DEF AttemptFails
    <3>2. pc'[c] \in {"gone", "check"} \/ (pc'[c] = "backoff" /\ backoffIdx[c] < Delays - 1)
      BY <2>5 DEF AttemptFails, AtLastDelay
    <3>3. \A k \in Camera \ {c} : /\ pc'[k] = pc[k] /\ attempts'[k] = attempts[k]
                                  /\ backoffIdx'[k] = backoffIdx[k]
      BY <2>5 DEF AttemptFails
    <3>4. attempts[c] <= backoffIdx[c] /\ attempts[c] < Delays
      BY <2>5 DEF AttemptInv
    <3> QED BY <3>1, <3>2, <3>3, <3>4, OtherCamera
  <2>6. ASSUME NEW c \in Camera, CreateRTSPSStream(c) PROVE AttemptInv'
    <3>1. CASE goto(c, "stream") /\ UNCHANGED <<attempts, backoffIdx>>
      BY <2>6, <3>1 DEF CreateRTSPSStream, AttemptInv
    <3> QED BY <2>5, <2>6, <3>1 DEF CreateRTSPSStream
  <2>7. ASSUME NEW c \in Camera, Run(c) PROVE AttemptInv'
    <3>1. CASE /\ goto(c, IF cancelled THEN "gone" ELSE "backoff")
               /\ backoffIdx' = [backoffIdx EXCEPT ![c] = 0]
               /\ attempts' = [attempts EXCEPT ![c] = 0]
      BY <3>1, OtherCamera
    <3> QED BY <2>5, <2>7, <3>1 DEF Run
  <2>8. ASSUME NEW c \in Camera, Backoff(c) PROVE AttemptInv'
    <3>1. backoffIdx'[c] = DelayIndex(backoffIdx[c]) + 1 /\ UNCHANGED attempts
      BY <2>8 DEF Backoff
    <3>2. attempts[c] <= backoffIdx[c] + 1 /\ attempts[c] < Delays
      BY <2>8 DEF Backoff, AttemptInv
    <3>3. attempts[c] <= DelayIndex(backoffIdx[c]) + 1
      BY <3>2 DEF DelayIndex
    <3>4. \A k \in Camera \ {c} : pc'[k] = pc[k] /\ backoffIdx'[k] = backoffIdx[k]
      BY <2>8 DEF Backoff
    <3> QED BY <2>8, <3>1, <3>2, <3>3, <3>4, OtherCamera DEF Backoff
  <2>9. ASSUME NEW c \in Camera,
               runRetention(c) \/ Frame(c) \/ Stall(c) \/ GoesOffline(c) \/ ComesOnline(c)
        PROVE  UNCHANGED <<pc, attempts, backoffIdx>>
    BY <2>9 DEF runRetention, Frame, Stall, GoesOffline, ComesOnline
  <2>10. CASE Tick \/ Signal \/ UNCHANGED vars
    BY <2>1, <2>10 DEF Tick, Signal, vars
  <2> QED BY <2>1, <2>2, <2>3, <2>4, <2>6, <2>7, <2>8, <2>9, <2>10 DEF Next, runCamera
<1>3. AttemptInv => StatusIsChecked
  BY DEF AttemptInv, StatusIsChecked
<1> QED BY <1>1, <1>2, <1>3, TypeCorrect, PTL DEF Spec

----------------------------------------------------------------------------
(* A pass that has been made in this minute has left no frame older than the  *)
(* retention; one that is due finds them at most a minute older.              *)
FrameInv ==
  \A c \in Camera :
    /\ due[c] <= now + 1
    /\ cancelled \/ \A ts \in files[DirOf[c]] :
                      /\ now <= ts + Retention + 1
                      /\ due[c] > now => now <= ts + Retention

(* The retention runs beside the streams: however cameras share directories,  *)
(* stream, hang or go offline, no frame outlives RETENTION by more than the   *)
(* minute between two passes.                                                 *)
THEOREM OldFramesAlwaysGo == Spec => []OldFramesGo
<1>1. Init => FrameInv
  BY DEF Init, FrameInv
<1>2. TypeOK /\ FrameInv /\ [Next]_vars => FrameInv'
  <2> SUFFICES ASSUME TypeOK, FrameInv, [Next]_vars PROVE FrameInv'
    OBVIOUS
  <2> USE DEF cameraVars
  <2>1. CASE UNCHANGED <<now, files, cancelled, due>>
    BY <2>1 DEF FrameInv
  <2>2. CASE Signal
    BY <2>2 DEF Signal, FrameInv
  <2>3. CASE Tick
    BY <2>3 DEF Tick, FrameInv, TypeOK
  <2>4. ASSUME NEW c \in Camera, Frame(c) PROVE FrameInv'
    <3> SUFFICES ASSUME NEW k \in Camera, NEW ts \in files'[DirOf[k]], ~cancelled
                 PROVE  now <= ts + Retention + 1 /\ (due[k] > now => now <= ts + Retention)
      BY <2>4 DEF Frame, FrameInv
    <3>1. ts \in files[DirOf[k]] \/ ts = now
      BY <2>4 DEF Frame, TypeOK
    <3> QED BY <3>1 DEF FrameInv, TypeOK
  <2>5. ASSUME NEW c \in Camera, runRetention(c) PROVE FrameInv'
    <3> SUFFICES ASSUME NEW k \in Camera
                 PROVE  /\ due'[k] <= now + 1
                        /\ \A ts \in files'[DirOf[k]] : /\ now <= ts + Retention + 1
                                                        /\ due'[k] > now => now <= ts + Retention
      BY <2>5 DEF runRetention, FrameInv
    <3>1. files'[DirOf[k]] \subseteq files[DirOf[k]]
      BY <2>5 DEF runRetention, doCleanup, TypeOK
    <3>2. CASE k = c
      <4>1. \A ts \in files'[DirOf[k]] : ts + Retention >= now /\ ts \in Nat
        BY <2>5, <3>2 DEF runRetention, doCleanup, TypeOK
      <4> QED BY <2>5, <3>2, <4>1 DEF runRetention, TypeOK
    <3>3. CASE k # c
      BY <2>5, <3>1, <3>3 DEF runRetention, FrameInv, TypeOK
    <3> QED BY <3>2, <3>3
  <2>6. ASSUME NEW c \in Camera,
               runCamera(c) \/ Stall(c) \/ GoesOffline(c) \/ ComesOnline(c)
        PROVE  UNCHANGED <<now, files, cancelled, due>>
    BY <2>6 DEF runCamera, Top, Poll, Asked, Check, CreateRTSPSStream, Run, Backoff,
                Stall, GoesOffline, ComesOnline
  <2>7. CASE UNCHANGED vars
    BY <2>1, <2>7 DEF vars
  <2> QED BY <2>1, <2>2, <2>3, <2>4, <2>5, <2>6, <2>7 DEF Next
<1>3. TypeOK /\ FrameInv => OldFramesGo
  BY DEF FrameInv, OldFramesGo, TypeOK
<1> QED BY <1>1, <1>2, <1>3, TypeCorrect, PTL DEF Spec
=============================================================================
