---------------------------- MODULE SmartArchive ----------------------------
(***************************************************************************)
(* services/unifi-smart-archive/service/service.go: messages about smart   *)
(* detection events come from Kafka, one with only a start, later perhaps  *)
(* repeats of it, and a final one with the end.  Per camera and detection  *)
(* type one stream is open at a time; while it is, the camera's frames     *)
(* (one file per second) are copied to the stream's directory in the       *)
(* archive, by a catch-up over the source directory and by a watcher of    *)
(* new files.  A worker closes streams whose window is over, and drops     *)
(* streams whose end never came.  All of it runs under one mutex, so each  *)
(* handler is one step; nothing but the archive survives a restart.        *)
(*                                                                         *)
(* Times are whole seconds, as in the names of frames and directories.     *)
(***************************************************************************)
EXTENDS Integers, Sequences, FiniteSets

CONSTANTS
  Event,       \* ids of smart events
  Key,         \* camera and detection type of a stream
  Camera,
  KeyOf,       \* the key of each event
  CameraOf,    \* the camera of each key
  StartOf,     \* start of each event
  EndOf,       \* end of each event
  None,        \* no stream, not waiting
  LeadSeconds, TrailSeconds, CopyDelaySeconds,
  EventEndTimeout,
  MaxTime,     \* bound: the last second
  MaxMessages, \* bound: messages published
  MaxRestarts, \* bound: restarts of the service
  Faults       \* TRUE: copies, directories and watches may fail

Second == 0 .. MaxTime
Message == Event \X BOOLEAN  \* an event, and whether the message has its end
NoEnd == 0                   \* EndMs of a stream without an end

ASSUME EventAssumption ==
  /\ KeyOf \in [Event -> Key]
  /\ CameraOf \in [Key -> Camera]
  /\ StartOf \in [Event -> Nat \ {0}] /\ EndOf \in [Event -> Nat \ {0}]
  /\ \A e \in Event : StartOf[e] <= EndOf[e]
  /\ IsFiniteSet(Key)
  /\ None \notin Nat
ASSUME SettingAssumption ==
  /\ {LeadSeconds, TrailSeconds, CopyDelaySeconds, EventEndTimeout} \subseteq Nat
  /\ {MaxTime, MaxMessages, MaxRestarts} \subseteq Nat /\ MaxTime > 0
  /\ Faults \in BOOLEAN

VARIABLES
  now,        \* the clock
  source,     \* frames in the source directories: camera and second
  log,        \* messages published to unifi.protect.smart
  position,   \* messages of it the consumer has fetched
  committed,  \* messages of it whose offset is committed
  stream,     \* streams: the session of each key, or None
  waiting,    \* waitingForEnd: LastMessageAt of each event, or None
  done,       \* ids of events whose stream was closed
  watchedDirs,\* reference count of each camera's source directory
  inotify,    \* cameras whose directory the watcher really watches
  created,    \* file creations the watcher has not handled
  phase,      \* what the worker's tick does next
  archive,    \* files in the archive: key, start second of the directory, frame
  closed,     \* history: key, directory and window of each closed stream, whether it
              \* was moved to an earlier start, and the run that closed it
  left,       \* history: key and directory of streams lost in a restart
  restarts

kafkaVars == <<log, position, committed>>
sessionVars == <<stream, waiting, done>>
watchVars == <<watchedDirs, inotify, created>>
vars == <<now, source, kafkaVars, sessionVars, watchVars, phase, archive, closed, left,
          restarts>>

Active == {k \in Key : stream[k] # None}
Frames(k, base) == {f \in archive : f[1] = k /\ f[2] = base}

----------------------------------------------------------------------------
Init ==
  /\ now = 1
  /\ source = {}
  /\ log = <<>> /\ position = 0 /\ committed = 0
  /\ stream = [k \in Key |-> None]
  /\ waiting = [e \in Event |-> None]
  /\ done = {}
  /\ watchedDirs = [c \in Camera |-> 0]
  /\ inotify = {}
  /\ created = <<>>
  /\ phase = "expire"
  /\ archive = {}
  /\ closed = {} /\ left = {} /\ restarts = 0

(* A second passes. *)
Tick ==
  /\ now < MaxTime
  /\ now' = now + 1
  /\ UNCHANGED <<source, kafkaVars, sessionVars, watchVars, phase, archive, closed, left,
                 restarts>>

(* unifi-video-jpg writes the frame of this second, or never does. *)
FrameWritten(c) ==
  /\ <<c, now>> \notin source
  /\ source' = source \cup {<<c, now>>}
  /\ created' = IF c \in inotify THEN Append(created, <<c, now>>) ELSE created
  /\ UNCHANGED <<now, kafkaVars, sessionVars, watchedDirs, inotify, phase, archive, closed,
                 left, restarts>>

(* unifi-kafka publishes a message: the start of an event, perhaps again, or  *)
(* its end.                                                                   *)
Publish(e, final) ==
  /\ Len(log) < MaxMessages
  /\ now >= IF final THEN EndOf[e] ELSE StartOf[e]
  /\ \A i \in DOMAIN log : log[i] # <<e, TRUE>>
  /\ log' = Append(log, <<e, final>>)
  /\ UNCHANGED <<now, source, position, committed, sessionVars, watchVars, phase, archive,
                 closed, left, restarts>>

----------------------------------------------------------------------------
(* The frames a session's window takes in, to a second later than the clock   *)
(* while the session has no end.                                              *)
ToSec(s, ahead) == IF s.end = NoEnd THEN now + ahead ELSE s.end + TrailSeconds

(* Mutant: the first frame of the window is left out. *)
InWindowAfter(s, ts, ahead) == s.start - LeadSeconds < ts /\ ts <= ToSec(s, ahead)
InWindow(s, ts, ahead) == s.start - LeadSeconds <= ts /\ ts <= ToSec(s, ahead)

(* What becomes of the copying of a set of frames. *)
Copies(S) == IF Faults THEN SUBSET S ELSE {S}

(* catchUpLocked: the session with the frames it has then copied. *)
Missing(s, k) == {ts \in Second : /\ <<CameraOf[k], ts>> \in source
                                  /\ InWindow(s, ts, 5)
                                  /\ ts \notin s.copied}
CatchUps(L) ==
  IF Faults THEN {g \in [L -> SUBSET Second] : \A k \in L : g[k] \subseteq Missing(stream[k], k)}
            ELSE {[k \in L |-> Missing(stream[k], k)]}
Copied(s, S) == [s EXCEPT !.copied = @ \cup S]
Files(k, base, S) == {<<k, base, ts>> : ts \in S}

(* Mutant: the directory of a stream that is over stays watched. *)
releaseNever(S) == UNCHANGED <<watchedDirs, inotify>>

(* releaseWatchedLocked for a set of streams. *)
ReleasedFor(c, S) == Cardinality({k \in S : CameraOf[k] = c})
releaseWatched(S) ==
  LET over == {c \in Camera : /\ ReleasedFor(c, S) > 0
                              /\ watchedDirs[c] <= ReleasedFor(c, S)}
  IN /\ watchedDirs' = [c \in Camera |-> IF c \in over THEN 0
                                         ELSE watchedDirs[c] - ReleasedFor(c, S)]
     /\ inotify' = inotify \ over

(* ensureWatchedLocked: watcher.Add may fail, for a directory that does not   *)
(* exist or for want of inotify watches.                                      *)
ensureWatched(c) ==
  \/ /\ watchedDirs' = [watchedDirs EXCEPT ![c] = @ + 1]
     /\ inotify' = IF watchedDirs[c] = 0 THEN inotify \cup {c} ELSE inotify
  \/ /\ Faults
     /\ watchedDirs[c] = 0
     /\ UNCHANGED <<watchedDirs, inotify>>
----------------------------------------------------------------------------
copyAfter(e, final) == IF final THEN EndOf[e] + TrailSeconds + CopyDelaySeconds ELSE 0

Larger(x, y) == IF x > y THEN x ELSE y

(* processMessage for an event whose stream is open: the window is extended,  *)
(* an earlier start moves the archive to a new directory.                     *)
Merge(e, final) ==
  LET k == KeyOf[e]
      old == stream[k]
      moved == StartOf[e] < old.start
      opened == IF moved THEN [old EXCEPT !.start = StartOf[e], !.base = StartOf[e],
                                           !.moved = TRUE] ELSE old
      ended == IF final THEN [opened EXCEPT !.end = Larger(@, EndOf[e]),
                                            !.copyAfter = Larger(@, copyAfter(e, final))]
                        ELSE opened
  IN \E S1 \in Copies(IF moved THEN Missing(opened, k) ELSE {}) :
     LET first == Copied(ended, S1)
     IN \E S2 \in Copies(IF final THEN Missing(first, k) ELSE {}) :
        /\ stream' = [stream EXCEPT ![k] = [Copied(first, S2) EXCEPT !.ids = Append(@, e)]]
        /\ archive' = (IF moved THEN archive \ Frames(k, old.base) ELSE archive)
                        \cup Files(k, first.base, S1 \cup S2)
        /\ UNCHANGED <<watchedDirs, inotify>>

(* processMessage for the first event of a stream. *)
Open(e, final) ==
  LET k == KeyOf[e]
      new == [start |-> StartOf[e], end |-> IF final THEN EndOf[e] ELSE NoEnd,
              copyAfter |-> copyAfter(e, final), base |-> StartOf[e], ids |-> <<e>>,
              copied |-> {}, moved |-> FALSE]
  IN \E S \in Copies(Missing(new, k)) :
     /\ stream' = [stream EXCEPT ![k] = Copied(new, S)]
     /\ archive' = archive \cup Files(k, new.base, S)
     /\ ensureWatched(CameraOf[k])

(* Mutant: a message of an event that is done opens a stream again. *)
processAgain(e, final) ==
  /\ \/ stream[KeyOf[e]] # None /\ Merge(e, final)
     \/ stream[KeyOf[e]] = None /\ Open(e, final)
  /\ waiting' = [waiting EXCEPT ![e] = IF final THEN None ELSE now]
  /\ UNCHANGED done

(* processMessage.  The service waits for the end only of an event that       *)
(* opened a stream.                                                           *)
processMessage(e, final) ==
  IF e \in done
    THEN UNCHANGED <<sessionVars, archive, watchedDirs, inotify>>
    ELSE /\ UNCHANGED done
         /\ \/ /\ stream[KeyOf[e]] # None
               /\ Merge(e, final)
               /\ waiting' = IF final THEN [waiting EXCEPT ![e] = None] ELSE waiting
            \/ /\ stream[KeyOf[e]] = None
               /\ Open(e, final)
               /\ waiting' = [waiting EXCEPT ![e] = IF final THEN None ELSE now]
            \/ /\ stream[KeyOf[e]] = None
               /\ Faults  \* MkdirAll failed
               /\ waiting' = IF final THEN [waiting EXCEPT ![e] = None] ELSE waiting
               /\ UNCHANGED <<stream, archive, watchedDirs, inotify>>

(* Start's loop: fetch and process, then commit. *)
Consume ==
  /\ position = committed
  /\ position < Len(log)
  /\ position' = position + 1
  /\ processMessage(log[position + 1][1], log[position + 1][2])
  /\ UNCHANGED <<now, source, log, committed, created, phase, closed, left, restarts>>

CommitMessage ==
  /\ committed < position
  /\ committed' = position
  /\ UNCHANGED <<now, source, log, position, sessionVars, watchVars, phase, archive, closed,
                 left, restarts>>

----------------------------------------------------------------------------
(* runWatcher: a created frame goes to every open stream of its camera whose  *)
(* window it is in.                                                           *)
HandleCreated ==
  /\ created # <<>>
  /\ created' = Tail(created)
  /\ LET c == Head(created)[1]
         ts == Head(created)[2]
         wants == {k \in Active : /\ CameraOf[k] = c
                                  /\ InWindow(stream[k], ts, 60)
                                  /\ ts \notin stream[k].copied}
     IN \E S \in Copies(wants) :
        /\ stream' = [k \in Key |-> IF k \in S THEN Copied(stream[k], {ts}) ELSE stream[k]]
        /\ archive' = archive \cup {<<k, stream[k].base, ts>> : k \in S}
  /\ UNCHANGED <<now, source, kafkaVars, waiting, done, watchedDirs, inotify, phase, closed,
                 left, restarts>>

Overdue == {e \in Event : waiting[e] # None /\ now - waiting[e] > EventEndTimeout}

(* Mutant: the partial archive is not removed. *)
expireKeepsFiles ==
  /\ phase = "expire"
  /\ phase' = "close"
  /\ LET drop == {k \in Active : stream[k].end = NoEnd
                                 /\ \E e \in Overdue : KeyOf[e] = k /\ stream[k].ids = <<e>>}
     IN /\ waiting' = [e \in Event |-> IF e \in Overdue THEN None ELSE waiting[e]]
        /\ stream' = [k \in Key |-> IF k \in drop THEN None ELSE stream[k]]
        /\ releaseWatched(drop)
  /\ UNCHANGED <<now, source, kafkaVars, done, created, archive, closed, left, restarts>>

(* expireWaitingForEnd: a stream of one message that got no end in time is    *)
(* dropped with the frames it has archived.                                   *)
expireWaitingForEnd ==
  /\ phase = "expire"
  /\ phase' = "close"
  /\ LET drop == {k \in Active : stream[k].end = NoEnd
                                 /\ \E e \in Overdue : KeyOf[e] = k /\ stream[k].ids = <<e>>}
     IN /\ waiting' = [e \in Event |-> IF e \in Overdue THEN None ELSE waiting[e]]
        /\ stream' = [k \in Key |-> IF k \in drop THEN None ELSE stream[k]]
        /\ archive' = archive \ UNION {Frames(k, stream[k].base) : k \in drop}
        /\ releaseWatched(drop)
  /\ UNCHANGED <<now, source, kafkaVars, done, created, closed, left, restarts>>

(* closeCompletedStreams: a stream whose copy delay is over is closed once    *)
(* its last frame is copied, at once or by a catch-up, or is not there.       *)
Due == {k \in Active : stream[k].end # NoEnd /\ now >= stream[k].copyAfter}
LastFrame(k) == stream[k].end + TrailSeconds

(* Mutant: a stream whose last frame never comes stays open. *)
OverWithLast(k, s) == LastFrame(k) \in s.copied

Over(k, s) == LastFrame(k) \in s.copied \/ <<CameraOf[k], LastFrame(k)>> \notin source

closeCompletedStreams ==
  /\ phase = "close"
  /\ phase' = "expire"
  /\ LET lagging == {k \in Due : LastFrame(k) \notin stream[k].copied}
     IN \E got \in CatchUps(lagging) :
           LET caughtUp(k) == IF k \in lagging THEN Copied(stream[k], got[k]) ELSE stream[k]
               over == {k \in Due : Over(k, caughtUp(k))}
           IN /\ stream' = [k \in Key |-> IF k \in over THEN None
                                          ELSE IF k \in Due THEN caughtUp(k) ELSE stream[k]]
              /\ archive' = archive \cup UNION {Files(k, stream[k].base, got[k]) : k \in lagging}
              /\ done' = done \cup UNION {{stream[k].ids[i] : i \in DOMAIN stream[k].ids} :
                                            k \in over}
              /\ closed' = closed \cup {[key |-> k, base |-> stream[k].base,
                                         from |-> stream[k].start - LeadSeconds,
                                         to |-> LastFrame(k),
                                         moved |-> stream[k].moved,
                                         run |-> restarts] : k \in over}
              /\ releaseWatched(over)
  /\ UNCHANGED <<now, source, kafkaVars, waiting, created, left, restarts>>

(* The service ends, after a signal, a Kafka error or a crash, and is started *)
(* again: all it knew is gone, the offset and the files are not.              *)
Restart ==
  /\ restarts < MaxRestarts
  /\ restarts' = restarts + 1
  /\ position' = committed
  /\ left' = left \cup {<<k, stream[k].base>> : k \in Active}
  /\ stream' = [k \in Key |-> None]
  /\ waiting' = [e \in Event |-> None]
  /\ done' = {}
  /\ watchedDirs' = [c \in Camera |-> 0]
  /\ inotify' = {}
  /\ created' = <<>>
  /\ phase' = "expire"
  /\ UNCHANGED <<now, source, log, committed, archive, closed>>

Next ==
  \/ Tick
  \/ \E c \in Camera : FrameWritten(c)
  \/ \E e \in Event, final \in BOOLEAN : Publish(e, final)
  \/ Consume
  \/ CommitMessage
  \/ HandleCreated
  \/ expireWaitingForEnd
  \/ closeCompletedStreams
  \/ Restart

Spec == Init /\ [][Next]_vars

(* Time passes and the goroutines run. *)
FairSpec ==
  /\ Spec
  /\ WF_vars(Tick)
  /\ WF_vars(Consume)
  /\ WF_vars(CommitMessage)
  /\ WF_vars(HandleCreated)
  /\ WF_vars(expireWaitingForEnd)
  /\ WF_vars(closeCompletedStreams)

----------------------------------------------------------------------------
Session == [start : Second, end : Second, copyAfter : Nat, base : Second, ids : Seq(Event),
            copied : SUBSET Second, moved : BOOLEAN]
ASSUME NoneAssumption == None \notin Session

TypeOK ==
  /\ now \in Second
  /\ source \subseteq Camera \X Second
  /\ log \in Seq(Message)
  /\ committed \in 0 .. Len(log) /\ position \in {committed, committed + 1}
  /\ position <= Len(log)
  /\ stream \in [Key -> Session \cup {None}]
  /\ waiting \in [Event -> Second \cup {None}]
  /\ done \subseteq Event
  /\ watchedDirs \in [Camera -> Nat]
  /\ inotify \subseteq Camera
  /\ created \in Seq(Camera \X Second)
  /\ phase \in {"expire", "close"}
  /\ archive \subseteq Key \X Second \X Second

(* Every file in the archive belongs to an open stream, to one that was       *)
(* closed, or to one a restart interrupted: what an event without an end has  *)
(* left, in however many directories, is removed.                             *)
NoStrayFiles ==
  \A f \in archive :
    \/ f[1] \in Active /\ f[2] = stream[f[1]].base
    \/ \E c \in closed : f[1] = c.key /\ f[2] = c.base
    \/ <<f[1], f[2]>> \in left

(* A directory is watched while streams need it and no longer, whatever the   *)
(* order in which streams of a camera come and go.                            *)
WatchesBalanced ==
  \A c \in Camera :
    LET streams == Cardinality({k \in Active : CameraOf[k] = c})
    IN /\ watchedDirs[c] <= streams
       /\ ~Faults => watchedDirs[c] = streams
       /\ c \in inotify <=> watchedDirs[c] > 0

(* The archive of a stream this run has closed has every frame of its window   *)
(* that the camera wrote, whether the watcher or a catch-up was to copy it, and *)
(* whatever streams of the camera came later.  That is true of a stream that    *)
(* was not moved to an earlier start and whose directory, named by type, camera *)
(* and second, is no other event's.                                             *)
Complete(c) ==
  \A ts \in Second : (c.from <= ts /\ ts <= c.to /\ <<CameraOf[c.key], ts>> \in source) =>
                       <<c.key, c.base, ts>> \in archive

OwnDirectory(c) ==
  \A e, f \in Event :
    KeyOf[e] = c.key /\ KeyOf[f] = c.key /\ StartOf[e] = c.base /\ StartOf[f] = c.base => e = f

ClosedIsComplete ==
  \A c \in closed : c.run = restarts /\ ~c.moved /\ OwnDirectory(c) => Complete(c)

(* What this run has closed stays as it is, moved or not and with or without   *)
(* faults: a late or repeated message of its events, a frame the watcher has    *)
(* yet to handle, an expiry or a move of a later stream of the key neither      *)
(* takes a file from its directory nor adds one, if the directory is its own.   *)
ClosedIsFinal ==
  [][\A c \in closed : c.run = restarts /\ OwnDirectory(c) =>
       Frames(c.key, c.base)' = Frames(c.key, c.base)]_vars

(* A stream with an end is closed in the end, also if its last frame is       *)
(* missing.                                                                   *)
StreamsClose ==
  \A k \in Key : (k \in Active /\ stream[k].end # NoEnd) ~> k \notin Active

(* README, "Overlapping or adjacent events for the same camera and type are   *)
(* coalesced into one time window and one archive directory": a stream that   *)
(* was moved to an earlier start is complete too.                             *)
MovedIsComplete == \A c \in closed : Complete(c)
============================================================================
