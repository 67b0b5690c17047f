------------------------- MODULE SmartArchiveProofs -------------------------
(***************************************************************************)
(* Theorems about SmartArchive, for any events, keys and cameras, however  *)
(* the events follow each other, all lead and trail times, and any number  *)
(* of messages and restarts.                                               *)
(***************************************************************************)
EXTENDS SmartArchive, FiniteSetTheorems, TLAPS

(* What is published has begun, and has ended if the message says so. *)
LogTimes ==
  \A i \in DOMAIN log : /\ StartOf[log[i][1]] <= now
                        /\ log[i][2] => EndOf[log[i][1]] <= now

TypeInv == TypeOK /\ LogTimes

(* The sessions the handlers make are sessions. *)
LEMMA SessionFields ==
  ASSUME NEW s \in Session
  PROVE  /\ s.start \in Second /\ s.end \in Second /\ s.copyAfter \in Nat /\ s.base \in Second
         /\ s.ids \in Seq(Event) /\ s.copied \in SUBSET Second /\ s.moved \in BOOLEAN
BY DEF Session

LEMMA CopiedType ==
  ASSUME NEW s \in Session, NEW S \in SUBSET Second
  PROVE  /\ Copied(s, S) \in Session
         /\ Copied(s, S).copied = s.copied \cup S
         /\ Copied(s, S).start = s.start /\ Copied(s, S).end = s.end
         /\ Copied(s, S).copyAfter = s.copyAfter /\ Copied(s, S).base = s.base
         /\ Copied(s, S).ids = s.ids /\ Copied(s, S).moved = s.moved
BY DEF Copied, Session

LEMMA FilesType ==
  ASSUME NEW k \in Key, NEW base \in Second, NEW S \in SUBSET Second
  PROVE  Files(k, base, S) \in SUBSET (Key \X Second \X Second)
BY DEF Files

LEMMA CopiesType ==
  ASSUME NEW S, NEW T \in Copies(S)
  PROVE  T \subseteq S /\ (~Faults => T = S)
BY SettingAssumption DEF Copies

LEMMA MissingType ==
  ASSUME NEW s, NEW k
  PROVE  Missing(s, k) \in SUBSET Second
BY DEF Missing

(* None stands for no session. *)
LEMMA ActiveSession ==
  ASSUME TypeOK, NEW k \in Active
  PROVE  k \in Key /\ stream[k] \in Session
BY DEF TypeOK, Active

----------------------------------------------------------------------------
(* What a merge makes of the session of a key: s, with the frames S copied.     *)
Moves(e) == StartOf[e] < stream[KeyOf[e]].start

Merged(e, final, s, S) ==
  LET k == KeyOf[e]
      old == stream[k]
  IN /\ s.start = (IF Moves(e) THEN StartOf[e] ELSE old.start)
     /\ s.base = (IF Moves(e) THEN StartOf[e] ELSE old.base)
     /\ s.moved = (Moves(e) \/ old.moved)
     /\ s.end = (IF final THEN Larger(old.end, EndOf[e]) ELSE old.end)
     /\ s.copyAfter = (IF final THEN Larger(old.copyAfter, copyAfter(e, final))
                                ELSE old.copyAfter)
     /\ s.ids = Append(old.ids, e)
     /\ s.copied = old.copied \cup S
     /\ \A ts \in S : <<CameraOf[k], ts>> \in source
     /\ ~Moves(e) /\ ~final => S = {}
     /\ ~Faults /\ final => \A ts \in Second :
          <<CameraOf[k], ts>> \in source /\ InWindow(s, ts, 5) => ts \in s.copied
     /\ stream' = [stream EXCEPT ![k] = s]
     /\ archive' = (IF Moves(e) THEN archive \ Frames(k, old.base) ELSE archive)
                      \cup Files(k, s.base, S)

LEMMA MergeStep ==
  ASSUME TypeOK, NEW e \in Event, NEW final \in BOOLEAN, stream[KeyOf[e]] # None,
         StartOf[e] <= now, final => EndOf[e] <= now, Merge(e, final)
  PROVE  /\ \E s \in Session, S \in SUBSET Second : Merged(e, final, s, S)
         /\ UNCHANGED <<watchedDirs, inotify>>
<1> DEFINE k == KeyOf[e]
           old == stream[k]
           opened == IF Moves(e) THEN [old EXCEPT !.start = StartOf[e], !.base = StartOf[e],
                                                  !.moved = TRUE] ELSE old
           ended == IF final THEN [opened EXCEPT !.end = Larger(@, EndOf[e]),
                                                 !.copyAfter = Larger(@, copyAfter(e, final))]
                             ELSE opened
<1>1. k \in Key /\ k \in Active /\ old \in Session
  BY EventAssumption, ActiveSession DEF Active
<1>2. StartOf[e] \in Second /\ (final => EndOf[e] \in Second) /\ EndOf[e] \in Nat /\ now \in Second
  BY EventAssumption, SettingAssumption DEF TypeOK, Second
<1>3. copyAfter(e, final) \in Nat
  BY <1>2, SettingAssumption DEF copyAfter
<1>4. /\ opened \in Session
      /\ opened.start = (IF Moves(e) THEN StartOf[e] ELSE old.start)
      /\ opened.base = (IF Moves(e) THEN StartOf[e] ELSE old.base)
      /\ opened.moved = (Moves(e) \/ old.moved)
      /\ opened.end = old.end /\ opened.copyAfter = old.copyAfter
      /\ opened.ids = old.ids /\ opened.copied = old.copied
  <2>1. CASE Moves(e)
    BY <1>1, <1>2, <2>1 DEF Session
  <2>2. CASE ~Moves(e)
    BY <1>1, <2>2, SessionFields
  <2> QED BY <2>1, <2>2
<1>5. /\ ended \in Session
      /\ ended.start = opened.start /\ ended.base = opened.base /\ ended.moved = opened.moved
      /\ ended.end = (IF final THEN Larger(opened.end, EndOf[e]) ELSE opened.end)
      /\ ended.copyAfter = (IF final THEN Larger(opened.copyAfter, copyAfter(e, final))
                                     ELSE opened.copyAfter)
      /\ ended.ids = opened.ids /\ ended.copied = opened.copied
  <2> HIDE DEF opened
  <2>1. CASE final
    <3>1. /\ Larger(opened.end, EndOf[e]) \in Second
          /\ Larger(opened.copyAfter, copyAfter(e, final)) \in Nat
      BY <1>2, <1>3, <1>4, <2>1, SessionFields DEF Larger
    <3> QED BY <1>4, <2>1, <3>1 DEF Session
  <2>2. CASE ~final
    BY <1>4, <2>2
  <2> QED BY <2>1, <2>2
<1>6. PICK S1 \in Copies(IF Moves(e) THEN Missing(opened, k) ELSE {}) :
        LET first == Copied(ended, S1)
        IN \E S2 \in Copies(IF final THEN Missing(first, k) ELSE {}) :
             /\ stream' = [stream EXCEPT ![k] = [Copied(first, S2) EXCEPT !.ids = Append(@, e)]]
             /\ archive' = (IF Moves(e) THEN archive \ Frames(k, old.base) ELSE archive)
                             \cup Files(k, first.base, S1 \cup S2)
             /\ UNCHANGED <<watchedDirs, inotify>>
  BY DEF Merge, Moves
<1> DEFINE first == Copied(ended, S1)
<1>7. PICK S2 \in Copies(IF final THEN Missing(first, k) ELSE {}) :
             /\ stream' = [stream EXCEPT ![k] = [Copied(first, S2) EXCEPT !.ids = Append(@, e)]]
             /\ archive' = (IF Moves(e) THEN archive \ Frames(k, old.base) ELSE archive)
                             \cup Files(k, first.base, S1 \cup S2)
             /\ UNCHANGED <<watchedDirs, inotify>>
  BY <1>6
<1> HIDE DEF opened, ended
<1>8. /\ S1 \subseteq IF Moves(e) THEN Missing(opened, k) ELSE {}
      /\ S1 \in SUBSET Second
  BY CopiesType, MissingType
<1>9. /\ first \in Session /\ first.copied = ended.copied \cup S1
      /\ first.start = ended.start /\ first.end = ended.end /\ first.base = ended.base
      /\ first.copyAfter = ended.copyAfter /\ first.ids = ended.ids
      /\ first.moved = ended.moved
  BY <1>5, <1>8, CopiedType
<1> HIDE DEF first
<1>10. /\ S2 \subseteq IF final THEN Missing(first, k) ELSE {}
       /\ ~Faults => S2 = IF final THEN Missing(first, k) ELSE {}
       /\ S2 \in SUBSET Second
  BY CopiesType, MissingType
<1> DEFINE copied == Copied(first, S2)
           s == [copied EXCEPT !.ids = Append(@, e)]
<1>11. /\ copied \in Session /\ copied.copied = first.copied \cup S2
       /\ copied.start = first.start /\ copied.end = first.end /\ copied.base = first.base
       /\ copied.copyAfter = first.copyAfter /\ copied.ids = first.ids
       /\ copied.moved = first.moved
  BY <1>9, <1>10, CopiedType
<1>12. stream' = [stream EXCEPT ![k] = s]
  BY <1>7
<1> HIDE DEF copied
<1>13. /\ s \in Session /\ s.copied = copied.copied /\ s.ids = Append(copied.ids, e)
       /\ s.start = copied.start /\ s.end = copied.end /\ s.base = copied.base
       /\ s.copyAfter = copied.copyAfter /\ s.moved = copied.moved
  <2>1. copied.ids \in Seq(Event) /\ Append(copied.ids, e) \in Seq(Event)
    BY <1>11, SessionFields
  <2> QED BY <1>11, <2>1 DEF Session
<1> HIDE DEF s
<1>14. \A ts \in S1 \cup S2 : <<CameraOf[k], ts>> \in source
  BY <1>8, <1>10 DEF Missing
<1>15. ASSUME ~Faults, final, NEW ts \in Second,
              <<CameraOf[k], ts>> \in source, InWindow(s, ts, 5)
       PROVE  ts \in s.copied
  <2>1. InWindow(first, ts, 5)
    BY <1>11, <1>13, <1>15 DEF InWindow, ToSec
  <2>2. ts \in first.copied \/ ts \in Missing(first, k)
    BY <1>15, <2>1 DEF Missing
  <2> QED BY <1>10, <1>11, <1>13, <1>15, <2>2
<1>16. /\ ~Moves(e) /\ ~final => S1 \cup S2 = {}
       /\ s.copied = old.copied \cup (S1 \cup S2)
  BY <1>4, <1>5, <1>8, <1>9, <1>10, <1>11, <1>13
<1>17. Merged(e, final, s, S1 \cup S2)
  <2>1. /\ s.start = opened.start /\ s.base = opened.base /\ s.moved = opened.moved
        /\ s.end = ended.end /\ s.copyAfter = ended.copyAfter /\ s.ids = Append(old.ids, e)
        /\ s.base = first.base
    BY <1>4, <1>5, <1>9, <1>11, <1>13
  <2> QED BY <1>4, <1>5, <1>7, <1>12, <1>14, <1>15, <1>16, <2>1 DEF Merged
<1> QED BY <1>7, <1>8, <1>10, <1>13, <1>17

(* What the first message of a stream makes of it. *)
Opened(e, final, s) ==
  LET k == KeyOf[e]
  IN /\ s.start = StartOf[e] /\ s.base = StartOf[e] /\ s.moved = FALSE /\ s.ids = <<e>>
     /\ s.end = (IF final THEN EndOf[e] ELSE NoEnd)
     /\ s.copyAfter = copyAfter(e, final)
     /\ \A ts \in s.copied : <<CameraOf[k], ts>> \in source
     /\ ~Faults => \A ts \in Second :
          <<CameraOf[k], ts>> \in source /\ InWindow(s, ts, 5) => ts \in s.copied
     /\ stream' = [stream EXCEPT ![k] = s]
     /\ archive' = archive \cup Files(k, s.base, s.copied)
     /\ ensureWatched(CameraOf[k])

LEMMA OpenStep ==
  ASSUME TypeOK, NEW e \in Event, NEW final \in BOOLEAN,
         StartOf[e] <= now, final => EndOf[e] <= now, Open(e, final)
  PROVE  \E s \in Session : Opened(e, final, s)
<1> DEFINE k == KeyOf[e]
           new == [start |-> StartOf[e], end |-> IF final THEN EndOf[e] ELSE NoEnd,
                   copyAfter |-> copyAfter(e, final), base |-> StartOf[e], ids |-> <<e>>,
                   copied |-> {}, moved |-> FALSE]
<1>1. PICK S \in Copies(Missing(new, k)) :
        /\ stream' = [stream EXCEPT ![k] = Copied(new, S)]
        /\ archive' = archive \cup Files(k, new.base, S)
        /\ ensureWatched(CameraOf[k])
  BY DEF Open
<1>2. new \in Session
  <2>1. StartOf[e] \in Second /\ (IF final THEN EndOf[e] ELSE NoEnd) \in Second
    BY EventAssumption, SettingAssumption DEF TypeOK, Second, NoEnd
  <2>2. copyAfter(e, final) \in Nat
    BY EventAssumption, SettingAssumption DEF copyAfter
  <2> QED BY <2>1, <2>2 DEF Session
<1>3. /\ new.start = StartOf[e] /\ new.base = StartOf[e] /\ new.moved = FALSE /\ new.ids = <<e>>
      /\ new.end = (IF final THEN EndOf[e] ELSE NoEnd)
      /\ new.copyAfter = copyAfter(e, final) /\ new.copied = {}
  OBVIOUS
<1> HIDE DEF new
<1>4. /\ S \in SUBSET Second /\ S \subseteq Missing(new, k)
      /\ ~Faults => S = Missing(new, k)
  BY CopiesType, MissingType
<1> DEFINE s == Copied(new, S)
<1>5. /\ s \in Session /\ s.copied = S
      /\ s.start = new.start /\ s.end = new.end /\ s.base = new.base
      /\ s.copyAfter = new.copyAfter /\ s.ids = new.ids /\ s.moved = new.moved
  BY <1>2, <1>3, <1>4, CopiedType
<1>6. stream' = [stream EXCEPT ![k] = s]
  BY <1>1
<1> HIDE DEF s
<1>7. ASSUME ~Faults, NEW ts \in Second,
             <<CameraOf[k], ts>> \in source, InWindow(s, ts, 5)
      PROVE  ts \in s.copied
  <2>1. InWindow(new, ts, 5)
    BY <1>5, <1>7 DEF InWindow, ToSec
  <2>2. ts \in Missing(new, k)
    BY <1>3, <1>7, <2>1 DEF Missing
  <2> QED BY <1>4, <1>5, <1>7, <2>2
<1>8. Opened(e, final, s)
  <2>1. \A ts \in s.copied : <<CameraOf[k], ts>> \in source
    BY <1>4, <1>5 DEF Missing
  <2>2. archive' = archive \cup Files(k, s.base, s.copied)
    BY <1>1, <1>5
  <2> QED BY <1>1, <1>3, <1>5, <1>6, <1>7, <2>1, <2>2 DEF Opened
<1> QED BY <1>5, <1>8

(* The watcher's handler: the streams S get the frame ts of the camera c. *)
Watched(c, ts, S) ==
  /\ S \subseteq Active /\ \A k \in S : CameraOf[k] = c
  /\ ~Faults => \A k \in Active : CameraOf[k] = c /\ InWindow(stream[k], ts, 60) =>
                                    k \in S \/ ts \in stream[k].copied
  /\ stream' = [k \in Key |-> IF k \in S THEN Copied(stream[k], {ts}) ELSE stream[k]]
  /\ archive' = archive \cup {<<k, stream[k].base, ts>> : k \in S}

LEMMA WatchStep ==
  ASSUME TypeOK, HandleCreated
  PROVE  /\ Len(created) \in Nat /\ Len(created) > 0
         /\ created[1] \in Camera \X Second
         /\ \E S : Watched(created[1][1], created[1][2], S)
<1>1. created \in Seq(Camera \X Second) /\ created # <<>>
  BY DEF TypeOK, HandleCreated
<1>2. Len(created) \in Nat /\ Len(created) > 0 /\ Head(created) = created[1]
      /\ created[1] \in Camera \X Second
  BY <1>1
<1> DEFINE c == Head(created)[1]
           ts == Head(created)[2]
           wants == {k \in Active : /\ CameraOf[k] = c
                                    /\ InWindow(stream[k], ts, 60)
                                    /\ ts \notin stream[k].copied}
<1>3. PICK S \in Copies(wants) :
        /\ stream' = [k \in Key |-> IF k \in S THEN Copied(stream[k], {ts}) ELSE stream[k]]
        /\ archive' = archive \cup {<<k, stream[k].base, ts>> : k \in S}
  BY Zenon DEF HandleCreated
<1> HIDE DEF wants
<1>4. S \subseteq wants /\ (~Faults => S = wants)
  BY CopiesType
<1>5. Watched(c, ts, S)
  BY <1>3, <1>4 DEF Watched, wants
<1> QED BY <1>2, <1>5

(* What closeCompletedStreams makes of the streams that are due, after catch-ups  *)
(* that copied got.                                                               *)
Lagging == {k \in Due : LastFrame(k) \notin stream[k].copied}
CaughtUp(got, k) == IF k \in Lagging THEN Copied(stream[k], got[k]) ELSE stream[k]
Closing(got) == {k \in Due : Over(k, CaughtUp(got, k))}

Closed(got) ==
  /\ got \in [Lagging -> SUBSET Second]
  /\ \A k \in Lagging : got[k] \subseteq Missing(stream[k], k)
  /\ ~Faults => \A k \in Lagging : got[k] = Missing(stream[k], k)
  /\ stream' = [k \in Key |-> IF k \in Closing(got) THEN None
                              ELSE IF k \in Due THEN CaughtUp(got, k) ELSE stream[k]]
  /\ archive' = archive \cup UNION {Files(k, stream[k].base, got[k]) : k \in Lagging}
  /\ done' = done \cup UNION {{stream[k].ids[i] : i \in DOMAIN stream[k].ids} :
                                k \in Closing(got)}
  /\ closed' = closed \cup {[key |-> k, base |-> stream[k].base,
                             from |-> stream[k].start - LeadSeconds,
                             to |-> LastFrame(k),
                             moved |-> stream[k].moved, run |-> restarts] : k \in Closing(got)}
  /\ releaseWatched(Closing(got))

LEMMA CloseStep ==
  ASSUME closeCompletedStreams
  PROVE  \E got : Closed(got)
<1>1. PICK got \in CatchUps(Lagging) :
           LET caughtUp(k) == IF k \in Lagging THEN Copied(stream[k], got[k]) ELSE stream[k]
               over == {k \in Due : Over(k, caughtUp(k))}
           IN /\ stream' = [k \in Key |-> IF k \in over THEN None
                                          ELSE IF k \in Due THEN caughtUp(k) ELSE stream[k]]
              /\ archive' = archive \cup UNION {Files(k, stream[k].base, got[k]) : k \in Lagging}
              /\ done' = done \cup UNION {{stream[k].ids[i] : i \in DOMAIN stream[k].ids} :
                                            k \in over}
              /\ closed' = closed \cup {[key |-> k, base |-> stream[k].base,
                                         from |-> stream[k].start - LeadSeconds,
                                         to |-> LastFrame(k),
                                         moved |-> stream[k].moved, run |-> restarts] : k \in over}
              /\ releaseWatched(over)
  BY DEF closeCompletedStreams, Lagging
<1>2. /\ got \in [Lagging -> SUBSET Second]
      /\ \A k \in Lagging : got[k] \subseteq Missing(stream[k], k)
      /\ ~Faults => \A k \in Lagging : got[k] = Missing(stream[k], k)
  <2>1. CASE Faults
    BY <2>1 DEF CatchUps
  <2>2. CASE ~Faults
    BY <2>2, MissingType DEF CatchUps
  <2> QED BY <2>1, <2>2
<1>3. Closed(got)
  BY <1>1, <1>2, Zenon DEF Closed, Closing, CaughtUp
<1> QED BY <1>3

(* The sessions of the streams after a tick of the worker. *)
LEMMA CaughtUpType ==
  ASSUME TypeOK, NEW got, Closed(got), NEW k \in Due
  PROVE  /\ k \in Key /\ stream[k] \in Session /\ CaughtUp(got, k) \in Session
         /\ k \in Lagging => got[k] \in SUBSET Second
         /\ CaughtUp(got, k).copied =
              stream[k].copied \cup (IF k \in Lagging THEN got[k] ELSE {})
         /\ CaughtUp(got, k).start = stream[k].start /\ CaughtUp(got, k).end = stream[k].end
         /\ CaughtUp(got, k).copyAfter = stream[k].copyAfter
         /\ CaughtUp(got, k).base = stream[k].base /\ CaughtUp(got, k).ids = stream[k].ids
         /\ CaughtUp(got, k).moved = stream[k].moved
<1>1. k \in Key /\ stream[k] \in Session
  BY ActiveSession DEF Due
<1>2. CASE k \in Lagging
  <2>1. got[k] \in SUBSET Second
    BY <1>2 DEF Closed
  <2> QED BY <1>1, <1>2, <2>1, CopiedType DEF CaughtUp
<1>3. CASE k \notin Lagging
  BY <1>1, <1>3 DEF CaughtUp
<1> QED BY <1>1, <1>2, <1>3

(* What expireWaitingForEnd drops. *)
Dropped == {k \in Active : stream[k].end = NoEnd
                           /\ \E e \in Overdue : KeyOf[e] = k /\ stream[k].ids = <<e>>}

LEMMA ExpireStep ==
  ASSUME expireWaitingForEnd
  PROVE  /\ waiting' = [e \in Event |-> IF e \in Overdue THEN None ELSE waiting[e]]
         /\ stream' = [k \in Key |-> IF k \in Dropped THEN None ELSE stream[k]]
         /\ archive' = archive \ UNION {Frames(k, stream[k].base) : k \in Dropped}
         /\ releaseWatched(Dropped)
         /\ phase' = "close"
         /\ UNCHANGED <<now, source, kafkaVars, done, created, closed, left, restarts>>
BY DEF expireWaitingForEnd, Dropped

(* The streams of a camera can be counted. *)
LEMMA Counted ==
  ASSUME NEW S \in SUBSET Key, NEW c
  PROVE  /\ IsFiniteSet({k \in S : CameraOf[k] = c})
         /\ ReleasedFor(c, S) \in Nat
<1>1. IsFiniteSet({k \in S : CameraOf[k] = c})
  BY FS_Subset, EventAssumption
<1> QED BY <1>1, FS_CardinalityType DEF ReleasedFor

(* What happens to the directory of one camera when streams give it back, *)
LEMMA ReleaseStep ==
  ASSUME TypeOK, NEW S \in SUBSET Key, releaseWatched(S)
  PROVE  /\ watchedDirs' \in [Camera -> Nat] /\ inotify' \in SUBSET Camera
         /\ \A c \in Camera :
              LET r == ReleasedFor(c, S)
              IN /\ watchedDirs'[c] = (IF r > 0 /\ watchedDirs[c] <= r THEN 0
                                       ELSE watchedDirs[c] - r)
                 /\ c \in inotify' <=> c \in inotify /\ ~(r > 0 /\ watchedDirs[c] <= r)
<1>1. \A c \in Camera : ReleasedFor(c, S) \in Nat /\ watchedDirs[c] \in Nat
  BY Counted DEF TypeOK
<1> DEFINE over == {c \in Camera : ReleasedFor(c, S) > 0 /\ watchedDirs[c] <= ReleasedFor(c, S)}
<1>2. /\ watchedDirs' = [c \in Camera |-> IF c \in over THEN 0
                                          ELSE watchedDirs[c] - ReleasedFor(c, S)]
      /\ inotify' = inotify \ over
  BY DEF releaseWatched
<1>3. \A c \in Camera : c \in over <=> ReleasedFor(c, S) > 0 /\ watchedDirs[c] <= ReleasedFor(c, S)
  OBVIOUS
<1> HIDE DEF over
<1>4. ASSUME NEW c \in Camera PROVE watchedDirs'[c] \in Nat
  <2>1. watchedDirs'[c] = IF c \in over THEN 0 ELSE watchedDirs[c] - ReleasedFor(c, S)
    BY <1>2
  <2> QED BY <1>1, <1>3, <2>1
<1>5. inotify' \in SUBSET Camera
  BY <1>2 DEF TypeOK
<1>6. watchedDirs' \in [Camera -> Nat]
  BY <1>2, <1>4
<1> QED BY <1>2, <1>3, <1>5, <1>6

(* ... and when a stream asks for it. *)
LEMMA WatchTypes ==
  ASSUME TypeOK, NEW c \in Camera, ensureWatched(c)
  PROVE  watchedDirs' \in [Camera -> Nat] /\ inotify' \in SUBSET Camera
BY DEF TypeOK, ensureWatched

----------------------------------------------------------------------------
(* Type correctness of the service, the log and the archive, and every message *)
(* is about an event that has begun.                                           *)
LEMMA MessageInHand ==
  ASSUME TypeInv, Consume
  PROVE  \E e \in Event, final \in BOOLEAN :
           /\ log[position + 1] = <<e, final>> /\ processMessage(e, final)
           /\ StartOf[e] <= now /\ (final => EndOf[e] <= now)
<1>1. position \in Nat /\ position < Len(log) /\ Len(log) \in Nat
  BY DEF TypeInv, TypeOK, Consume
<1>2. position + 1 \in DOMAIN log /\ log[position + 1] \in Message
  BY <1>1 DEF TypeInv, TypeOK
<1>3. PICK e \in Event, final \in BOOLEAN : log[position + 1] = <<e, final>>
  BY <1>2 DEF Message
<1>4. StartOf[e] <= now /\ (final => EndOf[e] <= now)
  BY <1>2, <1>3 DEF TypeInv, LogTimes
<1> QED BY <1>3, <1>4 DEF Consume

LEMMA ProcessTypes ==
  ASSUME TypeOK, NEW e \in Event, NEW final \in BOOLEAN, StartOf[e] <= now,
         final => EndOf[e] <= now, processMessage(e, final)
  PROVE  /\ stream' \in [Key -> Session \cup {None}]
         /\ waiting' \in [Event -> Second \cup {None}]
         /\ done' = done
         /\ watchedDirs' \in [Camera -> Nat] /\ inotify' \in SUBSET Camera
         /\ archive' \in SUBSET (Key \X Second \X Second)
<1>1. KeyOf[e] \in Key /\ CameraOf[KeyOf[e]] \in Camera
  BY EventAssumption
<1>2. waiting' \in [Event -> Second \cup {None}] /\ done' = done
  BY DEF processMessage, TypeOK, sessionVars
<1>3. CASE Merge(e, final) /\ stream[KeyOf[e]] # None
  <2>1. PICK s \in Session, S \in SUBSET Second : Merged(e, final, s, S)
    BY <1>3, MergeStep
  <2>2. Files(KeyOf[e], s.base, S) \in SUBSET (Key \X Second \X Second)
    BY <1>1, FilesType, SessionFields
  <2>3. UNCHANGED <<watchedDirs, inotify>>
    BY <1>3, MergeStep
  <2> QED BY <1>1, <1>2, <2>1, <2>2, <2>3 DEF Merged, TypeOK
<1>4. CASE Open(e, final)
  <2>1. PICK s \in Session : Opened(e, final, s)
    BY <1>4, OpenStep
  <2>2. Files(KeyOf[e], s.base, s.copied) \in SUBSET (Key \X Second \X Second)
    BY <1>1, FilesType, SessionFields
  <2>3. watchedDirs' \in [Camera -> Nat] /\ inotify' \in SUBSET Camera
    BY <1>1, <2>1, WatchTypes DEF Opened
  <2> QED BY <1>1, <1>2, <2>1, <2>2, <2>3 DEF Opened, TypeOK
<1>5. CASE UNCHANGED <<stream, archive, watchedDirs, inotify>>
  BY <1>2, <1>5 DEF TypeOK
<1> QED BY <1>3, <1>4, <1>5 DEF processMessage, sessionVars

LEMMA InitTypes == Init => TypeInv
<1> SUFFICES ASSUME Init PROVE TypeInv
  OBVIOUS
<1>1. now \in Second
  BY SettingAssumption DEF Init, Second
<1>2. /\ log \in Seq(Message) /\ committed \in 0 .. Len(log)
      /\ position \in {committed, committed + 1} /\ position <= Len(log) /\ LogTimes
  BY DEF Init, LogTimes
<1>3. /\ stream \in [Key -> Session \cup {None}]
      /\ waiting \in [Event -> Second \cup {None}]
      /\ watchedDirs \in [Camera -> Nat]
  BY DEF Init
<1>4. created \in Seq(Camera \X Second)
  BY DEF Init
<1> QED BY <1>1, <1>2, <1>3, <1>4 DEF Init, TypeInv, TypeOK

THEOREM TypeCorrect == Spec => []TypeInv
<1>1. TypeInv /\ [Next]_vars => TypeInv'
  <2> SUFFICES ASSUME TypeInv, [Next]_vars PROVE TypeInv'
    OBVIOUS
  <2> USE DEF kafkaVars, sessionVars, watchVars
  <2>0. TypeOK /\ LogTimes
    BY DEF TypeInv
  <2>1. CASE Tick
    <3>1. now' \in Second /\ now' >= now
      BY <2>0, <2>1, SettingAssumption DEF Tick, TypeOK, Second
    <3>2. TypeOK'
      BY <2>0, <2>1, <3>1 DEF Tick, TypeOK
    <3>3. LogTimes'
      <4>1. \A i \in DOMAIN log : log[i][1] \in Event /\ StartOf[log[i][1]] \in Nat
                                   /\ EndOf[log[i][1]] \in Nat
        <5>1. \A i \in DOMAIN log : log[i] \in Message
          BY <2>0 DEF TypeOK
        <5> QED BY <5>1, EventAssumption DEF Message
      <4> QED BY <2>0, <2>1, <3>1, <4>1 DEF Tick, LogTimes, TypeOK, Second
    <3> QED BY <3>2, <3>3 DEF TypeInv
  <2>2. ASSUME NEW c \in Camera, FrameWritten(c) PROVE TypeInv'
    <3>1. <<c, now>> \in Camera \X Second
      BY <2>0 DEF TypeOK
    <3>2. source' \subseteq Camera \X Second /\ created' \in Seq(Camera \X Second)
      BY <2>0, <2>2, <3>1 DEF FrameWritten, TypeOK
    <3> QED BY <2>0, <2>2, <3>2 DEF FrameWritten, TypeInv, TypeOK, LogTimes
  <2>3. ASSUME NEW e \in Event, NEW final \in BOOLEAN, Publish(e, final) PROVE TypeInv'
    <3> DEFINE m == <<e, final>>
    <3>1. m \in Message /\ log \in Seq(Message) /\ log' = Append(log, m)
      BY <2>0, <2>3 DEF Publish, TypeOK, Message
    <3>2. m[1] = e /\ m[2] = final
      OBVIOUS
    <3>3. StartOf[e] <= now /\ (final => EndOf[e] <= now)
      BY <2>0, <2>3, EventAssumption DEF Publish, TypeOK, Second
    <3> HIDE DEF m
    <3>4. /\ log' \in Seq(Message) /\ Len(log') = Len(log) + 1 /\ Len(log) \in Nat
          /\ \A i \in DOMAIN log' : log'[i] = m \/ (i \in DOMAIN log /\ log'[i] = log[i])
      BY <3>1
    <3>5. LogTimes'
      BY <2>0, <2>3, <3>2, <3>3, <3>4 DEF LogTimes, Publish
    <3> QED BY <2>0, <2>3, <3>4, <3>5 DEF Publish, TypeInv, TypeOK
  <2>4. CASE Consume
    <3>1. PICK e \in Event, final \in BOOLEAN :
            /\ log[position + 1] = <<e, final>> /\ processMessage(e, final)
            /\ StartOf[e] <= now /\ (final => EndOf[e] <= now)
      BY <2>4, MessageInHand
    <3>2. /\ position' \in {committed, committed + 1} /\ position' <= Len(log)
      BY <2>0, <2>4 DEF Consume, TypeOK
    <3>3. /\ stream' \in [Key -> Session \cup {None}]
          /\ waiting' \in [Event -> Second \cup {None}]
          /\ done' = done
          /\ watchedDirs' \in [Camera -> Nat] /\ inotify' \in SUBSET Camera
          /\ archive' \in SUBSET (Key \X Second \X Second)
      BY <2>0, <3>1, ProcessTypes
    <3> QED BY <2>0, <2>4, <3>2, <3>3 DEF Consume, TypeInv, TypeOK, LogTimes
  <2>5. CASE CommitMessage
    BY <2>0, <2>5 DEF CommitMessage, TypeInv, TypeOK, LogTimes
  <2>6. CASE HandleCreated
    <3>1. /\ created \in Seq(Camera \X Second) /\ created[1] \in Camera \X Second
          /\ Len(created) > 0
      BY <2>0, <2>6, WatchStep DEF TypeOK
    <3>2. created' \in Seq(Camera \X Second)
      BY <2>6, <3>1 DEF HandleCreated
    <3>3. PICK S : Watched(created[1][1], created[1][2], S)
      BY <2>0, <2>6, WatchStep
    <3>4. \A k \in S : /\ k \in Key /\ stream[k] \in Session
                       /\ Copied(stream[k], {created[1][2]}) \in Session
      BY <2>0, <3>1, <3>3, ActiveSession, CopiedType DEF Watched
    <3>5. stream' \in [Key -> Session \cup {None}]
      BY <2>0, <3>3, <3>4 DEF Watched, TypeOK
    <3>6. archive' \subseteq Key \X Second \X Second
      BY <2>0, <3>1, <3>3, <3>4, SessionFields DEF Watched, TypeOK
    <3> QED BY <2>0, <2>6, <3>2, <3>5, <3>6 DEF HandleCreated, TypeInv, TypeOK, LogTimes
  <2>7. CASE expireWaitingForEnd
    <3>1. waiting' \in [Event -> Second \cup {None}]
      BY <2>0, <2>7, ExpireStep DEF TypeOK
    <3>2. stream' \in [Key -> Session \cup {None}] /\ archive' \subseteq archive
      BY <2>0, <2>7, ExpireStep DEF TypeOK
    <3>3. watchedDirs' \in [Camera -> Nat] /\ inotify' \in SUBSET Camera
      BY <2>0, <2>7, ExpireStep, ReleaseStep DEF Dropped, Active
    <3> QED BY <2>0, <2>7, <3>1, <3>2, <3>3 DEF expireWaitingForEnd, TypeInv, TypeOK, LogTimes
  <2>8. CASE closeCompletedStreams
    <3>1. PICK got : Closed(got)
      BY <2>8, CloseStep
    <3>2. stream' \in [Key -> Session \cup {None}]
      BY <2>0, <3>1, CaughtUpType DEF Closed, TypeOK
    <3>3. archive' \subseteq Key \X Second \X Second
      <4>1. \A k \in Lagging : Files(k, stream[k].base, got[k]) \in SUBSET (Key \X Second \X Second)
        BY <2>0, <3>1, CaughtUpType, SessionFields, FilesType DEF Lagging
      <4> QED BY <2>0, <3>1, <4>1 DEF Closed, TypeOK
    <3>4. done' \subseteq Event
      <4>1. \A k \in Due : \A i \in DOMAIN stream[k].ids : stream[k].ids[i] \in Event
        BY <2>0, <3>1, CaughtUpType, SessionFields
      <4>2. Closing(got) \subseteq Due
        BY DEF Closing
      <4> QED BY <2>0, <3>1, <4>1, <4>2 DEF Closed, TypeOK
    <3>5. watchedDirs' \in [Camera -> Nat] /\ inotify' \in SUBSET Camera
      BY <2>0, <3>1, ReleaseStep DEF Closed, Closing, Due, Active
    <3> QED BY <2>0, <2>8, <3>2, <3>3, <3>4, <3>5
            DEF closeCompletedStreams, TypeInv, TypeOK, LogTimes
  <2>9. CASE Restart
    <3>1. created' \in Seq(Camera \X Second)
      BY <2>9 DEF Restart
    <3>2. position' \in {committed, committed + 1} /\ position' <= Len(log)
      BY <2>0, <2>9 DEF Restart, TypeOK
    <3> QED BY <2>0, <2>9, <3>1, <3>2 DEF Restart, TypeInv, TypeOK, LogTimes
  <2>10. CASE UNCHANGED vars
    BY <2>0, <2>10 DEF vars, TypeInv, TypeOK, LogTimes
  <2> QED BY <2>1, <2>2, <2>3, <2>4, <2>5, <2>6, <2>7, <2>8, <2>9, <2>10 DEF Next
<1> QED BY <1>1, InitTypes, PTL DEF Spec

----------------------------------------------------------------------------
(* No frame is left in a directory nobody owns: neither a merge that moves a      *)
(* stream, nor an expiry, a close, a restart or any mix of them under failing     *)
(* copies and watches.                                                            *)
THEOREM NeverStrayFiles == Spec => []NoStrayFiles
<1>1. Init => NoStrayFiles
  BY DEF Init, NoStrayFiles
<1>2. TypeInv /\ NoStrayFiles /\ [Next]_vars => NoStrayFiles'
  <2> SUFFICES ASSUME TypeInv, NoStrayFiles, [Next]_vars PROVE NoStrayFiles'
    OBVIOUS
  <2> USE DEF kafkaVars, sessionVars, watchVars
  <2>0. TypeOK
    BY DEF TypeInv
  <2>1. ASSUME UNCHANGED <<stream, archive, closed, left>> PROVE NoStrayFiles'
    BY <2>1 DEF NoStrayFiles, Active
  <2>2. CASE Consume
    <3>1. PICK e \in Event, final \in BOOLEAN :
            /\ processMessage(e, final)
            /\ StartOf[e] <= now /\ (final => EndOf[e] <= now)
      BY <2>0, <2>2, MessageInHand
    <3>2. UNCHANGED <<closed, left>>
      BY <2>2 DEF Consume
    <3> DEFINE k == KeyOf[e]
    <3>3. ASSUME NEW s \in Session, stream' = [stream EXCEPT ![k] = s],
                 \A f \in archive' : \/ f[1] = k /\ f[2] = s.base
                                     \/ f \in archive /\ ~(f[1] = k /\ stream[k] # None /\ f[2] = stream[k].base)
          PROVE  NoStrayFiles'
      <4>1. k \in Key
        BY EventAssumption
      <4>2. \A j \in Key \ {k} : stream'[j] = stream[j]
        BY <2>0, <3>3 DEF TypeOK
      <4>3. stream'[k] = s /\ s # None /\ k \in Active'
        BY <2>0, <3>3, <4>1, NoneAssumption DEF TypeOK, Active
      <4>4. Active \ {k} \subseteq Active'
        BY <4>2 DEF Active
      <4>5. SUFFICES ASSUME NEW f \in archive'
                     PROVE  \/ f[1] \in Active' /\ f[2] = stream'[f[1]].base
                            \/ \E c \in closed : f[1] = c.key /\ f[2] = c.base
                            \/ <<f[1], f[2]>> \in left
        BY <3>2 DEF NoStrayFiles
      <4>6. CASE f[1] = k /\ f[2] = s.base
        BY <4>3, <4>6
      <4>7. CASE f \in archive /\ ~(f[1] = k /\ stream[k] # None /\ f[2] = stream[k].base)
        <5>1. CASE f[1] \in Active /\ f[2] = stream[f[1]].base
          <6>1. f[1] # k
            BY <4>7, <5>1 DEF Active
          <6> QED BY <4>2, <4>4, <5>1, <6>1 DEF Active
        <5> QED BY <4>7, <5>1 DEF NoStrayFiles
      <4> QED BY <3>3, <4>6, <4>7
    <3>4. CASE stream[k] # None /\ Merge(e, final)
      <4>1. PICK s \in Session, S \in SUBSET Second : Merged(e, final, s, S)
        BY <2>0, <3>1, <3>4, MergeStep
      <4>2. stream' = [stream EXCEPT ![k] = s]
        BY <4>1 DEF Merged
      <4>3. ASSUME NEW f \in archive'
            PROVE  \/ f[1] = k /\ f[2] = s.base
                   \/ f \in archive /\ ~(f[1] = k /\ f[2] = stream[k].base)
        <5>1. CASE f \in Files(k, s.base, S)
          BY <5>1 DEF Files
        <5>2. CASE f \notin Files(k, s.base, S) /\ Moves(e)
          BY <4>1, <4>3, <5>2 DEF Merged, Frames
        <5>3. CASE f \notin Files(k, s.base, S) /\ ~Moves(e)
          BY <4>1, <4>3, <5>3 DEF Merged
        <5> QED BY <5>1, <5>2, <5>3
      <4> QED BY <3>3, <4>2, <4>3
    <3>5. CASE stream[k] = None /\ Open(e, final)
      <4>1. PICK s \in Session : Opened(e, final, s)
        BY <2>0, <3>1, <3>5, OpenStep
      <4>2. stream' = [stream EXCEPT ![k] = s] /\ archive' = archive \cup Files(k, s.base, s.copied)
        BY <4>1 DEF Opened
      <4>3. \A f \in Files(k, s.base, s.copied) : f[1] = k /\ f[2] = s.base
        BY DEF Files
      <4> QED BY <3>3, <3>5, <4>2, <4>3
    <3>6. CASE UNCHANGED <<stream, archive>>
      BY <2>1, <3>2, <3>6
    <3> QED BY <3>1, <3>4, <3>5, <3>6 DEF processMessage
  <2>3. CASE HandleCreated
    <3>1. PICK S : Watched(created[1][1], created[1][2], S)
      BY <2>0, <2>3, WatchStep
    <3> DEFINE ts == created[1][2]
    <3>2. /\ \A k \in Active : k \in Active' /\ stream'[k].base = stream[k].base
      <4>1. ASSUME NEW k \in Active PROVE k \in Active' /\ stream'[k].base = stream[k].base
        <5>1. k \in Key /\ stream[k] \in Session
          BY <2>0, ActiveSession
        <5>2. ts \in Second
          BY <2>0, <2>3, WatchStep
        <5>3. Copied(stream[k], {ts}) \in Session /\ Copied(stream[k], {ts}).base = stream[k].base
          BY <5>1, <5>2, CopiedType
        <5>4. stream'[k] = IF k \in S THEN Copied(stream[k], {ts}) ELSE stream[k]
          BY <3>1, <5>1 DEF Watched
        <5> QED BY <5>1, <5>3, <5>4, NoneAssumption DEF Active
      <4> QED BY <4>1
    <3>3. archive' = archive \cup {<<k, stream[k].base, ts>> : k \in S} /\ S \subseteq Active
      BY <3>1 DEF Watched
    <3>4. UNCHANGED <<closed, left>>
      BY <2>3 DEF HandleCreated
    <3>5. SUFFICES ASSUME NEW f \in archive'
                   PROVE  \/ f[1] \in Active' /\ f[2] = stream'[f[1]].base
                          \/ \E c \in closed : f[1] = c.key /\ f[2] = c.base
                          \/ <<f[1], f[2]>> \in left
      BY <3>4 DEF NoStrayFiles
    <3>6. CASE f \in archive
      BY <3>2, <3>6 DEF NoStrayFiles
    <3>7. CASE f \notin archive
      <4>1. PICK k \in S : f = <<k, stream[k].base, ts>>
        BY <3>3, <3>7
      <4> QED BY <3>2, <3>3, <4>1
    <3> QED BY <3>6, <3>7
  <2>4. CASE expireWaitingForEnd
    <3>1. \A k \in Active \ Dropped : k \in Active' /\ stream'[k] = stream[k]
      BY <2>0, <2>4, ExpireStep DEF Active
    <3>2. \A f \in archive' : f \in archive /\ ~(f[1] \in Dropped /\ f[2] = stream[f[1]].base)
      BY <2>4, ExpireStep DEF Frames
    <3>3. UNCHANGED <<closed, left>>
      BY <2>4, ExpireStep
    <3> QED BY <3>1, <3>2, <3>3 DEF NoStrayFiles
  <2>5. CASE closeCompletedStreams
    <3>1. PICK got : Closed(got)
      BY <2>5, CloseStep
    <3>2. ASSUME NEW k \in Active
          PROVE  \/ k \in Active' /\ stream'[k].base = stream[k].base
                 \/ \E c \in closed' : c.key = k /\ c.base = stream[k].base
      <4>1. k \in Key
        BY DEF Active
      <4>2. CASE k \in Closing(got)
        <5> DEFINE c == [key |-> k, base |-> stream[k].base,
                         from |-> stream[k].start - LeadSeconds, to |-> LastFrame(k),
                         moved |-> stream[k].moved, run |-> restarts]
        <5>1. c \in closed'
          BY <3>1, <4>2 DEF Closed
        <5>2. c.key = k /\ c.base = stream[k].base
          OBVIOUS
        <5> QED BY <5>1, <5>2
      <4>3. CASE k \in Due \ Closing(got)
        <5>1. stream'[k] = CaughtUp(got, k)
          BY <3>1, <4>1, <4>3 DEF Closed
        <5> QED BY <2>0, <3>1, <4>1, <4>3, <5>1, CaughtUpType, NoneAssumption DEF Active
      <4>4. CASE k \notin Due
        <5>1. k \notin Closing(got)
          BY <4>4 DEF Closing
        <5>2. stream'[k] = stream[k]
          BY <3>1, <4>1, <4>4, <5>1 DEF Closed
        <5> QED BY <4>1, <5>2 DEF Active
      <4> QED BY <4>2, <4>3, <4>4
    <3>3. closed \subseteq closed' /\ left' = left
      BY <2>5, <3>1 DEF Closed, closeCompletedStreams
    <3>4. \A f \in archive' : f \in archive \/ (f[1] \in Active /\ f[2] = stream[f[1]].base)
      <4>1. archive' = archive \cup UNION {Files(k, stream[k].base, got[k]) : k \in Lagging}
        BY <3>1 DEF Closed
      <4>2. \A k \in Lagging : \A f \in Files(k, stream[k].base, got[k]) :
              f[1] \in Active /\ f[2] = stream[f[1]].base
        BY DEF Files, Lagging, Due
      <4> QED BY <4>1, <4>2
    <3> SUFFICES ASSUME NEW f \in archive',
                        ~\E c \in closed' : f[1] = c.key /\ f[2] = c.base, <<f[1], f[2]>> \notin left
                 PROVE  f[1] \in Active' /\ f[2] = stream'[f[1]].base
      BY <3>3 DEF NoStrayFiles
    <3>5. f[1] \in Active /\ f[2] = stream[f[1]].base
      BY <3>3, <3>4 DEF NoStrayFiles
    <3> QED BY <3>2, <3>5
  <2>6. CASE Restart
    <3>1. archive' = archive /\ closed' = closed
          /\ left' = left \cup {<<k, stream[k].base>> : k \in Active}
      BY <2>6 DEF Restart
    <3> QED BY <3>1 DEF NoStrayFiles
  <2>7. CASE \/ Tick \/ (\E c \in Camera : FrameWritten(c)) \/ CommitMessage \/ UNCHANGED vars
             \/ (\E e \in Event, final \in BOOLEAN : Publish(e, final))
    <3>1. UNCHANGED <<stream, archive, closed, left>>
      BY <2>7 DEF Tick, FrameWritten, CommitMessage, Publish, vars
    <3> QED BY <2>1, <3>1
  <2> QED BY <2>2, <2>3, <2>4, <2>5, <2>6, <2>7 DEF Next
<1> QED BY <1>1, <1>2, TypeCorrect, PTL DEF Spec

----------------------------------------------------------------------------
(* The open streams of a camera, and how many are left when some are over.      *)
Streams(c) == {k \in Active : CameraOf[k] = c}

LEMMA StreamsCounted ==
  ASSUME NEW c
  PROVE  IsFiniteSet(Streams(c)) /\ Cardinality(Streams(c)) \in Nat
<1>1. Streams(c) \in SUBSET Key
  BY DEF Streams, Active
<1>2. IsFiniteSet(Streams(c))
  BY <1>1, FS_Subset, EventAssumption
<1> QED BY <1>2, FS_CardinalityType

LEMMA StreamsOver ==
  ASSUME NEW S \in SUBSET Active, Active' = Active \ S, NEW c
  PROVE  Cardinality(Streams(c)') = Cardinality(Streams(c)) - ReleasedFor(c, S)
<1>1. Streams(c)' = Streams(c) \ {k \in S : CameraOf[k] = c}
  BY DEF Streams
<1>2. Streams(c) \cap {k \in S : CameraOf[k] = c} = {k \in S : CameraOf[k] = c}
  BY DEF Streams
<1> QED BY <1>1, <1>2, StreamsCounted, FS_Difference DEF ReleasedFor

(* Which streams are open after each handler. *)
LEMMA ActiveProcess ==
  ASSUME TypeOK, NEW e \in Event, NEW s \in Session, stream' = [stream EXCEPT ![KeyOf[e]] = s]
  PROVE  Active' = Active \cup {KeyOf[e]}
<1>1. KeyOf[e] \in Key /\ s # None
  BY EventAssumption, NoneAssumption
<1> QED BY <1>1 DEF TypeOK, Active

LEMMA ActiveWatch ==
  ASSUME TypeOK, NEW c, NEW ts \in Second, NEW S, Watched(c, ts, S)
  PROVE  Active' = Active
<1>1. \A k \in S : k \in Active /\ Copied(stream[k], {ts}) # None
  BY ActiveSession, CopiedType, NoneAssumption DEF Watched
<1> QED BY <1>1 DEF Watched, Active

LEMMA ActiveExpire ==
  ASSUME expireWaitingForEnd
  PROVE  Active' = Active \ Dropped /\ Dropped \in SUBSET Active
BY ExpireStep DEF Active, Dropped

LEMMA ActiveClose ==
  ASSUME TypeOK, NEW got, Closed(got)
  PROVE  Active' = Active \ Closing(got) /\ Closing(got) \in SUBSET Active
<1>1. \A k \in Due : CaughtUp(got, k) # None
  BY CaughtUpType, NoneAssumption
<1>2. Closing(got) \subseteq Due /\ Due \subseteq Active
  BY DEF Closing, Due
<1>3. stream' = [k \in Key |-> IF k \in Closing(got) THEN None
                               ELSE IF k \in Due THEN CaughtUp(got, k) ELSE stream[k]]
  BY DEF Closed
<1> QED BY <1>1, <1>2, <1>3 DEF Active

(* A camera's directory is watched for as many streams as have asked for it with *)
(* success and not given it back; without faults that is every open stream.      *)
THEOREM WatchesAlwaysBalanced == Spec => []WatchesBalanced
<1>0. WatchesBalanced <=> \A c \in Camera : /\ watchedDirs[c] <= Cardinality(Streams(c))
                                            /\ ~Faults => watchedDirs[c] = Cardinality(Streams(c))
                                            /\ c \in inotify <=> watchedDirs[c] > 0
  BY DEF WatchesBalanced, Streams
<1>1. Init => WatchesBalanced
  <2> SUFFICES ASSUME Init PROVE WatchesBalanced
    OBVIOUS
  <2>1. \A c \in Camera : Streams(c) = {}
    BY DEF Init, Streams, Active
  <2>2. \A c \in Camera : Cardinality(Streams(c)) = 0
    BY <2>1, FS_EmptySet
  <2> QED BY <1>0, <2>2 DEF Init
<1>2. TypeInv /\ WatchesBalanced /\ [Next]_vars => WatchesBalanced'
  <2> SUFFICES ASSUME TypeInv, WatchesBalanced, [Next]_vars PROVE WatchesBalanced'
    OBVIOUS
  <2> USE DEF kafkaVars, sessionVars, watchVars
  <2>0. TypeOK /\ \A c \in Camera : Cardinality(Streams(c)) \in Nat /\ watchedDirs[c] \in Nat
    BY StreamsCounted DEF TypeInv, TypeOK
  <2>1. ASSUME UNCHANGED <<Active, watchedDirs, inotify>> PROVE WatchesBalanced'
    BY <2>1 DEF WatchesBalanced
  <2>2. ASSUME NEW S \in SUBSET Active, Active' = Active \ S, releaseWatched(S)
        PROVE  WatchesBalanced'
    <3>1. S \in SUBSET Key
      BY DEF Active
    <3> SUFFICES ASSUME NEW c \in Camera
                 PROVE  /\ watchedDirs'[c] <= Cardinality(Streams(c)')
                        /\ ~Faults => watchedDirs'[c] = Cardinality(Streams(c)')
                        /\ c \in inotify' <=> watchedDirs'[c] > 0
      BY DEF WatchesBalanced, Streams
    <3>2. Cardinality(Streams(c)') = Cardinality(Streams(c)) - ReleasedFor(c, S)
      BY <2>2, StreamsOver
    <3>3. Cardinality(Streams(c)') \in Nat
      <4>1. Streams(c)' \subseteq Streams(c)
        BY <2>2 DEF Streams
      <4> QED BY <4>1, StreamsCounted, FS_Subset, FS_CardinalityType
    <3>4. ReleasedFor(c, S) \in Nat
      BY <3>1, Counted
    <3>5. /\ watchedDirs'[c] = (IF ReleasedFor(c, S) > 0 /\ watchedDirs[c] <= ReleasedFor(c, S)
                                THEN 0 ELSE watchedDirs[c] - ReleasedFor(c, S))
          /\ c \in inotify' <=> /\ c \in inotify
                                /\ ~(ReleasedFor(c, S) > 0 /\ watchedDirs[c] <= ReleasedFor(c, S))
      BY <2>0, <2>2, <3>1, ReleaseStep
    <3>6. /\ watchedDirs[c] <= Cardinality(Streams(c))
          /\ ~Faults => watchedDirs[c] = Cardinality(Streams(c))
          /\ c \in inotify <=> watchedDirs[c] > 0
      BY <1>0
    <3> QED BY <2>0, <3>2, <3>3, <3>4, <3>5, <3>6
  <2>3. CASE Consume
    <3>1. PICK e \in Event, final \in BOOLEAN :
            /\ processMessage(e, final)
            /\ StartOf[e] <= now /\ (final => EndOf[e] <= now)
      BY <2>3, MessageInHand
    <3> DEFINE k == KeyOf[e]
    <3>2. CASE stream[k] # None /\ Merge(e, final)
      <4>1. PICK s \in Session, S \in SUBSET Second : Merged(e, final, s, S)
        BY <2>0, <3>1, <3>2, MergeStep
      <4>2. Active' = Active \cup {k}
        BY <2>0, <4>1, ActiveProcess DEF Merged
      <4>3. k \in Active
        BY <3>2, EventAssumption DEF Active
      <4>4. UNCHANGED <<watchedDirs, inotify>>
        BY <2>0, <3>1, <3>2, MergeStep
      <4> QED BY <2>1, <4>2, <4>3, <4>4
    <3>3. CASE stream[k] = None /\ Open(e, final)
      <4>1. PICK s \in Session : Opened(e, final, s)
        BY <2>0, <3>1, <3>3, OpenStep
      <4>2. Active' = Active \cup {k} /\ ensureWatched(CameraOf[k])
        BY <2>0, <4>1, ActiveProcess DEF Opened
      <4>3. k \notin Active /\ CameraOf[k] \in Camera
        BY <3>3, EventAssumption DEF Active
      <4> SUFFICES ASSUME NEW c \in Camera
                   PROVE  /\ watchedDirs'[c] <= Cardinality(Streams(c)')
                          /\ ~Faults => watchedDirs'[c] = Cardinality(Streams(c)')
                          /\ c \in inotify' <=> watchedDirs'[c] > 0
        BY DEF WatchesBalanced, Streams
      <4>4. /\ watchedDirs[c] <= Cardinality(Streams(c))
            /\ ~Faults => watchedDirs[c] = Cardinality(Streams(c))
            /\ c \in inotify <=> watchedDirs[c] > 0
        BY <1>0
      <4>5. CASE c = CameraOf[k]
        <5>1. Streams(c)' = Streams(c) \cup {k} /\ k \notin Streams(c)
          BY <4>2, <4>3, <4>5 DEF Streams
        <5>2. Cardinality(Streams(c)') = Cardinality(Streams(c)) + 1
          BY <5>1, StreamsCounted, FS_AddElement
        <5>3. \/ /\ watchedDirs'[c] = watchedDirs[c] + 1
                 /\ inotify' = IF watchedDirs[c] = 0 THEN inotify \cup {c} ELSE inotify
              \/ Faults /\ watchedDirs[c] = 0 /\ UNCHANGED <<watchedDirs, inotify>>
          BY <2>0, <4>2, <4>5 DEF ensureWatched, TypeOK
        <5> QED BY <2>0, <4>4, <5>2, <5>3
      <4>6. CASE c # CameraOf[k]
        <5>1. Streams(c)' = Streams(c)
          BY <4>2, <4>6 DEF Streams
        <5>2. watchedDirs'[c] = watchedDirs[c] /\ (c \in inotify' <=> c \in inotify)
          BY <2>0, <4>2, <4>6 DEF ensureWatched, TypeOK
        <5> QED BY <4>4, <5>1, <5>2
      <4> QED BY <4>5, <4>6
    <3>4. CASE UNCHANGED <<stream, watchedDirs, inotify>>
      BY <2>1, <3>4 DEF Active
    <3> QED BY <3>1, <3>2, <3>3, <3>4 DEF processMessage
  <2>4. CASE HandleCreated
    <3>1. PICK S : Watched(created[1][1], created[1][2], S)
      BY <2>0, <2>4, WatchStep
    <3>2. created[1][2] \in Second
      BY <2>0, <2>4, WatchStep
    <3>3. Active' = Active
      BY <2>0, <3>1, <3>2, ActiveWatch
    <3> QED BY <2>1, <2>4, <3>3 DEF HandleCreated
  <2>5. CASE expireWaitingForEnd
    BY <2>2, <2>5, ExpireStep, ActiveExpire
  <2>6. CASE closeCompletedStreams
    <3>1. PICK got : Closed(got)
      BY <2>6, CloseStep
    <3>2. releaseWatched(Closing(got))
      BY <3>1 DEF Closed
    <3> QED BY <2>0, <2>2, <3>1, <3>2, ActiveClose
  <2>7. CASE Restart
    <3>1. /\ Active' = {} /\ inotify' = {} /\ \A c \in Camera : watchedDirs'[c] = 0
      BY <2>7 DEF Restart, Active
    <3>2. \A c \in Camera : Streams(c)' = {}
      BY <3>1 DEF Streams
    <3>3. \A c \in Camera : Cardinality(Streams(c)') = 0
      BY <3>2, FS_EmptySet
    <3> QED BY <3>1, <3>3 DEF WatchesBalanced, Streams
  <2>8. CASE \/ Tick \/ (\E c \in Camera : FrameWritten(c)) \/ CommitMessage \/ UNCHANGED vars
             \/ (\E e \in Event, final \in BOOLEAN : Publish(e, final))
    <3>1. UNCHANGED <<stream, watchedDirs, inotify>>
      BY <2>8 DEF Tick, FrameWritten, CommitMessage, Publish, vars
    <3> QED BY <2>1, <3>1 DEF Active
  <2> QED BY <2>3, <2>4, <2>5, <2>6, <2>7, <2>8 DEF Next
<1> QED BY <1>1, <1>2, TypeCorrect, PTL DEF Spec

----------------------------------------------------------------------------
(* A frame of the window of a session, which is open to the end as long as the   *)
(* session has no end; and a frame whose creation the watcher has still to handle.*)
InRange(s, ts) ==
  s.start - LeadSeconds <= ts /\ (s.end # NoEnd => ts <= s.end + TrailSeconds)
Pending(c, ts) == \E i \in DOMAIN created : created[i] = <<c, ts>>

(* The watcher gets the creations of a camera's frames in the order of their     *)
(* seconds, and every frame that is reported is there.                           *)
QueueInv ==
  /\ \A f \in source : f[2] <= now
  /\ \A i \in DOMAIN created : created[i] \in source
  /\ \A i, j \in DOMAIN created :
       i < j /\ created[i][1] = created[j][1] => created[i][2] < created[j][2]

(* The events of an open stream are none of a closed one; its directory is named *)
(* by the start of one of them; the copy delay is counted from the end of its    *)
(* window.                                                                       *)
WindowInv(k) ==
  LET s == stream[k]
  IN /\ s.copyAfter = (IF s.end = NoEnd THEN 0 ELSE s.end + TrailSeconds + CopyDelaySeconds)
     /\ \A i \in DOMAIN s.ids : KeyOf[s.ids[i]] = k /\ s.ids[i] \notin done
     /\ \E i \in DOMAIN s.ids : StartOf[s.ids[i]] = s.base

(* In a session that was not moved, what it takes for copied is in its directory; *)
(* every frame of its window is copied or pending; and no frame is copied before  *)
(* an older one of the window.                                                    *)
CopyInv(k) ==
  LET s == stream[k]
      Written(ts) == <<CameraOf[k], ts>> \in source
  IN /\ \A ts \in s.copied : Written(ts)
     /\ ~s.moved =>
          /\ \A ts \in s.copied : <<k, s.base, ts>> \in archive
          /\ \A ts \in Second : Written(ts) /\ InRange(s, ts) =>
               ts \in s.copied \/ Pending(CameraOf[k], ts)
          /\ \A ts \in s.copied, u \in Second :
               u < ts /\ Written(u) /\ InRange(s, u) => u \in s.copied

(* What this run has closed is over, and its events are done: one of them has     *)
(* given the directory its name.                                                 *)
DoneInv ==
  \A c \in closed :
    /\ c.run \in Nat /\ c.run <= restarts
    /\ c.run = restarts => \E e \in done : KeyOf[e] = c.key /\ StartOf[e] = c.base
ClosedInv ==
  /\ DoneInv
  /\ \A c \in closed : c.to \in Int /\ (c.run = restarts => c.to < now)

WindowsInv == \A k \in Active : WindowInv(k)
CopiesInv == \A k \in Active : CopyInv(k)

LEMMA QueueStep ==
  ASSUME TypeInv, QueueInv, [Next]_vars
  PROVE  QueueInv'
<1> USE DEF kafkaVars, sessionVars, watchVars
<1>0. TypeOK
  BY DEF TypeInv
<1>1. CASE Tick
  BY <1>0, <1>1 DEF Tick, QueueInv, TypeOK, Second
<1>2. ASSUME NEW c \in Camera, FrameWritten(c) PROVE QueueInv'
  <2>1. \A f \in source' : f[2] <= now'
    BY <1>0, <1>2 DEF FrameWritten, QueueInv, TypeOK, Second
  <2>2. CASE created' = created
    BY <1>2, <2>1, <2>2 DEF FrameWritten, QueueInv
  <2>3. CASE created' = Append(created, <<c, now>>)
    <3> DEFINE n == Len(created)
               f == <<c, now>>
    <3>1. /\ n \in Nat /\ DOMAIN created = 1..n /\ DOMAIN created' = 1..(n + 1)
          /\ created'[n + 1] = f /\ \A i \in 1..n : created'[i] = created[i]
      BY <1>0, <2>3 DEF TypeOK
    <3>2. \A i \in 1..n : created[i] \in source /\ created[i] \in Camera \X Second
      BY <1>0, <3>1 DEF QueueInv, TypeOK
    <3>3. f \notin source /\ f \in source' /\ source \subseteq source'
      BY <1>2 DEF FrameWritten
    <3>4. ASSUME NEW i \in 1..n, created[i][1] = c PROVE created[i][2] < now
      <4>1. created[i] = <<c, created[i][2]>> /\ created[i][2] \in Second
        BY <3>2, <3>4
      <4>2. created[i][2] <= now /\ created[i][2] # now
        BY <3>2, <3>3, <4>1 DEF QueueInv
      <4> QED BY <1>0, <4>1, <4>2 DEF TypeOK, Second
    <3>5. ASSUME NEW i \in DOMAIN created', NEW j \in DOMAIN created',
                 i < j, created'[i][1] = created'[j][1]
          PROVE  created'[i][2] < created'[j][2]
      <4>1. i \in 1..n
        BY <3>1, <3>5
      <4>2. CASE j \in 1..n
        BY <3>1, <3>5, <4>1, <4>2 DEF QueueInv
      <4>3. CASE j = n + 1
        <5>1. created'[j][1] = c /\ created'[j][2] = now
          BY <3>1, <4>3
        <5> QED BY <3>1, <3>4, <3>5, <4>1, <5>1
      <4> QED BY <3>1, <4>2, <4>3
    <3>6. ASSUME NEW i \in DOMAIN created' PROVE created'[i] \in source'
      <4>1. CASE i \in 1..n
        BY <3>1, <3>2, <3>3, <4>1
      <4>2. CASE i = n + 1
        BY <3>1, <3>3, <4>2
      <4> QED BY <3>1, <4>1, <4>2
    <3> QED BY <2>1, <3>5, <3>6 DEF QueueInv
  <2> QED BY <1>2, <2>2, <2>3 DEF FrameWritten
<1>3. CASE HandleCreated
  <2>1. /\ Len(created) \in Nat /\ Len(created) > 0 /\ created' = Tail(created)
        /\ created \in Seq(Camera \X Second)
    BY <1>0, <1>3, WatchStep DEF HandleCreated, TypeOK
  <2>2. /\ DOMAIN created = 1..Len(created) /\ DOMAIN created' = 1..(Len(created) - 1)
        /\ \A i \in DOMAIN created' : created'[i] = created[i + 1] /\ i + 1 \in DOMAIN created
    BY <2>1
  <2>3. UNCHANGED <<source, now>>
    BY <1>3 DEF HandleCreated
  <2> QED BY <2>2, <2>3 DEF QueueInv
<1>4. CASE Restart
  BY <1>4 DEF Restart, QueueInv
<1>5. CASE Consume \/ CommitMessage \/ UNCHANGED vars
           \/ (\E e \in Event, final \in BOOLEAN : Publish(e, final))
  <2>1. UNCHANGED <<created, source, now>>
    BY <1>5 DEF Consume, CommitMessage, Publish, vars
  <2> QED BY <2>1 DEF QueueInv
<1>6. CASE expireWaitingForEnd \/ closeCompletedStreams
  <2>1. UNCHANGED <<created, source, now>>
    BY <1>6 DEF expireWaitingForEnd, closeCompletedStreams
  <2> QED BY <2>1 DEF QueueInv
<1> QED BY <1>1, <1>2, <1>3, <1>4, <1>5, <1>6 DEF Next

(* A sequence with one more element at its end. *)
LEMMA AppendFields ==
  ASSUME NEW T, NEW t \in Seq(T), NEW x \in T, NEW u, u = Append(t, x)
  PROVE  /\ Len(t) \in Nat /\ Len(t) + 1 \in DOMAIN u /\ u[Len(t) + 1] = x
         /\ \A i \in DOMAIN t : i \in DOMAIN u /\ u[i] = t[i]
         /\ \A i \in DOMAIN u : i \in DOMAIN t \/ i = Len(t) + 1
<1>1. /\ Len(t) \in Nat /\ DOMAIN t = 1..Len(t)
      /\ DOMAIN u = 1..(Len(t) + 1) /\ u[Len(t) + 1] = x
  OBVIOUS
<1>2. ASSUME NEW i \in 1..Len(t) PROVE u[i] = t[i]
  BY <1>2
<1> QED BY <1>1, <1>2

(* Merging and opening keep the events of a stream together, and away from those *)
(* that are done.                                                                *)
LEMMA MergedWindow ==
  ASSUME TypeOK, NEW e \in Event \ done, NEW final \in BOOLEAN, KeyOf[e] \in Active,
         WindowInv(KeyOf[e]), NEW s \in Session, NEW S \in SUBSET Second,
         Merged(e, final, s, S), done' = done
  PROVE  WindowInv(KeyOf[e])'
<1> DEFINE k == KeyOf[e]
           old == stream[k]
<1>1. old \in Session /\ k \in Key /\ stream'[k] = s
  BY ActiveSession, EventAssumption DEF Merged, TypeOK
<1>2. /\ old.end \in Second /\ old.copyAfter \in Nat
      /\ EndOf[e] \in Nat /\ EndOf[e] > 0
      /\ TrailSeconds \in Nat /\ CopyDelaySeconds \in Nat
  BY <1>1, SessionFields, EventAssumption, SettingAssumption
<1>3. s.copyAfter = IF s.end = NoEnd THEN 0 ELSE s.end + TrailSeconds + CopyDelaySeconds
  <2>1. old.copyAfter = IF old.end = NoEnd THEN 0 ELSE old.end + TrailSeconds + CopyDelaySeconds
    BY DEF WindowInv
  <2>2. CASE final
    <3>1. /\ s.end = Larger(old.end, EndOf[e])
          /\ s.copyAfter = Larger(old.copyAfter, EndOf[e] + TrailSeconds + CopyDelaySeconds)
      BY <2>2 DEF Merged, copyAfter
    <3> QED BY <1>2, <2>1, <3>1 DEF Larger, NoEnd, Second
  <2>3. CASE ~final
    BY <2>1, <2>3 DEF Merged
  <2> QED BY <2>2, <2>3
<1>4. /\ s.ids = Append(old.ids, e) /\ old.ids \in Seq(Event)
      /\ s.base = IF Moves(e) THEN StartOf[e] ELSE old.base
  BY <1>1, SessionFields DEF Merged
<1>5. /\ Len(old.ids) + 1 \in DOMAIN s.ids /\ s.ids[Len(old.ids) + 1] = e
      /\ \A i \in DOMAIN old.ids : i \in DOMAIN s.ids /\ s.ids[i] = old.ids[i]
      /\ \A i \in DOMAIN s.ids : i \in DOMAIN old.ids \/ i = Len(old.ids) + 1
  BY <1>4, AppendFields
<1>6. ASSUME NEW i \in DOMAIN s.ids PROVE KeyOf[s.ids[i]] = k /\ s.ids[i] \notin done
  <2>1. CASE i \in DOMAIN old.ids
    <3>1. KeyOf[old.ids[i]] = k /\ old.ids[i] \notin done
      BY <2>1 DEF WindowInv
    <3> QED BY <1>5, <2>1, <3>1
  <2>2. CASE i = Len(old.ids) + 1
    BY <1>5, <2>2
  <2> QED BY <1>5, <2>1, <2>2
<1>7. \E i \in DOMAIN s.ids : StartOf[s.ids[i]] = s.base
  <2>1. PICK i \in DOMAIN old.ids : StartOf[old.ids[i]] = old.base
    BY DEF WindowInv
  <2>2. CASE Moves(e)
    BY <1>4, <1>5, <2>2
  <2>3. CASE ~Moves(e)
    <3>1. i \in DOMAIN s.ids /\ s.ids[i] = old.ids[i]
      BY <1>5, <2>1
    <3>2. s.base = old.base
      BY <1>4, <2>3
    <3> QED BY <2>1, <3>1, <3>2, Zenon
  <2> QED BY <2>2, <2>3
<1> QED BY <1>1, <1>3, <1>6, <1>7, Zenon DEF WindowInv

LEMMA OpenedWindow ==
  ASSUME TypeOK, NEW e \in Event \ done, NEW final \in BOOLEAN,
         NEW s \in Session, Opened(e, final, s), done' = done
  PROVE  WindowInv(KeyOf[e])'
<1>1. stream'[KeyOf[e]] = s
  BY EventAssumption DEF Opened, TypeOK
<1>2. s.copyAfter = IF s.end = NoEnd THEN 0 ELSE s.end + TrailSeconds + CopyDelaySeconds
  BY EventAssumption DEF Opened, copyAfter, NoEnd
<1>3. s.ids = <<e>> /\ s.base = StartOf[e]
  BY DEF Opened
<1>4. DOMAIN s.ids = {1} /\ s.ids[1] = e
  BY <1>3
<1> QED BY <1>1, <1>2, <1>3, <1>4 DEF WindowInv

LEMMA KeptWindow ==
  ASSUME NEW k, WindowInv(k), stream'[k].end = stream[k].end,
         stream'[k].copyAfter = stream[k].copyAfter, stream'[k].base = stream[k].base,
         stream'[k].ids = stream[k].ids,
         \A i \in DOMAIN stream[k].ids : stream[k].ids[i] \in done' => stream[k].ids[i] \in done
  PROVE  WindowInv(k)'
BY DEF WindowInv

LEMMA WindowsStep ==
  ASSUME TypeInv, WindowsInv, [Next]_vars
  PROVE  WindowsInv'
<1> USE DEF kafkaVars, sessionVars, watchVars
<1>0. TypeOK
  BY DEF TypeInv
<1>1. ASSUME UNCHANGED <<stream, done>> PROVE WindowsInv'
  BY <1>1 DEF WindowsInv, WindowInv, Active
<1>2. CASE Consume
  <2>1. PICK e \in Event, final \in BOOLEAN :
          /\ processMessage(e, final)
          /\ StartOf[e] <= now /\ (final => EndOf[e] <= now)
    BY <1>2, MessageInHand
  <2> DEFINE k == KeyOf[e]
  <2>2. ASSUME NEW s \in Session, stream' = [stream EXCEPT ![k] = s], done' = done,
               WindowInv(k)'
        PROVE  WindowsInv'
    <3> SUFFICES ASSUME NEW j \in Active' PROVE WindowInv(j)'
      BY DEF WindowsInv
    <3>1. Active' = Active \cup {k}
      BY <1>0, <2>2, ActiveProcess
    <3>2. CASE j = k
      BY <2>2, <3>2
    <3>3. CASE j # k
      <4>1. j \in Active /\ stream'[j] = stream[j]
        BY <1>0, <2>2, <3>1, <3>3 DEF TypeOK, Active
      <4>2. WindowInv(j)
        BY <4>1 DEF WindowsInv
      <4> QED BY <2>2, <4>1, <4>2, KeptWindow
    <3> QED BY <3>2, <3>3
  <2>3. CASE e \notin done /\ done' = done /\ stream[k] # None /\ Merge(e, final)
    <3>1. PICK s \in Session, S \in SUBSET Second : Merged(e, final, s, S)
      BY <1>0, <2>1, <2>3, MergeStep
    <3>2. k \in Active /\ WindowInv(k)
      BY <2>3, EventAssumption DEF Active, WindowsInv
    <3>3. WindowInv(k)'
      BY <1>0, <2>3, <3>1, <3>2, MergedWindow
    <3>4. stream' = [stream EXCEPT ![k] = s]
      BY <3>1 DEF Merged
    <3> QED BY <2>2, <2>3, <3>3, <3>4
  <2>4. CASE e \notin done /\ done' = done /\ stream[k] = None /\ Open(e, final)
    <3>1. PICK s \in Session : Opened(e, final, s)
      BY <1>0, <2>1, <2>4, OpenStep
    <3>2. WindowInv(k)'
      BY <1>0, <2>4, <3>1, OpenedWindow
    <3>3. stream' = [stream EXCEPT ![k] = s]
      BY <3>1 DEF Opened
    <3> QED BY <2>2, <2>4, <3>2, <3>3
  <2>5. CASE UNCHANGED <<stream, done>>
    BY <1>1, <2>5
  <2> QED BY <2>1, <2>3, <2>4, <2>5 DEF processMessage
<1>3. CASE HandleCreated
  <2>1. PICK S : Watched(created[1][1], created[1][2], S)
    BY <1>0, <1>3, WatchStep
  <2> DEFINE ts == created[1][2]
  <2>2. ts \in Second /\ done' = done
    BY <1>0, <1>3, WatchStep DEF HandleCreated
  <2> SUFFICES ASSUME NEW k \in Active' PROVE WindowInv(k)'
    BY DEF WindowsInv
  <2>3. k \in Active /\ k \in Key /\ stream[k] \in Session
    BY <1>0, <2>1, <2>2, ActiveWatch, ActiveSession
  <2>4. stream'[k] = stream[k] \/ stream'[k] = Copied(stream[k], {ts})
    BY <2>1, <2>3 DEF Watched
  <2>5. /\ stream'[k].end = stream[k].end /\ stream'[k].copyAfter = stream[k].copyAfter
        /\ stream'[k].base = stream[k].base /\ stream'[k].ids = stream[k].ids
    BY <2>2, <2>3, <2>4, CopiedType
  <2> QED BY <2>2, <2>3, <2>5, KeptWindow DEF WindowsInv
<1>4. CASE expireWaitingForEnd
  <2> SUFFICES ASSUME NEW k \in Active' PROVE WindowInv(k)'
    BY DEF WindowsInv
  <2>1. k \in Active /\ stream'[k] = stream[k] /\ done' = done
    BY <1>4, ActiveExpire, ExpireStep DEF Active
  <2> QED BY <2>1, KeptWindow DEF WindowsInv
<1>5. CASE closeCompletedStreams
  <2>1. PICK got : Closed(got)
    BY <1>5, CloseStep
  <2> SUFFICES ASSUME NEW k \in Active' PROVE WindowInv(k)'
    BY DEF WindowsInv
  <2>2. k \in Active /\ k \notin Closing(got) /\ k \in Key /\ Closing(got) \subseteq Active
    BY <1>0, <2>1, ActiveClose DEF Active
  <2>3. stream'[k] = IF k \in Due THEN CaughtUp(got, k) ELSE stream[k]
    BY <2>1, <2>2 DEF Closed
  <2>4. /\ stream'[k].end = stream[k].end /\ stream'[k].copyAfter = stream[k].copyAfter
        /\ stream'[k].base = stream[k].base /\ stream'[k].ids = stream[k].ids
    BY <1>0, <2>1, <2>3, CaughtUpType
  <2>5. ASSUME NEW i \in DOMAIN stream[k].ids, stream[k].ids[i] \in done'
        PROVE  stream[k].ids[i] \in done
    <3>1. KeyOf[stream[k].ids[i]] = k
      BY <2>2, <2>5 DEF WindowsInv, WindowInv
    <3>2. ASSUME NEW j \in Closing(got), NEW n \in DOMAIN stream[j].ids
          PROVE  stream[j].ids[n] # stream[k].ids[i]
      <4>1. KeyOf[stream[j].ids[n]] = j
        BY <2>2, <3>2 DEF WindowsInv, WindowInv
      <4> QED BY <2>2, <3>1, <4>1
    <3>3. done' = done \cup UNION {{stream[j].ids[n] : n \in DOMAIN stream[j].ids} :
                                     j \in Closing(got)}
      BY <2>1 DEF Closed
    <3> QED BY <2>5, <3>2, <3>3
  <2> QED BY <2>2, <2>4, <2>5, KeptWindow DEF WindowsInv
<1>6. CASE Restart
  BY <1>6 DEF Restart, WindowsInv, Active
<1>7. CASE \/ Tick \/ (\E c \in Camera : FrameWritten(c)) \/ CommitMessage \/ UNCHANGED vars
           \/ (\E e \in Event, final \in BOOLEAN : Publish(e, final))
  <2>1. UNCHANGED <<stream, done>>
    BY <1>7 DEF Tick, FrameWritten, CommitMessage, Publish, vars
  <2> QED BY <1>1, <2>1
<1> QED BY <1>2, <1>3, <1>4, <1>5, <1>6, <1>7 DEF Next

----------------------------------------------------------------------------
(* Without faults every frame is copied by someone: what a catch-up leaves, the  *)
(* watcher gets.                                                                 *)
LEMMA KeptCopies ==
  ASSUME NEW k \in Key, CopyInv(k), stream'[k] = stream[k], UNCHANGED <<source, created>>,
         \A b, ts \in Second : <<k, b, ts>> \in archive => <<k, b, ts>> \in archive',
         stream[k] \in Session
  PROVE  CopyInv(k)'
<1>1. stream[k].base \in Second /\ stream[k].copied \subseteq Second
  BY SessionFields
<1> QED BY <1>1 DEF CopyInv, Pending

LEMMA FullCopies ==
  ASSUME NEW k, \A ts \in stream'[k].copied : <<CameraOf[k], ts>> \in source',
         ~stream'[k].moved => /\ \A ts \in stream'[k].copied :
                                   <<k, stream'[k].base, ts>> \in archive'
                              /\ \A ts \in Second :
                                   <<CameraOf[k], ts>> \in source' /\ InRange(stream'[k], ts) =>
                                     ts \in stream'[k].copied
  PROVE  CopyInv(k)'
BY DEF CopyInv

(* The window of a catch-up takes in every frame of the session's that there is. *)
LEMMA RangeInWindow ==
  ASSUME TypeOK, NEW s \in Session, NEW ts \in Second, InRange(s, ts), ts <= now,
         NEW ahead \in Nat
  PROVE  InWindow(s, ts, ahead)
BY SessionFields, SettingAssumption DEF InRange, InWindow, ToSec, TypeOK, Second

LEMMA MergedCopies ==
  ASSUME TypeOK, QueueInv, ~Faults, NEW e \in Event, NEW final \in BOOLEAN, KeyOf[e] \in Active,
         CopyInv(KeyOf[e]), NEW s \in Session, NEW S \in SUBSET Second,
         Merged(e, final, s, S), UNCHANGED <<source, created>>
  PROVE  CopyInv(KeyOf[e])'
<1> DEFINE k == KeyOf[e]
           old == stream[k]
<1>1. old \in Session /\ k \in Key /\ stream'[k] = s
  BY ActiveSession, EventAssumption DEF Merged, TypeOK
<1>2. \A ts \in s.copied : <<CameraOf[k], ts>> \in source
  BY DEF Merged, CopyInv
<1>3. CASE s.moved
  BY <1>1, <1>2, <1>3, FullCopies
<1>4. CASE ~s.moved
  <2>1. /\ ~Moves(e) /\ ~old.moved /\ s.base = old.base /\ s.start = old.start
        /\ s.copied = old.copied \cup S /\ archive' = archive \cup Files(k, s.base, S)
    BY <1>1, <1>4, SessionFields DEF Merged
  <2>2. \A ts \in s.copied : <<k, s.base, ts>> \in archive'
    BY <2>1 DEF Files, CopyInv
  <2>3. CASE final
    <3>1. ASSUME NEW ts \in Second, <<CameraOf[k], ts>> \in source, InRange(s, ts)
          PROVE  ts \in s.copied
      <4>1. ts <= now
        BY <3>1 DEF QueueInv
      <4>2. InWindow(s, ts, 5)
        BY <3>1, <4>1, RangeInWindow
      <4> QED BY <2>3, <3>1, <4>2 DEF Merged
    <3> QED BY <1>1, <1>2, <2>2, <3>1, FullCopies
  <2>4. CASE ~final
    <3>1. s.copied = old.copied /\ s.end = old.end
      BY <2>1, <2>4 DEF Merged
    <3> QED BY <1>1, <1>2, <2>1, <2>2, <3>1 DEF CopyInv, InRange, Pending
  <2> QED BY <2>3, <2>4
<1> QED BY <1>3, <1>4

LEMMA OpenedCopies ==
  ASSUME TypeOK, QueueInv, ~Faults, NEW e \in Event, NEW final \in BOOLEAN,
         NEW s \in Session, Opened(e, final, s), UNCHANGED source
  PROVE  CopyInv(KeyOf[e])'
<1>1. stream'[KeyOf[e]] = s
  BY EventAssumption DEF Opened, TypeOK
<1>2. ASSUME NEW ts \in Second, <<CameraOf[KeyOf[e]], ts>> \in source, InRange(s, ts)
      PROVE  ts \in s.copied
  <2>1. ts <= now
    BY <1>2 DEF QueueInv
  <2>2. InWindow(s, ts, 5)
    BY <1>2, <2>1, RangeInWindow
  <2> QED BY <1>2, <2>2 DEF Opened
<1> QED BY <1>1, <1>2, FullCopies DEF Opened, Files

(* The watcher's next frame is the oldest of its camera's, so it leaves no older *)
(* one of a window behind.                                                       *)
LEMMA WatchedCopies ==
  ASSUME TypeOK, QueueInv, ~Faults, HandleCreated, NEW k \in Active, CopyInv(k),
         NEW c \in Camera, NEW ts \in Second, created[1] = <<c, ts>>,
         NEW S, Watched(c, ts, S)
  PROVE  CopyInv(k)'
<1> DEFINE old == stream[k]
           new == stream'[k]
<1>1. /\ Len(created) \in Nat /\ Len(created) > 0
      /\ created' = Tail(created) /\ source' = source
      /\ created \in Seq(Camera \X Second)
  BY WatchStep DEF HandleCreated, TypeOK
<1>2. k \in Key /\ old \in Session
  BY ActiveSession
<1>3. new = IF k \in S THEN Copied(old, {ts}) ELSE old
  BY <1>2 DEF Watched
<1>4. /\ \A u \in old.copied : <<CameraOf[k], u>> \in source
      /\ ~old.moved =>
           /\ \A u \in old.copied : <<k, old.base, u>> \in archive
           /\ \A u \in Second : <<CameraOf[k], u>> \in source /\ InRange(old, u) =>
                u \in old.copied \/ Pending(CameraOf[k], u)
           /\ \A t \in old.copied, u \in Second :
                u < t /\ <<CameraOf[k], u>> \in source /\ InRange(old, u) => u \in old.copied
  BY DEF CopyInv
<1>5. /\ archive' = archive \cup {<<j, stream[j].base, ts>> : j \in S}
      /\ k \in S => CameraOf[k] = c /\ <<k, old.base, ts>> \in archive'
      /\ CameraOf[k] = c /\ InWindow(old, ts, 60) => k \in S \/ ts \in old.copied
  BY DEF Watched
<1>6. SUFFICES
        /\ \A u \in new.copied : <<CameraOf[k], u>> \in source
        /\ ~new.moved =>
             /\ \A u \in new.copied : <<k, new.base, u>> \in archive'
             /\ \A u \in Second : <<CameraOf[k], u>> \in source /\ InRange(new, u) =>
                  u \in new.copied \/ Pending(CameraOf[k], u)'
             /\ \A t \in new.copied, u \in Second :
                  u < t /\ <<CameraOf[k], u>> \in source /\ InRange(new, u) => u \in new.copied
  BY <1>1 DEF CopyInv
<1> HIDE DEF old, new
<1>7. /\ new.start = old.start /\ new.end = old.end /\ new.base = old.base
      /\ new.moved = old.moved
      /\ new.copied = IF k \in S THEN old.copied \cup {ts} ELSE old.copied
  <2>1. CASE k \in S
    BY <1>2, <1>3, <2>1, CopiedType
  <2>2. CASE k \notin S
    BY <1>3, <2>2
  <2> QED BY <2>1, <2>2
<1>8. /\ DOMAIN created = 1..Len(created) /\ DOMAIN created' = 1..(Len(created) - 1)
      /\ 1 \in DOMAIN created
      /\ \A i \in DOMAIN created : i = 1 \/ (i - 1 \in DOMAIN created' /\ created'[i - 1] = created[i])
  BY <1>1
<1>9. <<c, ts>> \in source /\ ts <= now
  <2>1. <<c, ts>> \in source
    BY <1>8 DEF QueueInv
  <2> QED BY <2>1 DEF QueueInv
<1>10. \A u \in new.copied : <<CameraOf[k], u>> \in source
  BY <1>4, <1>5, <1>7, <1>9
<1>11. ASSUME ~old.moved, NEW u \in new.copied
       PROVE  <<k, new.base, u>> \in archive'
  BY <1>4, <1>5, <1>7, <1>11
<1>12. ASSUME ~old.moved, NEW u \in Second, <<CameraOf[k], u>> \in source, InRange(old, u)
       PROVE  u \in new.copied \/ Pending(CameraOf[k], u)'
  <2>1. CASE u \in old.copied
    BY <1>7, <2>1
  <2>2. CASE u \notin old.copied
    <3>1. PICK i \in DOMAIN created : created[i] = <<CameraOf[k], u>>
      BY <1>4, <1>12, <2>2 DEF Pending
    <3>2. CASE i = 1
      <4>1. CameraOf[k] = c /\ u = ts
        BY <3>1, <3>2
      <4>2. InWindow(old, ts, 60)
        BY <1>2, <1>9, <1>12, <4>1, RangeInWindow
      <4> QED BY <1>5, <1>7, <4>1, <4>2
    <3>3. CASE i # 1
      BY <1>8, <3>1, <3>3 DEF Pending
    <3> QED BY <3>2, <3>3
  <2> QED BY <2>1, <2>2
<1>13. ASSUME ~old.moved, NEW t \in new.copied, NEW u \in Second, u < t,
              <<CameraOf[k], u>> \in source, InRange(old, u)
       PROVE  u \in new.copied
  <2>1. CASE t \in old.copied
    BY <1>4, <1>7, <1>13, <2>1
  <2>2. CASE t \notin old.copied
    <3>1. t = ts /\ CameraOf[k] = c
      BY <1>5, <1>7, <2>2
    <3>2. SUFFICES ASSUME u \notin old.copied PROVE FALSE
      BY <1>7
    <3>3. PICK i \in DOMAIN created : created[i] = <<c, u>>
      BY <1>4, <1>13, <3>1, <3>2 DEF Pending
    <3>4. i # 1 /\ i \in Nat /\ i >= 1
      <4>1. <<c, ts>> # <<c, u>>
        BY <1>13, <3>1 DEF Second
      <4> QED BY <1>1, <1>8, <3>3, <4>1
    <3>5. created[1][2] < created[i][2]
      <4>1. 1 < i /\ created[1][1] = created[i][1]
        BY <3>3, <3>4
      <4> QED BY <1>8, <4>1 DEF QueueInv
    <3> QED BY <1>13, <3>1, <3>3, <3>5 DEF Second
  <2> QED BY <2>1, <2>2
<1> QED BY <1>7, <1>10, <1>11, <1>12, <1>13 DEF InRange

(* A tick of the worker copies all that is there of the streams it finds lagging. *)
LEMMA CaughtUpCopies ==
  ASSUME TypeOK, QueueInv, ~Faults, NEW got, Closed(got), NEW k \in Active \ Closing(got),
         CopyInv(k), UNCHANGED <<source, created>>
  PROVE  CopyInv(k)'
<1>1. k \in Key /\ stream[k] \in Session
  BY ActiveSession
<1>2. /\ stream'[k] = IF k \in Due THEN CaughtUp(got, k) ELSE stream[k]
      /\ archive' = archive \cup UNION {Files(j, stream[j].base, got[j]) : j \in Lagging}
  BY <1>1 DEF Closed
<1>3. CASE k \in Lagging
  <2> DEFINE old == stream[k]
             new == stream'[k]
  <2>1. k \in Due
    BY <1>3 DEF Lagging
  <2>2. /\ new.start = old.start /\ new.end = old.end /\ new.base = old.base
        /\ new.moved = old.moved /\ new.copied = old.copied \cup Missing(old, k)
    BY <1>2, <1>3, <2>1, CaughtUpType DEF Closed
  <2>3. got[k] = Missing(old, k)
    BY <1>3 DEF Closed
  <2>4. \A ts \in new.copied : <<CameraOf[k], ts>> \in source'
    BY <2>2 DEF CopyInv, Missing
  <2>5. ASSUME ~new.moved, NEW ts \in new.copied PROVE <<k, new.base, ts>> \in archive'
    <3>1. CASE ts \in old.copied
      BY <1>2, <2>2, <2>5, <3>1 DEF CopyInv
    <3>2. CASE ts \in Missing(old, k)
      <4>1. <<k, old.base, ts>> \in Files(k, old.base, got[k])
        BY <2>3, <3>2 DEF Files
      <4> QED BY <1>2, <1>3, <2>2, <4>1
    <3> QED BY <2>2, <2>5, <3>1, <3>2
  <2>6. ASSUME NEW ts \in Second, <<CameraOf[k], ts>> \in source', InRange(new, ts)
        PROVE  ts \in new.copied
    <3>1. ts <= now /\ InRange(old, ts)
      BY <2>2, <2>6 DEF QueueInv, InRange
    <3>2. InWindow(old, ts, 5)
      BY <1>1, <3>1, RangeInWindow
    <3> QED BY <2>2, <2>6, <3>2 DEF Missing
  <2> QED BY <2>4, <2>5, <2>6, FullCopies
<1>4. CASE k \notin Lagging
  <2>1. stream'[k] = stream[k]
    BY <1>2, <1>4 DEF CaughtUp
  <2> QED BY <1>1, <1>2, <2>1, KeptCopies
<1> QED BY <1>3, <1>4

LEMMA CopiesStep ==
  ASSUME TypeInv, QueueInv, WatchesBalanced, CopiesInv, ~Faults, [Next]_vars
  PROVE  CopiesInv'
<1> USE DEF kafkaVars, sessionVars, watchVars
<1>0. TypeOK
  BY DEF TypeInv
<1>1. ASSUME UNCHANGED <<stream, source, created, archive>> PROVE CopiesInv'
  BY <1>1 DEF CopiesInv, CopyInv, Active, Pending
<1>2. ASSUME NEW c \in Camera, FrameWritten(c) PROVE CopiesInv'
  <2> SUFFICES ASSUME NEW k \in Active' PROVE CopyInv(k)'
    BY DEF CopiesInv
  <2> DEFINE s == stream[k]
  <2>1. /\ k \in Active /\ k \in Key /\ stream' = stream /\ archive' = archive
        /\ source' = source \cup {<<c, now>>} /\ s \in Session
        /\ created' = IF c \in inotify THEN Append(created, <<c, now>>) ELSE created
    BY <1>0, <1>2, ActiveSession DEF FrameWritten, Active
  <2>2. CopyInv(k)
    BY <2>1 DEF CopiesInv
  <2>3. CASE CameraOf[k] # c
    <3>1. \A ts \in Second : <<CameraOf[k], ts>> \in source' <=> <<CameraOf[k], ts>> \in source
      BY <2>1, <2>3
    <3>2. \A ts \in Second : Pending(CameraOf[k], ts) => Pending(CameraOf[k], ts)'
      <4>1. CASE created' = created
        BY <4>1 DEF Pending
      <4>2. CASE created' = Append(created, <<c, now>>)
        <5>1. \A i \in DOMAIN created : i \in DOMAIN created' /\ created'[i] = created[i]
          BY <1>0, <4>2 DEF TypeOK
        <5> QED BY <5>1 DEF Pending
      <4> QED BY <2>1, <4>1, <4>2
    <3>3. s.copied \subseteq Second
      BY <2>1, SessionFields
    <3> QED BY <2>1, <2>2, <3>1, <3>2, <3>3 DEF CopyInv
  <2>4. CASE CameraOf[k] = c
    <3>1. c \in inotify
      <4>1. k \in Streams(c) /\ IsFiniteSet(Streams(c)) /\ Cardinality(Streams(c)) \in Nat
        BY <2>1, <2>4, StreamsCounted DEF Streams
      <4>2. Cardinality(Streams(c)) # 0
        BY <4>1, FS_EmptySet
      <4>3. watchedDirs[c] = Cardinality(Streams(c)) /\ (c \in inotify <=> watchedDirs[c] > 0)
        BY DEF WatchesBalanced, Streams
      <4> QED BY <4>1, <4>2, <4>3
    <3>2. /\ Len(created) \in Nat /\ DOMAIN created = 1..Len(created)
          /\ DOMAIN created' = 1..(Len(created) + 1)
          /\ created'[Len(created) + 1] = <<c, now>>
          /\ \A i \in DOMAIN created : created'[i] = created[i]
      BY <1>0, <2>1, <3>1 DEF TypeOK
    <3>3. Pending(c, now)' /\ \A ts \in Second : Pending(c, ts) => Pending(c, ts)'
      <4>1. created'[Len(created) + 1] = <<c, now'>> /\ Len(created) + 1 \in DOMAIN created'
        BY <1>2, <3>2 DEF FrameWritten
      <4> QED BY <3>2, <4>1 DEF Pending
    <3>4. now \in Int /\ now' = now /\ \A ts \in s.copied : ts \in Second /\ <<c, ts>> \in source /\ ts <= now
      BY <1>0, <1>2, <2>1, <2>2, <2>4, SessionFields DEF CopyInv, QueueInv, TypeOK, Second, FrameWritten
    <3>5. \A ts \in Second : <<c, ts>> \in source' <=> <<c, ts>> \in source \/ ts = now
      BY <2>1
    <3>6. ASSUME ~s.moved, NEW ts \in s.copied, NEW u \in Second, u < ts, <<c, u>> \in source',
                 InRange(s, u)
          PROVE  u \in s.copied
      <4>1. u # now
        <5>1. ts <= now /\ ts \in Int /\ u \in Int /\ u < ts
          <6>1. ts \in Second /\ ts <= now
            BY <3>4
          <6> QED BY <3>6, <6>1, SettingAssumption DEF Second
        <5> QED BY <3>4, <5>1
      <4>2. <<c, u>> \in source
        BY <3>5, <3>6, <4>1
      <4> QED BY <2>2, <2>4, <3>6, <4>2 DEF CopyInv
    <3>7. ASSUME ~s.moved, NEW ts \in Second, <<c, ts>> \in source', InRange(s, ts)
          PROVE  ts \in s.copied \/ Pending(c, ts)'
      <4>1. CASE ts = now
        BY <3>3, <3>4, <4>1
      <4>2. CASE <<c, ts>> \in source
        BY <2>2, <2>4, <3>3, <3>7, <4>2 DEF CopyInv
      <4> QED BY <3>5, <3>7, <4>1, <4>2
    <3>8. ~s.moved => \A ts \in s.copied : <<k, s.base, ts>> \in archive'
      BY <2>1, <2>2 DEF CopyInv
    <3>9. \A ts \in s.copied : <<c, ts>> \in source'
      BY <2>1, <3>4
    <3> QED BY <2>1, <2>4, <3>6, <3>7, <3>8, <3>9 DEF CopyInv
  <2> QED BY <2>3, <2>4
<1>3. CASE Consume
  <2>1. PICK e \in Event, final \in BOOLEAN :
          /\ processMessage(e, final)
          /\ StartOf[e] <= now /\ (final => EndOf[e] <= now)
    BY <1>3, MessageInHand
  <2> DEFINE k == KeyOf[e]
  <2>2. k \in Key /\ UNCHANGED <<source, created>>
    BY <1>3, EventAssumption DEF Consume
  <2>3. ASSUME NEW s \in Session, stream' = [stream EXCEPT ![k] = s], CopyInv(k)',
               \A j \in Key \ {k}, b, ts \in Second :
                 <<j, b, ts>> \in archive => <<j, b, ts>> \in archive'
        PROVE  CopiesInv'
    <3> SUFFICES ASSUME NEW j \in Active' PROVE CopyInv(j)'
      BY DEF CopiesInv
    <3>1. Active' = Active \cup {k}
      BY <1>0, <2>3, ActiveProcess
    <3>2. CASE j = k
      BY <2>3, <3>2
    <3>3. CASE j # k
      <4>1. j \in Active /\ stream'[j] = stream[j] /\ j \in Key /\ stream[j] \in Session
        BY <1>0, <2>3, <3>1, <3>3, ActiveSession DEF TypeOK, Active
      <4>2. CopyInv(j)
        BY <4>1 DEF CopiesInv
      <4> QED BY <2>2, <2>3, <3>3, <4>1, <4>2, KeptCopies
    <3> QED BY <3>2, <3>3
  <2>4. CASE stream[k] # None /\ Merge(e, final)
    <3>1. PICK s \in Session, S \in SUBSET Second : Merged(e, final, s, S)
      BY <1>0, <2>1, <2>4, MergeStep
    <3>2. k \in Active /\ CopyInv(k)
      BY <2>2, <2>4 DEF Active, CopiesInv
    <3>3. CopyInv(k)'
      BY <1>0, <2>2, <3>1, <3>2, MergedCopies
    <3>4. stream' = [stream EXCEPT ![k] = s]
      BY <3>1 DEF Merged
    <3>5. \A j \in Key \ {k}, b, ts \in Second :
                 <<j, b, ts>> \in archive => <<j, b, ts>> \in archive'
      BY <3>1 DEF Merged, Frames
    <3> QED BY <2>3, <3>3, <3>4, <3>5
  <2>5. CASE stream[k] = None /\ Open(e, final)
    <3>1. PICK s \in Session : Opened(e, final, s)
      BY <1>0, <2>1, <2>5, OpenStep
    <3>2. CopyInv(k)'
      BY <1>0, <2>2, <3>1, OpenedCopies
    <3>3. stream' = [stream EXCEPT ![k] = s] /\ archive \subseteq archive'
      BY <3>1 DEF Opened
    <3> QED BY <2>3, <3>2, <3>3
  <2>6. CASE UNCHANGED <<stream, archive>>
    BY <1>1, <2>2, <2>6
  <2> QED BY <2>1, <2>4, <2>5, <2>6 DEF processMessage
<1>4. CASE HandleCreated
  <2>1. created[1] \in Camera \X Second
    BY <1>0, <1>4, WatchStep
  <2>2. PICK c \in Camera, ts \in Second : created[1] = <<c, ts>>
    BY <2>1
  <2>3. PICK S : Watched(c, ts, S)
    BY <1>0, <1>4, <2>2, WatchStep
  <2>4. Active' = Active
    BY <1>0, <2>3, ActiveWatch
  <2> QED BY <1>0, <1>4, <2>2, <2>3, <2>4, WatchedCopies DEF CopiesInv
<1>5. CASE expireWaitingForEnd
  <2> SUFFICES ASSUME NEW k \in Active' PROVE CopyInv(k)'
    BY DEF CopiesInv
  <2>1. /\ k \in Active /\ k \notin Dropped /\ k \in Key /\ stream[k] \in Session
        /\ stream'[k] = stream[k] /\ UNCHANGED <<source, created>>
    BY <1>0, <1>5, ActiveExpire, ExpireStep, ActiveSession
  <2>2. \A b, ts \in Second : <<k, b, ts>> \in archive => <<k, b, ts>> \in archive'
    BY <1>5, <2>1, ExpireStep DEF Frames
  <2> QED BY <2>1, <2>2, KeptCopies DEF CopiesInv
<1>6. CASE closeCompletedStreams
  <2>1. PICK got : Closed(got)
    BY <1>6, CloseStep
  <2>2. Active' = Active \ Closing(got) /\ UNCHANGED <<source, created>>
    BY <1>0, <1>6, <2>1, ActiveClose DEF closeCompletedStreams
  <2> QED BY <1>0, <2>1, <2>2, CaughtUpCopies DEF CopiesInv
<1>7. CASE Restart
  BY <1>7 DEF Restart, CopiesInv, Active
<1>8. CASE \/ Tick \/ CommitMessage \/ UNCHANGED vars
           \/ (\E e \in Event, final \in BOOLEAN : Publish(e, final))
  <2>1. UNCHANGED <<stream, source, created, archive>>
    BY <1>8 DEF Tick, CommitMessage, Publish, vars
  <2> QED BY <1>1, <2>1
<1> QED BY <1>2, <1>3, <1>4, <1>5, <1>6, <1>7, <1>8 DEF Next

----------------------------------------------------------------------------
(* When a stream closes its events are done, the one that named its directory too. *)
LEMMA DoneStep ==
  ASSUME TypeInv, WindowsInv, DoneInv, restarts \in Nat, [Next]_vars
  PROVE  DoneInv'
<1> USE DEF kafkaVars, sessionVars, watchVars
<1>0. TypeOK
  BY DEF TypeInv
<1>1. ASSUME UNCHANGED <<closed, restarts, done>> PROVE DoneInv'
  BY <1>1 DEF DoneInv
<1>2. CASE Consume
  <2>1. PICK e \in Event, final \in BOOLEAN : processMessage(e, final)
    BY <1>2, MessageInHand
  <2>2. done' = done
    BY <2>1 DEF processMessage
  <2> QED BY <1>1, <1>2, <2>2 DEF Consume
<1>3. CASE closeCompletedStreams
  <2>1. PICK got : Closed(got)
    BY <1>3, CloseStep
  <2>2. /\ restarts' = restarts
        /\ done' = done \cup UNION {{stream[k].ids[i] : i \in DOMAIN stream[k].ids} :
                                      k \in Closing(got)}
    BY <1>3, <2>1 DEF closeCompletedStreams, Closed
  <2> SUFFICES ASSUME NEW c \in closed'
               PROVE  /\ c.run \in Nat /\ c.run <= restarts
                      /\ c.run = restarts =>
                           \E e \in done' : KeyOf[e] = c.key /\ StartOf[e] = c.base
    BY <2>2 DEF DoneInv
  <2>3. CASE c \in closed
    BY <2>2, <2>3 DEF DoneInv
  <2>4. CASE c \notin closed
    <3>1. PICK k \in Closing(got) : c = [key |-> k, base |-> stream[k].base,
                                         from |-> stream[k].start - LeadSeconds,
                                         to |-> LastFrame(k),
                                         moved |-> stream[k].moved, run |-> restarts]
      BY <2>1, <2>4 DEF Closed
    <3>2. WindowInv(k)
      BY DEF Closing, Due, WindowsInv
    <3>3. PICK i \in DOMAIN stream[k].ids : StartOf[stream[k].ids[i]] = stream[k].base
      BY <3>2 DEF WindowInv
    <3>4. KeyOf[stream[k].ids[i]] = k /\ stream[k].ids[i] \in done'
      BY <2>2, <3>2 DEF WindowInv
    <3>5. c.key = k /\ c.base = stream[k].base /\ c.run = restarts
      BY <3>1
    <3> QED BY <3>3, <3>4, <3>5
  <2> QED BY <2>3, <2>4
<1>4. CASE Restart
  <2> SUFFICES ASSUME NEW c \in closed
               PROVE  c.run \in Nat /\ c.run <= restarts + 1 /\ c.run # restarts + 1
    BY <1>4 DEF Restart, DoneInv
  <2>1. c.run \in Nat /\ c.run <= restarts
    BY DEF DoneInv
  <2> QED BY <2>1
<1>5. CASE \/ Tick \/ CommitMessage \/ UNCHANGED vars \/ HandleCreated \/ expireWaitingForEnd
           \/ (\E c \in Camera : FrameWritten(c))
           \/ (\E e \in Event, final \in BOOLEAN : Publish(e, final))
  <2>1. UNCHANGED <<closed, restarts, done>>
    BY <1>5 DEF Tick, CommitMessage, vars, HandleCreated, expireWaitingForEnd, FrameWritten,
       Publish
  <2> QED BY <1>1, <2>1
<1> QED BY <1>2, <1>3, <1>4, <1>5, Zenon DEF Next

(* A stream is closed after its last second. *)
LEMMA ClosedStep ==
  ASSUME TypeInv, WindowsInv, ClosedInv, CopyDelaySeconds > 0, restarts \in Nat, [Next]_vars
  PROVE  ClosedInv'
<1> USE DEF kafkaVars, sessionVars, watchVars
<1>0. TypeOK /\ now \in Int
  BY SettingAssumption DEF TypeInv, TypeOK, Second
<1>d. DoneInv'
  BY DoneStep DEF ClosedInv
<1>1. ASSUME UNCHANGED <<closed, restarts>>, now' = now \/ now' = now + 1
      PROVE  ClosedInv'
  <2> SUFFICES ASSUME NEW c \in closed
               PROVE  c.to \in Int /\ (c.run = restarts => c.to < now')
    BY <1>1, <1>d DEF ClosedInv
  <2>1. c.to \in Int /\ (c.run = restarts => c.to < now)
    BY DEF ClosedInv
  <2> QED BY <1>0, <1>1, <2>1
<1>2. CASE closeCompletedStreams
  <2>1. PICK got : Closed(got)
    BY <1>2, CloseStep
  <2>2. now' = now /\ restarts' = restarts
    BY <1>2 DEF closeCompletedStreams
  <2> SUFFICES ASSUME NEW c \in closed'
               PROVE  c.to \in Int /\ (c.run = restarts => c.to < now)
    BY <1>d, <2>2 DEF ClosedInv
  <2>3. CASE c \in closed
    BY <2>3 DEF ClosedInv
  <2>4. CASE c \notin closed
    <3>1. PICK k \in Closing(got) : c = [key |-> k, base |-> stream[k].base,
                                         from |-> stream[k].start - LeadSeconds,
                                         to |-> LastFrame(k),
                                         moved |-> stream[k].moved, run |-> restarts]
      BY <2>1, <2>4 DEF Closed
    <3>2. /\ k \in Active /\ stream[k].end # NoEnd /\ now >= stream[k].copyAfter
          /\ stream[k] \in Session
      BY <1>0, ActiveSession DEF Closing, Due
    <3>3. stream[k].copyAfter = LastFrame(k) + CopyDelaySeconds
      BY <3>2 DEF WindowsInv, WindowInv, LastFrame
    <3>4. LastFrame(k) \in Int /\ CopyDelaySeconds \in Nat
      BY <3>2, SessionFields, SettingAssumption DEF LastFrame, Second
    <3>5. c.to = LastFrame(k)
      BY <3>1
    <3> QED BY <1>0, <3>2, <3>3, <3>4, <3>5
  <2> QED BY <2>3, <2>4
<1>3. CASE Restart
  <2>1. \A c \in closed' : c \in closed /\ c.to \in Int /\ c.run \in Nat /\ c.run <= restarts
    BY <1>3 DEF Restart, ClosedInv, DoneInv
  <2>2. \A c \in closed' : c.to \in Int /\ c.run # restarts'
    <3> SUFFICES ASSUME NEW c \in closed' PROVE c.to \in Int /\ c.run # restarts + 1
      BY <1>3 DEF Restart
    <3> QED BY <2>1
  <2> QED BY <1>d, <2>2 DEF ClosedInv
<1>4. CASE \/ Tick \/ Consume \/ CommitMessage \/ UNCHANGED vars \/ HandleCreated
           \/ expireWaitingForEnd \/ (\E c \in Camera : FrameWritten(c))
           \/ (\E e \in Event, final \in BOOLEAN : Publish(e, final))
  <2>1. UNCHANGED <<closed, restarts>> /\ (now' = now \/ now' = now + 1)
    BY <1>4 DEF Tick, Consume, CommitMessage, vars, HandleCreated, expireWaitingForEnd,
       FrameWritten, Publish
  <2> QED BY <1>1, <2>1
<1> QED BY <1>2, <1>3, <1>4 DEF Next

(* A directory that is no other event's is no open stream's any more, *)
LEMMA SpareDirectory ==
  ASSUME TypeOK, WindowsInv, DoneInv, NEW c \in closed, c.run = restarts, OwnDirectory(c),
         NEW k \in Active
  PROVE  ~(c.key = k /\ c.base = stream[k].base)
<1> SUFFICES ASSUME c.key = k, c.base = stream[k].base PROVE FALSE
  OBVIOUS
<1>1. PICK e \in done : KeyOf[e] = c.key /\ StartOf[e] = c.base
  BY DEF DoneInv
<1>2. PICK i \in DOMAIN stream[k].ids : StartOf[stream[k].ids[i]] = stream[k].base
  BY DEF WindowsInv, WindowInv
<1>3. KeyOf[stream[k].ids[i]] = k /\ stream[k].ids[i] \notin done
  BY DEF WindowsInv, WindowInv
<1>4. stream[k].ids[i] \in Event /\ e \in Event
  BY ActiveSession, SessionFields DEF TypeOK
<1> QED BY <1>1, <1>2, <1>3, <1>4 DEF OwnDirectory

(* and what it has stays complete. *)
LEMMA StaysComplete ==
  ASSUME NEW c \in closed, Complete(c),
         \A ts \in Second : <<CameraOf[c.key], ts>> \in source' \ source => ts > c.to,
         \A ts \in Second : <<c.key, c.base, ts>> \in archive => <<c.key, c.base, ts>> \in archive',
         c.to \in Int
  PROVE  Complete(c)'
BY DEF Complete, Second

(* A stream is complete when it is closed: a catch-up has copied what there is, or *)
(* the last frame is copied and so are those before it.                            *)
LEMMA CloseIsComplete ==
  ASSUME TypeOK, CopiesInv, ~Faults, NEW got, Closed(got), NEW k \in Closing(got),
         ~stream[k].moved, NEW ts \in Second, stream[k].start - LeadSeconds <= ts,
         ts <= LastFrame(k), <<CameraOf[k], ts>> \in source
  PROVE  <<k, stream[k].base, ts>> \in archive'
<1> DEFINE s == stream[k]
<1>1. k \in Active /\ k \in Due /\ s.end # NoEnd /\ s \in Session
  BY ActiveSession DEF Closing, Due
<1>2. CopyInv(k)
  BY <1>1 DEF CopiesInv
<1>3. InRange(s, ts)
  BY DEF InRange, LastFrame
<1>4. CASE ts \in s.copied
  BY <1>2, <1>4 DEF CopyInv, Closed
<1>5. CASE ts \notin s.copied /\ k \in Lagging
  <2>1. InWindow(s, ts, 5)
    BY <1>1 DEF InWindow, ToSec, LastFrame
  <2>2. ts \in got[k]
    BY <1>5, <2>1 DEF Closed, Missing
  <2>3. <<k, s.base, ts>> \in Files(k, s.base, got[k])
    BY <2>2 DEF Files
  <2> QED BY <1>5, <2>3 DEF Closed
<1>6. CASE ts \notin s.copied /\ k \notin Lagging
  <2>1. LastFrame(k) \in s.copied
    BY <1>1, <1>6 DEF Lagging
  <2>2. ts < LastFrame(k)
    <3>1. LastFrame(k) \in Second /\ ts # LastFrame(k)
      BY <1>1, <1>6, <2>1, SessionFields
    <3> QED BY <3>1, SettingAssumption DEF Second
  <2> QED BY <1>2, <1>3, <1>6, <2>1, <2>2 DEF CopyInv
<1> QED BY <1>4, <1>5, <1>6

LEMMA CompleteStep ==
  ASSUME TypeInv, QueueInv, WindowsInv, CopiesInv, ClosedInv, ClosedIsComplete, ~Faults,
         restarts \in Nat, [Next]_vars
  PROVE  ClosedIsComplete'
<1> USE DEF kafkaVars, sessionVars, watchVars
<1>0. TypeOK
  BY DEF TypeInv
<1>1. ASSUME UNCHANGED <<closed, restarts, source>>,
             \A f \in archive \ archive' : \E k \in Active : f[1] = k /\ f[2] = stream[k].base
      PROVE  ClosedIsComplete'
  <2> SUFFICES ASSUME NEW c \in closed, c.run = restarts, ~c.moved, OwnDirectory(c)
               PROVE  Complete(c)'
    BY <1>1 DEF ClosedIsComplete, OwnDirectory
  <2>1. Complete(c) /\ c.to \in Int
    BY DEF ClosedIsComplete, ClosedInv
  <2>2. ASSUME NEW ts \in Second, <<c.key, c.base, ts>> \in archive
        PROVE  <<c.key, c.base, ts>> \in archive'
    <3> SUFFICES ASSUME <<c.key, c.base, ts>> \notin archive' PROVE FALSE
      OBVIOUS
    <3> DEFINE f == <<c.key, c.base, ts>>
    <3>1. PICK k \in Active : f[1] = k /\ f[2] = stream[k].base
      BY <1>1, <2>2
    <3> QED BY <1>0, <3>1, SpareDirectory DEF ClosedInv
  <2> QED BY <1>1, <2>1, <2>2, StaysComplete
<1>2. ASSUME NEW d \in Camera, FrameWritten(d) PROVE ClosedIsComplete'
  <2> SUFFICES ASSUME NEW c \in closed, c.run = restarts, ~c.moved, OwnDirectory(c)
               PROVE  Complete(c)'
    BY <1>2 DEF FrameWritten, ClosedIsComplete, OwnDirectory
  <2>1. Complete(c) /\ c.to \in Int /\ c.to < now
    BY DEF ClosedIsComplete, ClosedInv
  <2>2. source' = source \cup {<<d, now>>} /\ archive' = archive
    BY <1>2 DEF FrameWritten
  <2>3. \A ts \in Second : <<CameraOf[c.key], ts>> \in source' \ source => ts = now
    BY <2>2
  <2>4. now \in Int
    BY <1>0, SettingAssumption DEF TypeOK, Second
  <2> QED BY <2>1, <2>2, <2>3, <2>4, StaysComplete
<1>3. CASE Consume
  <2>1. PICK e \in Event, final \in BOOLEAN :
          /\ processMessage(e, final)
          /\ StartOf[e] <= now /\ (final => EndOf[e] <= now)
    BY <1>3, MessageInHand
  <2> DEFINE k == KeyOf[e]
  <2>2. k \in Key /\ UNCHANGED <<closed, restarts, source>>
    BY <1>3, EventAssumption DEF Consume
  <2>3. CASE stream[k] # None /\ Merge(e, final)
    <3>1. PICK s \in Session, S \in SUBSET Second : Merged(e, final, s, S)
      BY <1>0, <2>1, <2>3, MergeStep
    <3>2. \A f \in archive \ archive' : f[1] = k /\ f[2] = stream[k].base
      BY <3>1 DEF Merged, Frames
    <3>3. k \in Active
      BY <2>2, <2>3 DEF Active
    <3> QED BY <1>1, <2>2, <3>2, <3>3
  <2>4. CASE stream[k] = None /\ Open(e, final)
    <3>1. PICK s \in Session : Opened(e, final, s)
      BY <1>0, <2>1, <2>4, OpenStep
    <3>2. archive \subseteq archive'
      BY <3>1 DEF Opened
    <3> QED BY <1>1, <2>2, <3>2
  <2>5. CASE UNCHANGED archive
    BY <1>1, <2>2, <2>5
  <2> QED BY <2>1, <2>3, <2>4, <2>5 DEF processMessage
<1>4. CASE HandleCreated
  <2>1. PICK S : Watched(created[1][1], created[1][2], S)
    BY <1>0, <1>4, WatchStep
  <2>2. archive \subseteq archive'
    BY <2>1 DEF Watched
  <2> QED BY <1>1, <1>4, <2>2 DEF HandleCreated
<1>5. CASE expireWaitingForEnd
  <2>1. \A f \in archive \ archive' : \E k \in Dropped : f[1] = k /\ f[2] = stream[k].base
    BY <1>5, ExpireStep DEF Frames
  <2>2. Dropped \subseteq Active
    BY DEF Dropped
  <2> QED BY <1>1, <1>5, <2>1, <2>2, ExpireStep
<1>6. CASE closeCompletedStreams
  <2>1. PICK got : Closed(got)
    BY <1>6, CloseStep
  <2>2. UNCHANGED <<source, restarts>> /\ archive \subseteq archive'
    BY <1>6, <2>1 DEF closeCompletedStreams, Closed
  <2> SUFFICES ASSUME NEW c \in closed', c.run = restarts, ~c.moved, OwnDirectory(c)
               PROVE  Complete(c)'
    BY <2>2 DEF ClosedIsComplete, OwnDirectory
  <2>3. CASE c \in closed
    BY <2>2, <2>3, StaysComplete DEF ClosedIsComplete, ClosedInv
  <2>4. CASE c \notin closed
    <3>1. PICK k \in Closing(got) : c = [key |-> k, base |-> stream[k].base,
                                         from |-> stream[k].start - LeadSeconds,
                                         to |-> LastFrame(k),
                                         moved |-> stream[k].moved, run |-> restarts]
      BY <2>1, <2>4 DEF Closed
    <3>2. /\ c.key = k /\ c.base = stream[k].base /\ c.from = stream[k].start - LeadSeconds
          /\ c.to = LastFrame(k) /\ c.moved = stream[k].moved
      BY <3>1
    <3>3. ASSUME NEW ts \in Second, c.from <= ts, ts <= c.to, <<CameraOf[c.key], ts>> \in source
          PROVE  <<c.key, c.base, ts>> \in archive'
      BY <1>0, <2>1, <3>2, <3>3, CloseIsComplete
    <3> QED BY <2>2, <3>3 DEF Complete
  <2> QED BY <2>3, <2>4
<1>7. CASE Restart
  <2>1. \A c \in closed' : c.run # restarts'
    <3> SUFFICES ASSUME NEW c \in closed PROVE c.run # restarts + 1
      BY <1>7 DEF Restart
    <3>1. c.run \in Nat /\ c.run <= restarts
      BY DEF ClosedInv, DoneInv
    <3> QED BY <3>1
  <2> QED BY <2>1 DEF ClosedIsComplete
<1>8. CASE \/ Tick \/ CommitMessage \/ UNCHANGED vars
           \/ (\E e \in Event, final \in BOOLEAN : Publish(e, final))
  <2>1. UNCHANGED <<closed, restarts, source, archive>>
    BY <1>8 DEF Tick, CommitMessage, Publish, vars
  <2> QED BY <1>1, <2>1
<1> QED BY <1>2, <1>3, <1>4, <1>5, <1>6, <1>7, <1>8 DEF Next

(* Without faults of the file system, and with a copy delay (its default is five  *)
(* seconds: the frame of the last second is written after that second began),     *)
(* a closed stream has every frame of its window and keeps them, whichever of the *)
(* watcher and the catch-ups was to copy them and in whatever order events of the *)
(* camera come, merge, expire and end.                                            *)
THEOREM ClosedStaysComplete ==
  ASSUME ~Faults, CopyDelaySeconds > 0
  PROVE  Spec => []ClosedIsComplete
<1> DEFINE Inv == /\ restarts \in Nat /\ QueueInv /\ WindowsInv /\ CopiesInv /\ ClosedInv
                  /\ ClosedIsComplete
<1>1. Init => Inv
  <2> SUFFICES ASSUME Init PROVE Inv
    OBVIOUS
  <2>1. restarts = 0 /\ closed = {} /\ Active = {} /\ source = {} /\ created = <<>>
    BY DEF Init, Active
  <2> QED BY <2>1 DEF QueueInv, WindowsInv, CopiesInv, ClosedInv, DoneInv, ClosedIsComplete
<1>2. TypeInv /\ WatchesBalanced /\ Inv /\ [Next]_vars => Inv'
  <2> SUFFICES ASSUME TypeInv, WatchesBalanced, Inv, [Next]_vars PROVE Inv'
    OBVIOUS
  <2>1. restarts' \in Nat
    <3>1. restarts' = restarts \/ restarts' = restarts + 1
      BY DEF Next, vars, Tick, FrameWritten, Publish, Consume, CommitMessage, HandleCreated,
             expireWaitingForEnd, closeCompletedStreams, Restart
    <3> QED BY <3>1
  <2> QED BY <2>1, QueueStep, WindowsStep, CopiesStep, ClosedStep, CompleteStep
<1>3. Inv => ClosedIsComplete
  OBVIOUS
<1> HIDE DEF Inv
<1> QED BY <1>1, <1>2, <1>3, TypeCorrect, WatchesAlwaysBalanced, PTL DEF Spec

----------------------------------------------------------------------------
(* Whatever a step takes from the archive or adds to it is in the directory of an *)
(* open stream, or in one named by an event that is not done.                     *)
LEMMA Touched ==
  ASSUME TypeInv, [Next]_vars, NEW f \in (archive \ archive') \cup (archive' \ archive)
  PROVE  \/ \E k \in Active : f[1] = k /\ f[2] = stream[k].base
         \/ \E e \in Event \ done : f[1] = KeyOf[e] /\ f[2] = StartOf[e]
<1> USE DEF kafkaVars, sessionVars, watchVars
<1> DEFINE Ours == \E k \in Active : f[1] = k /\ f[2] = stream[k].base
           New == \E e \in Event \ done : f[1] = KeyOf[e] /\ f[2] = StartOf[e]
<1>0. TypeOK
  BY DEF TypeInv
<1>1. ASSUME NEW k, NEW base, NEW S, f \in Files(k, base, S) PROVE f[1] = k /\ f[2] = base
  BY <1>1 DEF Files
<1>2. CASE Consume
  <2>1. PICK e \in Event, final \in BOOLEAN :
          /\ processMessage(e, final)
          /\ StartOf[e] <= now /\ (final => EndOf[e] <= now)
    BY <1>2, MessageInHand
  <2> DEFINE k == KeyOf[e]
  <2>2. e \notin done
    BY <2>1 DEF processMessage
  <2>3. CASE stream[k] # None /\ Merge(e, final)
    <3>1. PICK s \in Session, S \in SUBSET Second : Merged(e, final, s, S)
      BY <1>0, <2>1, <2>3, MergeStep
    <3>2. k \in Active
      BY <2>3, EventAssumption DEF Active
    <3>3. s.base \in {StartOf[e], stream[k].base}
      BY <3>1 DEF Merged
    <3>4. f \in Frames(k, stream[k].base) \/ f \in Files(k, s.base, S)
      BY <3>1 DEF Merged
    <3>5. CASE f \in Frames(k, stream[k].base)
      BY <3>2, <3>5 DEF Frames
    <3>6. CASE f \in Files(k, s.base, S)
      <4>1. f[1] = k /\ f[2] = s.base
        BY <1>1, <3>6
      <4> QED BY <2>2, <3>2, <3>3, <4>1
    <3> QED BY <3>4, <3>5, <3>6
  <2>4. CASE stream[k] = None /\ Open(e, final)
    <3>1. PICK s \in Session : Opened(e, final, s)
      BY <1>0, <2>1, <2>4, OpenStep
    <3>2. f \in Files(k, s.base, s.copied) /\ s.base = StartOf[e]
      BY <3>1 DEF Opened
    <3>3. f[1] = k /\ f[2] = StartOf[e]
      BY <1>1, <3>2
    <3> QED BY <2>2, <3>3
  <2> QED BY <2>1, <2>3, <2>4 DEF processMessage
<1>3. CASE HandleCreated
  <2>1. PICK S : Watched(created[1][1], created[1][2], S)
    BY <1>0, <1>3, WatchStep
  <2>2. PICK k \in S : f = <<k, stream[k].base, created[1][2]>>
    BY <2>1 DEF Watched
  <2> QED BY <2>1, <2>2 DEF Watched
<1>4. CASE expireWaitingForEnd
  <2>1. PICK k \in Dropped : f \in Frames(k, stream[k].base)
    BY <1>4, ExpireStep
  <2> QED BY <2>1 DEF Dropped, Frames
<1>5. CASE closeCompletedStreams
  <2>1. PICK got : Closed(got)
    BY <1>5, CloseStep
  <2>2. PICK k \in Lagging : f \in Files(k, stream[k].base, got[k])
    BY <2>1 DEF Closed
  <2>3. k \in Active
    BY DEF Lagging, Due
  <2>4. f[1] = k /\ f[2] = stream[k].base
    BY <1>1, <2>2
  <2> QED BY <2>3, <2>4
<1>6. CASE \/ Tick \/ CommitMessage \/ Restart \/ UNCHANGED vars
           \/ (\E c \in Camera : FrameWritten(c))
           \/ (\E e \in Event, final \in BOOLEAN : Publish(e, final))
  <2>1. archive' = archive
    BY <1>6 DEF Tick, CommitMessage, Restart, vars, FrameWritten, Publish
  <2> QED BY <2>1
<1> QED BY <1>2, <1>3, <1>4, <1>5, <1>6 DEF Next

(* The archive of a closed stream is final for the rest of the run, with faults    *)
(* and restarts and whatever the delays: its events are done, so no late message   *)
(* opens its directory again, and the open streams are in directories of theirs,   *)
(* so that no copy, expiry or move of one of them reaches it.                      *)
THEOREM ClosedStaysFinal == Spec => ClosedIsFinal
<1> DEFINE Inv == restarts \in Nat /\ WindowsInv /\ DoneInv
           Final == \A c \in closed : c.run = restarts /\ OwnDirectory(c) =>
                      Frames(c.key, c.base)' = Frames(c.key, c.base)
<1>1. Init => Inv
  <2> SUFFICES ASSUME Init PROVE Inv
    OBVIOUS
  <2>1. restarts = 0 /\ closed = {} /\ Active = {}
    BY DEF Init, Active
  <2> QED BY <2>1 DEF WindowsInv, DoneInv
<1>2. TypeInv /\ Inv /\ [Next]_vars => Inv'
  <2> SUFFICES ASSUME TypeInv, Inv, [Next]_vars PROVE Inv'
    OBVIOUS
  <2>1. restarts' = restarts \/ restarts' = restarts + 1
    BY DEF Next, vars, Tick, FrameWritten, Publish, Consume, CommitMessage, HandleCreated,
           expireWaitingForEnd, closeCompletedStreams, Restart
  <2> QED BY <2>1, WindowsStep, DoneStep
<1>3. TypeInv /\ Inv /\ [Next]_vars => [Final]_vars
  <2> SUFFICES ASSUME TypeInv, Inv, [Next]_vars,
                      NEW c \in closed, c.run = restarts, OwnDirectory(c)
               PROVE  Frames(c.key, c.base)' = Frames(c.key, c.base)
    OBVIOUS
  <2>1. PICK d \in done : KeyOf[d] = c.key /\ StartOf[d] = c.base
    BY DEF DoneInv
  <2>2. d \in Event
    BY DEF TypeInv, TypeOK
  <2>3. ASSUME NEW f \in (archive \ archive') \cup (archive' \ archive),
               f[1] = c.key, f[2] = c.base
        PROVE  FALSE
    <3>1. ~\E k \in Active : f[1] = k /\ f[2] = stream[k].base
      BY <2>3, SpareDirectory DEF TypeInv
    <3>2. ~\E e \in Event \ done : f[1] = KeyOf[e] /\ f[2] = StartOf[e]
      BY <2>1, <2>2, <2>3 DEF OwnDirectory
    <3> QED BY <3>1, <3>2, Touched
  <2> QED BY <2>3 DEF Frames
<1> HIDE DEF Inv
<1> QED BY <1>1, <1>2, <1>3, TypeCorrect, PTL DEF Spec, ClosedIsFinal
=============================================================================
