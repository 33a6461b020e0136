------------------------------ MODULE Recordings ------------------------------
(***************************************************************************)
(* The recordings of one organisation: RecordingsService (start, stop,     *)
(* archive, delete), ScheduleProcessor, RetentionProcessor and on_hls,     *)
(* over the database rows and the objects in MinIO.                        *)
(*                                                                         *)
(* A step is what the code does between two awaits.  Rows and objects are  *)
(* two stores: nothing makes a pair of writes atomic.  Any call may throw  *)
(* at any await (a database or MinIO error, the death of the process); the *)
(* actions named ...Throws stand for that.  Every segment has size 1.  The *)
(* status of a camera may be anything at any time here.                    *)
(***************************************************************************)
EXTENDS Naturals, FiniteSets, Optional

CONSTANTS
  Cameras,
  Recs,        \* recording ids, never used twice
  Segments,    \* HLS segments, archived at most once each
  Callers,     \* calls of start, stop and delete at the same time
  Hooks,       \* on_hls callbacks at the same time
  Limit        \* maxStorageGb, in segments; 0: the organisation has no package

ASSUME RecordingsAssumption ==
  /\ None \notin Recs /\ None \notin Cameras /\ None \notin Segments
  /\ IsFiniteSet(Segments) /\ IsFiniteSet(Hooks) /\ Hooks # {}
  /\ Limit \in Nat

VARIABLES
  isRecording,                  \* Camera rows
  rec, recCam, total,           \* Recording rows: state, camera, totalSize
  row,                          \* RecordingSegment rows: the recording of each segment
  objects,                      \* segments whose object is in MinIO
  old,                          \* segments older than their camera's retention
  asked,                        \* history: recordings whose deletion was asked for
  taken,                        \* history: segments SRS has announced
  cpc, ccam, crec, clist,       \* callers: place, camera, recording, segments to remove
  hpc, hrec, hseg,              \* callbacks: place, recording, segment
  tpc, todo, expired, touched,  \* retention: place, cameras left, rows found, recordings left
  trec, left                    \* retention: recording at hand, segments it counted

recVars == <<rec, recCam, total>>
segVars == <<row, objects, old, taken>>
callVars == <<cpc, ccam, crec, clist>>
hookVars == <<hpc, hrec, hseg>>
retVars == <<tpc, todo, expired, touched, trec, left>>
vars == <<isRecording, recVars, segVars, asked, callVars, hookVars, retVars>>

CallerPc == {"idle", "start_read", "start_quota", "start_create", "start_flag",
             "stop_read", "stop_row", "stop_flag", "del_objects", "del_row"}
HookPc == {"idle", "quota", "upload", "row", "total"}
RetentionPc == {"idle", "camera", "objects", "rows", "count", "apply"}

Rows == {s \in Segments : row[s] # None}
RowsOf(r) == {s \in Segments : row[s] = r}
CameraOf(s) == recCam[row[s]]
Active(c) == {r \in Recs : rec[r] = "recording" /\ recCam[r] = c}
Exists(r) == rec[r] \in {"recording", "complete"}

\* Mutant of Allowed: a full store is allowed one more.
AllowedAtLimit == Limit = 0 \/ Cardinality(Rows) <= Limit

\* checkStorageQuota().allowed
Allowed == Limit = 0 \/ Cardinality(Rows) < Limit

\* minioService.removeObjects: an object that is not there is no error, and those
\* that cannot be removed are reported in a result nobody reads.
Remove(segments) == \E gone \in SUBSET segments : objects' = objects \ gone

\* recording.delete: the foreign key cascades to the segment rows.
Drop(r) ==
  /\ rec' = [rec EXCEPT ![r] = "gone"]
  /\ row' = [s \in Segments |-> IF row[s] = r THEN None ELSE row[s]]

Init ==
  /\ isRecording = [c \in Cameras |-> FALSE]
  /\ rec = [r \in Recs |-> "unused"] /\ recCam \in [Recs -> Cameras]
  /\ total = [r \in Recs |-> 0]
  /\ row = [s \in Segments |-> None] /\ objects = {} /\ old = {} /\ taken = {} /\ asked = {}
  /\ cpc = [k \in Callers |-> "idle"] /\ ccam = [k \in Callers |-> None]
  /\ crec = [k \in Callers |-> None] /\ clist = [k \in Callers |-> {}]
  /\ hpc = [h \in Hooks |-> "idle"] /\ hrec = [h \in Hooks |-> None] /\ hseg = [h \in Hooks |-> None]
  /\ tpc = "idle" /\ todo = {} /\ expired = {} /\ touched = {} /\ trec = None /\ left = {}

-----------------------------------------------------------------------------
(* Time *)

\* Time passes for a segment.
Age(s) ==
  /\ s \in Rows \ old
  /\ old' = old \cup {s}
  /\ UNCHANGED <<isRecording, recVars, row, objects, taken, asked, callVars, hookVars, retVars>>

-----------------------------------------------------------------------------
(* Requests and the schedule *)

Call(k, c, r, list, place) ==
  /\ cpc' = [cpc EXCEPT ![k] = place] /\ ccam' = [ccam EXCEPT ![k] = c]
  /\ crec' = [crec EXCEPT ![k] = r] /\ clist' = [clist EXCEPT ![k] = list]

Return(k) == Call(k, None, None, {}, "idle")

\* POST start and stop.
Request(k, c) ==
  /\ cpc[k] = "idle"
  /\ \E place \in {"start_read", "stop_read"} : Call(k, c, None, {}, place)
  /\ UNCHANGED <<isRecording, recVars, segVars, asked, hookVars, retVars>>

\* One enabled schedule of camera c, whose window is open (and the camera online)
\* or not.
ScheduleCheck(k, c) ==
  /\ cpc[k] = "idle"
  /\ Call(k, c, None, {}, IF isRecording[c] THEN "stop_read" ELSE "start_read")
  /\ UNCHANGED <<isRecording, recVars, segVars, asked, hookVars, retVars>>

\* Mutant of StartRead: the flag is not looked at.
StartReadUnguarded(k) ==
  /\ cpc[k] = "start_read"
  /\ Return(k) \/ Call(k, ccam[k], None, {}, "start_quota")
  /\ UNCHANGED <<isRecording, recVars, segVars, asked, hookVars, retVars>>

\* startRecording: the row (refused when flagged, or offline), the quota, the new
\* recording, the flag.
StartRead(k) ==
  LET c == ccam[k] IN
  /\ cpc[k] = "start_read"
  /\ \/ Return(k)
     \/ ~isRecording[c] /\ Call(k, c, None, {}, "start_quota")
  /\ UNCHANGED <<isRecording, recVars, segVars, asked, hookVars, retVars>>

StartQuota(k) ==
  /\ cpc[k] = "start_quota"
  /\ IF Allowed THEN Call(k, ccam[k], None, {}, "start_create") ELSE Return(k)
  /\ UNCHANGED <<isRecording, recVars, segVars, asked, hookVars, retVars>>

StartCreate(k, r) ==
  /\ cpc[k] = "start_create" /\ rec[r] = "unused"
  /\ rec' = [rec EXCEPT ![r] = "recording"]
  /\ recCam' = [recCam EXCEPT ![r] = ccam[k]]
  /\ Call(k, ccam[k], None, {}, "start_flag")
  /\ UNCHANGED <<isRecording, total, segVars, asked, hookVars, retVars>>

StartFlag(k) ==
  /\ cpc[k] = "start_flag"
  /\ isRecording' = [isRecording EXCEPT ![ccam[k]] = TRUE]
  /\ Return(k)
  /\ UNCHANGED <<recVars, segVars, asked, hookVars, retVars>>

\* stopRecording: one active recording of the camera, its row, the flag.
StopRead(k) ==
  LET c == ccam[k] IN
  /\ cpc[k] = "stop_read"
  /\ IF Active(c) = {} THEN Return(k) ELSE \E r \in Active(c) : Call(k, c, r, {}, "stop_row")
  /\ UNCHANGED <<isRecording, recVars, segVars, asked, hookVars, retVars>>

\* An update of a row that is gone throws.
StopRow(k) ==
  LET r == crec[k] IN
  /\ cpc[k] = "stop_row"
  /\ IF Exists(r)
     THEN rec' = [rec EXCEPT ![r] = "complete"] /\ Call(k, ccam[k], r, {}, "stop_flag")
     ELSE UNCHANGED rec /\ Return(k)
  /\ UNCHANGED <<isRecording, recCam, total, segVars, asked, hookVars, retVars>>

StopFlag(k) ==
  /\ cpc[k] = "stop_flag"
  /\ isRecording' = [isRecording EXCEPT ![ccam[k]] = FALSE]
  /\ Return(k)
  /\ UNCHANGED <<recVars, segVars, asked, hookVars, retVars>>

\* deleteRecording, of any recording: its segments are listed,
DeleteRead(k, r) ==
  /\ cpc[k] = "idle" /\ Exists(r)
  /\ asked' = asked \cup {r}
  /\ Call(k, recCam[r], r, RowsOf(r), "del_objects")
  /\ UNCHANGED <<isRecording, recVars, segVars, hookVars, retVars>>

\* their objects removed,
DeleteObjects(k) ==
  /\ cpc[k] = "del_objects"
  /\ Remove(clist[k])
  /\ Call(k, ccam[k], crec[k], {}, "del_row")
  /\ UNCHANGED <<isRecording, recVars, row, old, taken, asked, hookVars, retVars>>

\* and the row, with whatever segments it has by then.
DeleteRow(k) ==
  /\ cpc[k] = "del_row"
  /\ IF Exists(crec[k]) THEN Drop(crec[k]) ELSE UNCHANGED <<rec, row>>
  /\ Return(k)
  /\ UNCHANGED <<isRecording, recCam, total, objects, old, taken, asked, hookVars, retVars>>

CallerThrows(k) ==
  /\ cpc[k] # "idle"
  /\ Remove(clist[k])
  /\ Return(k)
  /\ UNCHANGED <<isRecording, recVars, row, old, taken, asked, hookVars, retVars>>

-----------------------------------------------------------------------------
(* on_hls: archiving one segment *)

Hook(h, r, s, place) ==
  /\ hpc' = [hpc EXCEPT ![h] = place]
  /\ hrec' = [hrec EXCEPT ![h] = r] /\ hseg' = [hseg EXCEPT ![h] = s]

HookReturn(h) == Hook(h, None, None, "idle")

\* getActiveRecording
HookRead(h, c, s) ==
  /\ hpc[h] = "idle" /\ s \notin taken
  /\ taken' = taken \cup {s}
  /\ \E r \in Active(c) : Hook(h, r, s, "quota")
  /\ UNCHANGED <<isRecording, recVars, row, objects, old, asked, callVars, retVars>>

HookQuota(h) ==
  /\ hpc[h] = "quota"
  /\ IF Allowed THEN Hook(h, hrec[h], hseg[h], "upload") ELSE HookReturn(h)
  /\ UNCHANGED <<isRecording, recVars, segVars, asked, callVars, retVars>>

\* Mutant of HookUpload: an error of the upload goes unnoticed.
HookUploadIgnored(h) ==
  /\ hpc[h] = "upload"
  /\ objects' \in {objects, objects \cup {hseg[h]}}
  /\ Hook(h, hrec[h], hseg[h], "row")
  /\ UNCHANGED <<isRecording, recVars, row, old, taken, asked, callVars, retVars>>

HookUpload(h) ==
  /\ hpc[h] = "upload"
  /\ objects' = objects \cup {hseg[h]}
  /\ Hook(h, hrec[h], hseg[h], "row")
  /\ UNCHANGED <<isRecording, recVars, row, old, taken, asked, callVars, retVars>>

\* A row for a recording that is gone violates the foreign key.
HookRow(h) ==
  /\ hpc[h] = "row"
  /\ IF Exists(hrec[h])
     THEN row' = [row EXCEPT ![hseg[h]] = hrec[h]]
          /\ Hook(h, hrec[h], hseg[h], "total")
     ELSE UNCHANGED row /\ HookReturn(h)
  /\ UNCHANGED <<isRecording, recVars, objects, old, taken, asked, callVars, retVars>>

\* totalSize: { increment }
HookTotal(h) ==
  /\ hpc[h] = "total"
  /\ total' = [total EXCEPT ![hrec[h]] = IF Exists(hrec[h]) THEN @ + 1 ELSE @]
  /\ HookReturn(h)
  /\ UNCHANGED <<isRecording, rec, recCam, segVars, asked, callVars, retVars>>

HookThrows(h) ==
  /\ hpc[h] # "idle"
  /\ HookReturn(h)
  /\ UNCHANGED <<isRecording, recVars, segVars, asked, callVars, retVars>>

-----------------------------------------------------------------------------
(* RetentionProcessor, one run an hour *)

Retention(place, cams, rows, recs, r, n) ==
  /\ tpc' = place /\ todo' = cams /\ expired' = rows /\ touched' = recs
  /\ trec' = r /\ left' = n

NextCamera == Retention(IF todo = {} THEN "idle" ELSE "camera", todo, {}, {}, None, {})

RetentionRun ==
  /\ tpc = "idle" /\ Rows # {}
  /\ Retention("camera", {CameraOf(s) : s \in Rows}, {}, {}, None, {})
  /\ UNCHANGED <<isRecording, recVars, segVars, asked, callVars, hookVars>>

\* Mutant of Expired: the cutoff is gone.
ExpiredAll(c) == {s \in Rows : CameraOf(s) = c}

Expired(c) == {s \in Rows \cap old : CameraOf(s) = c}

\* One camera: the rows that are older than the cutoff.
RetentionFind(c) ==
  /\ tpc = "camera" /\ c \in todo
  /\ IF Expired(c) = {}
     THEN Retention(IF todo = {c} THEN "idle" ELSE "camera", todo \ {c}, {}, {}, None, {})
     ELSE Retention("objects", todo \ {c}, Expired(c), {row[s] : s \in Expired(c)}, None, {})
  /\ UNCHANGED <<isRecording, recVars, segVars, asked, callVars, hookVars>>

\* Mutant of RetentionObjects: an object that is not there is an error.
RetentionObjectsStrict ==
  /\ tpc = "objects" /\ expired \subseteq objects
  /\ Remove(expired)
  /\ Retention("rows", todo, expired, touched, None, {})
  /\ UNCHANGED <<isRecording, recVars, row, old, taken, asked, callVars, hookVars>>

\* MinIO first.
RetentionObjects ==
  /\ tpc = "objects"
  /\ Remove(expired)
  /\ Retention("rows", todo, expired, touched, None, {})
  /\ UNCHANGED <<isRecording, recVars, row, old, taken, asked, callVars, hookVars>>

\* MinIO failed: this camera is left to the next run.
RetentionSkips ==
  /\ tpc = "objects"
  /\ Remove(expired)
  /\ NextCamera
  /\ UNCHANGED <<isRecording, recVars, row, old, taken, asked, callVars, hookVars>>

RetentionRows ==
  /\ tpc = "rows"
  /\ row' = [s \in Segments |-> IF s \in expired THEN None ELSE row[s]]
  /\ Retention("count", todo, {}, touched, None, {})
  /\ UNCHANGED <<isRecording, recVars, objects, old, taken, asked, callVars, hookVars>>

\* Each recording that lost segments: count what is left,
RetentionCount(r) ==
  /\ tpc = "count" /\ r \in touched
  /\ Retention("apply", todo, {}, touched \ {r}, r, RowsOf(r))
  /\ UNCHANGED <<isRecording, recVars, segVars, asked, callVars, hookVars>>

\* and delete it, or set its size.  A recording that is gone makes the run fail.
RetentionApply ==
  /\ tpc = "apply"
  /\ IF ~Exists(trec)
     THEN UNCHANGED <<rec, row, total>> /\ Retention("idle", {}, {}, {}, None, {})
     ELSE /\ IF left = {}
             THEN Drop(trec) /\ UNCHANGED total
             ELSE total' = [total EXCEPT ![trec] = Cardinality(left)] /\ UNCHANGED <<rec, row>>
          /\ IF touched = {} THEN NextCamera ELSE Retention("count", todo, {}, touched, None, {})
  /\ UNCHANGED <<isRecording, recCam, objects, old, taken, asked, callVars, hookVars>>

RetentionThrows ==
  /\ tpc # "idle"
  /\ Retention("idle", {}, {}, {}, None, {})
  /\ UNCHANGED <<isRecording, recVars, segVars, asked, callVars, hookVars>>

-----------------------------------------------------------------------------
CallerStep(k) ==
  \/ StartRead(k) \/ StartQuota(k) \/ (\E r \in Recs : StartCreate(k, r)) \/ StartFlag(k)
  \/ StopRead(k) \/ StopRow(k) \/ StopFlag(k) \/ DeleteObjects(k) \/ DeleteRow(k)

HookStep(h) == HookQuota(h) \/ HookUpload(h) \/ HookRow(h) \/ HookTotal(h)

RetentionStep ==
  \/ RetentionRun \/ (\E c \in Cameras : RetentionFind(c)) \/ RetentionObjects \/ RetentionSkips
  \/ RetentionRows \/ (\E r \in Recs : RetentionCount(r)) \/ RetentionApply

Next ==
  \/ \E s \in Segments : Age(s)
  \/ \E k \in Callers, c \in Cameras : Request(k, c) \/ ScheduleCheck(k, c)
  \/ \E k \in Callers, r \in Recs : DeleteRead(k, r)
  \/ \E k \in Callers : CallerStep(k) \/ CallerThrows(k)
  \/ \E h \in Hooks, c \in Cameras, s \in Segments : HookRead(h, c, s)
  \/ \E h \in Hooks : HookStep(h) \/ HookThrows(h)
  \/ RetentionStep \/ RetentionThrows

Spec == Init /\ [][Next]_vars

\* Retention runs every hour, and time passes.  MinIO and the database fail now and
\* then, but not every time.
Fairness ==
  /\ WF_vars(RetentionStep) /\ \A s \in Segments : WF_vars(Age(s))
  /\ \A c \in Cameras : SF_vars(RetentionFind(c))
  /\ SF_vars(RetentionObjects) /\ SF_vars(RetentionRows)

FairSpec == Spec /\ Fairness

-----------------------------------------------------------------------------
(* Properties *)

\* Every variable stays in its type, and a call in progress has a camera.
TypeOK ==
  /\ isRecording \in [Cameras -> BOOLEAN]
  /\ rec \in [Recs -> {"unused", "recording", "complete", "gone"}]
  /\ recCam \in [Recs -> Cameras] /\ total \in [Recs -> Nat]
  /\ row \in [Segments -> Recs \cup {None}]
  /\ objects \subseteq Segments /\ old \subseteq Segments /\ taken \subseteq Segments
  /\ asked \subseteq Recs
  /\ cpc \in [Callers -> CallerPc] /\ ccam \in [Callers -> Cameras \cup {None}]
  /\ crec \in [Callers -> Recs \cup {None}] /\ clist \in [Callers -> SUBSET Segments]
  /\ \A k \in Callers : cpc[k] # "idle" => ccam[k] \in Cameras
  /\ hpc \in [Hooks -> HookPc]
  /\ hrec \in [Hooks -> Recs \cup {None}] /\ hseg \in [Hooks -> Segments \cup {None}]
  /\ tpc \in RetentionPc /\ todo \subseteq Cameras /\ expired \subseteq Segments
  /\ touched \subseteq Recs /\ trec \in Recs \cup {None} /\ left \subseteq Segments

\* An archived segment keeps its object until it is older than the retention or
\* the deletion of its recording has been asked for, whoever else fails or races.
ObjectsKept == \A s \in Rows : s \in objects \/ s \in old \/ row[s] \in asked

\* Callbacks that have found room.
Uploading == {h \in Hooks : hpc[h] \in {"upload", "row"}}

\* The quota is checked before the upload, by each callback for itself: what is
\* stored or about to be stored passes it by less than the callbacks there are.
QuotaNearlyKept ==
  Limit > 0 => Cardinality(Rows) + Cardinality(Uploading) < Limit + Cardinality(Hooks)

Archiving(h, s) == hpc[h] \in {"quota", "upload", "row"} /\ hseg[h] = s

\* What keeps the objects.  A segment is archived by one callback, which no deletion
\* and no retention run knows of before the row is there.
HooksApart ==
  /\ \A g, h \in Hooks : \A s \in Segments : Archiving(g, s) /\ Archiving(h, s) => g = h
  /\ \A h \in Hooks : \A s \in Segments : Archiving(h, s) => s \in taken /\ row[s] = None /\ s \notin old
  /\ \A h \in Hooks : hpc[h] = "row" => hseg[h] \in objects
  /\ \A h \in Hooks : hpc[h] # "idle" => hrec[h] \in Recs /\ hseg[h] \in Segments
  /\ Rows \subseteq taken /\ old \subseteq taken

\* A deletion lists segments of the recording it was asked for, none of them still
\* being archived.
DeletionsApart ==
  \A k \in Callers : \A s \in clist[k] :
    /\ crec[k] \in asked /\ row[s] \in {None, crec[k]} /\ s \in taken
    /\ \A h \in Hooks : ~Archiving(h, s)

\* Retention lists expired segments only.
RetentionApart == expired \subseteq old

\* The inductive invariant.
IInv == TypeOK /\ ObjectsKept /\ QuotaNearlyKept /\ HooksApart /\ DeletionsApart /\ RetentionApart

\* A row whose object is gone does not stay.
DanglingRowsGo == \A s \in Segments : (s \in Rows \ objects) ~> (s \notin Rows)

\* startRecording: "Camera ... is already recording".  So a camera that is flagged
\* has an active recording, or a stop is about to lower the flag.
FlagMeansRecording ==
  \A c \in Cameras : isRecording[c] =>
    Active(c) # {} \/ \E k \in Callers : cpc[k] = "stop_flag" /\ ccam[k] = c

\* Retention deletes a recording when all its segments are deleted.
FreshRowsKept ==
  [][\A s \in Segments : tpc' # tpc /\ row[s] # None /\ row'[s] = None => s \in old]_vars
=============================================================================
