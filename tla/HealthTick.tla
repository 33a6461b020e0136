------------------------------ MODULE HealthTick ------------------------------
(***************************************************************************)
(* The 60-second health tick (CameraHealthService.runTick, concurrency 1): *)
(* first SrsRestartDetector.detectAndHandle, then one list of the cameras  *)
(* that should run, one getStreams() call, and the recovery of each dead   *)
(* camera.  The rows it works with are the ones it read at the start.      *)
(*                                                                         *)
(* tpc: idle, requeue (SRS restarted), probe, scan, and for the camera     *)
(* being recovered: reconnect, check, remove, add.                         *)
(***************************************************************************)
EXTENDS StreamState

TickPc == {"idle", "requeue", "probe", "scan", "reconnect", "check", "remove", "add"}

NoRow   == [online |-> FALSE, prof |-> None]
NoCache == {None}   \* srsCacheUpdatedAt = 0

\* The rows of a list of cameras, as far as the tick uses them later.
Rows(list) ==
  [c \in Cameras |-> IF c \in list THEN [online |-> status[c] = "online", prof |-> prof[c]]
                                   ELSE NoRow]

\* Done with camera c: on to the next one of the list.
NextCamera(c, place) ==
  /\ todo' = todo \ {c}
  /\ seen' = [seen EXCEPT ![c] = NoRow]
  /\ tcam' = None
  /\ tpc' = IF todo = {c} /\ place = "scan" THEN "idle" ELSE place

-----------------------------------------------------------------------------
(* SrsRestartDetector *)

\* The service id changed: every camera that should run is restarted.
DetectRestart ==
  /\ Alive /\ tpc = "idle" /\ srsSeen = "old"
  /\ tpc' = "requeue"
  /\ todo' = Desired
  /\ seen' = Rows(Desired)
  /\ srsSeen' = "current"
  /\ UNCHANGED <<dbVars, job, workVars, ffVars, srsVars, healthVars, tcam, misses, srsIds,
                 reqVars, apiVars>>

\* One camera of handleRestart: kill its FFmpeg, and add a job without removing
\* the one that may be there.
Requeue(c) ==
  /\ tpc = "requeue" /\ c \in todo
  /\ ff' = [ff EXCEPT ![c] = AfterKill(c)]
  /\ job' = [job EXCEPT ![c] = AfterAdd(c, "start", seen[c].prof)]
  /\ NextCamera(c, "requeue")
  /\ UNCHANGED <<dbVars, workVars, ffProf, srsVars, healthVars, misses, srsIds, srsSeen,
                 reqVars, apiVars>>

-----------------------------------------------------------------------------
(* runTick: the list and the probe *)

\* The first getSummaries after boot sets the baseline; one that fails is skipped.
List ==
  /\ \/ Alive /\ tpc = "idle"
     \/ tpc = "requeue" /\ todo = {}
  /\ srsSeen' \in IF srsSeen = "unknown" THEN {"unknown", "current"} ELSE {srsSeen}
  /\ tpc' = "probe"
  /\ todo' = Desired
  /\ seen' = Rows(Desired)
  /\ UNCHANGED <<dbVars, job, workVars, ffVars, srsVars, healthVars, tcam, misses, srsIds,
                 reqVars, apiVars>>

AfterProbe == IF todo = {} THEN "idle" ELSE "scan"

ProbeAnswers ==
  /\ tpc = "probe"
  /\ srsIds' = {c \in Cameras : pub[c] # "none"}
  /\ tpc' = AfterProbe
  /\ UNCHANGED <<dbVars, job, workVars, ffVars, srsVars, healthVars, todo, seen, tcam, misses,
                 srsSeen, reqVars, apiVars>>

\* getStreams() failed: the last answer is used while it is fresh,
ProbeCached ==
  /\ tpc = "probe" /\ srsIds # NoCache
  /\ tpc' = AfterProbe
  /\ UNCHANGED <<dbVars, job, workVars, ffVars, srsVars, healthVars, todo, seen, tcam, misses,
                 srsIds, srsSeen, reqVars, apiVars>>

\* and otherwise the tick is over.
ProbeSkipped ==
  /\ tpc = "probe"
  /\ tpc' = "idle" /\ todo' = {} /\ seen' = Rows({})
  /\ UNCHANGED <<dbVars, job, workVars, ffVars, srsVars, healthVars, tcam, misses,
                 srsIds, srsSeen, reqVars, apiVars>>

-----------------------------------------------------------------------------
(* runTick: one camera of the list *)

FfmpegAlive(c) == ff[c] # "none"
SrsAlive(c)    == c \in srsIds

\* getMissTolerance: a camera online for long enough is back at the default.
Tolerances(c) == IF status[c] = "online" THEN {tol[c], DefaultTol} ELSE {tol[c]}

\* The miss counter, as far as a tolerance can tell its values apart.
Missed(c) == IF misses[c] < MaxTol THEN misses[c] + 1 ELSE MaxTol

Counted(c) ==
  misses' = [misses EXCEPT ![c] = IF SrsAlive(c) THEN 0 ELSE Missed(c)]

Tolerated(c, t) ==
  ~SrsAlive(c) /\ ~PassThrough(c) /\ FfmpegAlive(c) /\ Missed(c) < t

\* Mutant of Dead: what SRS lists is alive, whether or not FFmpeg runs.
DeadForSrs(c) == ~SrsAlive(c)

Dead(c) == IF PassThrough(c) THEN ~SrsAlive(c) ELSE ~FfmpegAlive(c) \/ ~SrsAlive(c)

\* Mutant of Bumped: MAX_MISS_TOLERANCE is not looked at.
BumpedWithoutMax(c, t) == IF seen[c].online THEN t + 1 ELSE t

\* bumpMissTolerance, for a camera that was online when the tick read it.
Bumped(c, t) == IF seen[c].online /\ t < MaxTol THEN t + 1 ELSE t

Scanning(c) == tpc = "scan" /\ c \in todo

ScanDegraded(c) ==
  /\ Scanning(c) /\ degraded[c]
  /\ NextCamera(c, "scan")
  /\ UNCHANGED <<dbVars, job, workVars, ffVars, srsVars, healthVars, misses, srsIds, srsSeen,
                 reqVars, apiVars>>

\* Alive, or dead for SRS but not for long enough.
ScanAlive(c) ==
  /\ Scanning(c) /\ ~degraded[c]
  /\ \E t \in Tolerances(c) :
       /\ Tolerated(c, t) \/ ~Dead(c)
       /\ tol' = [tol EXCEPT ![c] = t]
  /\ Counted(c)
  /\ NextCamera(c, "scan")
  /\ UNCHANGED <<dbVars, job, workVars, ffVars, srsVars, degraded, crashes, srsIds, srsSeen,
                 reqVars, apiVars>>

\* A dead push+passthrough camera is only reported; its encoder has to come back.
ScanEncoderGone(c) ==
  /\ Scanning(c) /\ ~degraded[c] /\ Dead(c) /\ PassThrough(c)
  /\ \E t \in Tolerances(c) : tol' = [tol EXCEPT ![c] = Bumped(c, t)]
  /\ Counted(c)
  /\ Transition(c, "reconnecting")
  /\ NextCamera(c, "scan")
  /\ UNCHANGED <<kind, maint, prof, job, workVars, ffVars, srsVars, crashes, srsIds, srsSeen,
                 reqVars, apiVars>>

ScanDead(c) ==
  /\ Scanning(c) /\ ~degraded[c] /\ Dead(c) /\ ~PassThrough(c)
  /\ \E t \in Tolerances(c) :
       /\ ~Tolerated(c, t)
       /\ tol' = [tol EXCEPT ![c] = Bumped(c, t)]
  /\ Counted(c)
  /\ ff' = [ff EXCEPT ![c] = AfterKill(c)]
  /\ tpc' = "reconnect" /\ tcam' = c
  /\ UNCHANGED <<dbVars, job, workVars, ffProf, srsVars, degraded, crashes, todo, seen, srsIds,
                 srsSeen, reqVars, apiVars>>

\* A transition that throws is logged, and recovery goes on.
Reconnect(c) ==
  /\ tpc = "reconnect" /\ tcam = c
  /\ Transition(c, "reconnecting")
  /\ tpc' = "check"
  /\ UNCHANGED <<kind, maint, prof, job, workVars, ffVars, srsVars, crashes, tol, todo, seen, tcam,
                 misses, srsIds, srsSeen, reqVars, apiVars>>

InFlightRestart(c) == job[c].state # "none" /\ job[c].name = "restart"

\* enqueueStart: a job named 'restart' is left alone,
KeepRestart(c) ==
  /\ tpc = "check" /\ tcam = c /\ InFlightRestart(c)
  /\ NextCamera(c, "scan")
  /\ UNCHANGED <<dbVars, job, workVars, ffVars, srsVars, healthVars, misses, srsIds, srsSeen,
                 reqVars, apiVars>>

\* any other is kept too unless it is stuck in its retries,
CheckJob(c) ==
  /\ tpc = "check" /\ tcam = c /\ ~InFlightRestart(c)
  /\ tpc' = IF job[c].attempts >= StuckAttempts THEN "remove" ELSE "add"
  /\ UNCHANGED <<dbVars, job, workVars, ffVars, srsVars, healthVars, todo, seen, tcam, misses,
                 srsIds, srsSeen, reqVars, apiVars>>

\* and then remove() goes by the job's id.
RemoveStuck(c) ==
  /\ tpc = "remove" /\ tcam = c
  /\ \E j \in AfterRemove(c) : job' = [job EXCEPT ![c] = j]
  /\ tpc' = "add"
  /\ UNCHANGED <<dbVars, workVars, ffVars, srsVars, healthVars, todo, seen, tcam, misses,
                 srsIds, srsSeen, reqVars, apiVars>>

EnqueueStart(c) ==
  /\ tpc = "add" /\ tcam = c
  /\ job' = [job EXCEPT ![c] = AfterAdd(c, "start", seen[c].prof)]
  /\ NextCamera(c, "scan")
  /\ UNCHANGED <<dbVars, workVars, ffVars, srsVars, healthVars, misses, srsIds, srsSeen,
                 reqVars, apiVars>>

ScanStep(c) ==
  \/ ScanDegraded(c) \/ ScanAlive(c) \/ ScanEncoderGone(c) \/ ScanDead(c)
  \/ Reconnect(c) \/ KeepRestart(c) \/ CheckJob(c) \/ RemoveStuck(c) \/ EnqueueStart(c)

TickNext ==
  \/ DetectRestart \/ List \/ ProbeAnswers \/ ProbeCached \/ ProbeSkipped
  \/ \E c \in Cameras : Requeue(c) \/ ScanStep(c)
=============================================================================
