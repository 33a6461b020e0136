------------------------------ MODULE StreamState ------------------------------
(***************************************************************************)
(* The state shared by everything that starts, stops or watches a camera's *)
(* FFmpeg: the Camera rows, the stream-ffmpeg BullMQ queue, the memory of  *)
(* the one API process, and SRS.  The modules FfmpegWorker,                *)
(* StreamRequests, HealthTick and ApiRestart give the actions of the       *)
(* components over this state; StreamLifecycle composes them.              *)
(*                                                                         *)
(* A step of the model is what the code does between two awaits.  One      *)
(* exception: StatusService.transition is a single step here; its own      *)
(* races are left to a module about the announcements it makes.            *)
(***************************************************************************)
EXTENDS Naturals, FiniteSets

CONSTANTS
  Cameras,         \* camera ids
  Kinds,           \* the kinds of camera there are, see Kind
  Requests,        \* API requests that may be in progress at the same time
  Profiles,        \* distinct profile fingerprints
  None,            \* no profile, no camera
  MaxAttempts,     \* attempts a job gets (MAX_STREAM_ATTEMPTS, 8 in the code)
  StuckAttempts,   \* STUCK_ATTEMPTS_THRESHOLD of the health tick (3)
  CrashThreshold,  \* CRASH_LOOP_THRESHOLD (5): more fast exits than this
  DefaultTol,      \* DEFAULT_MISS_TOLERANCE (2)
  MaxTol,          \* MAX_MISS_TOLERANCE (4)
  Concurrency,     \* worker slots of the queue's processor (50)
  MaxRestarts      \* bound: restarts of the API process in a behaviour

ASSUME StreamAssumption ==
  /\ Kinds \subseteq {"pull", "push", "passthrough"}
  /\ None \notin Profiles /\ None \notin Cameras
  /\ MaxAttempts \in Nat \ {0}
  /\ StuckAttempts \in 1..MaxAttempts
  /\ CrashThreshold \in Nat
  /\ DefaultTol \in Nat \ {0}
  /\ MaxTol \in Nat /\ MaxTol >= DefaultTol
  /\ Concurrency \in Nat \ {0}
  /\ MaxRestarts \in Nat

VARIABLES
  kind, status, maint, prof,          \* Camera row: how it is ingested, status,
                                      \* maintenanceMode, fingerprint of its profile
  job,                                \* the BullMQ job with id camera:{id}:ffmpeg
  pc, wprof,                          \* StreamProcessor.process: where it is, its `profile`
  ff, ffProf,                         \* runningProcesses and intentionalStops; profile spawned
  pub, hook,                          \* SRS: publisher of live/..., on_publish on its way
  degraded, crashes, tol,             \* StreamHealthMetrics: degradedSince, fastExits, tolerance
  tpc, todo, seen, tcam, misses,      \* the health tick: place, cameras left, rows it read
  srsIds, srsSeen,                    \* last getStreams() answer; detector's service id
  rpc, rcam, rprof,                   \* API requests: place, camera, profile read
  api, bootTodo, restarts             \* the API process

dbVars     == <<kind, status, maint, prof>>
workVars   == <<pc, wprof>>
ffVars     == <<ff, ffProf>>
srsVars    == <<pub, hook>>
healthVars == <<degraded, crashes, tol>>
tickVars   == <<tpc, todo, seen, tcam, misses, srsIds, srsSeen>>
reqVars    == <<rpc, rcam, rprof>>
apiVars    == <<api, bootTodo, restarts>>
vars == <<dbVars, job, workVars, ffVars, srsVars, healthVars, tickVars, reqVars, apiVars>>

-----------------------------------------------------------------------------
(* Camera status and StatusService.transition *)

\* ingestMode and needsTranscode: pulled; pushed to push/<key> and transcoded by an
\* FFmpeg that reads it back; pushed and forwarded by SRS, with no FFmpeg.
Kind == {"pull", "push", "passthrough"}
PassThrough(c) == kind[c] = "passthrough"

Status  == {"offline", "connecting", "online", "reconnecting", "degraded"}
Running == Status \ {"offline"}

ValidTransitions ==
  {<<"offline", "connecting">>, <<"offline", "online">>,
   <<"connecting", "online">>, <<"connecting", "offline">>,
   <<"connecting", "reconnecting">>, <<"connecting", "degraded">>,
   <<"online", "reconnecting">>, <<"online", "degraded">>,
   <<"online", "offline">>, <<"online", "connecting">>,
   <<"reconnecting", "online">>, <<"reconnecting", "offline">>,
   <<"reconnecting", "connecting">>, <<"reconnecting", "degraded">>,
   <<"degraded", "online">>, <<"degraded", "offline">>, <<"degraded", "connecting">>}

\* transition() returns for these and throws for the others.
Accepts(c, to) ==
  to = status[c] \/ to = "offline" \/ <<status[c], to>> \in ValidTransitions

\* The effect of transition(c, to): recordTransition clears degradedSince on
\* every real transition to another status than degraded.
Transition(c, to) ==
  LET moves == Accepts(c, to) /\ to # status[c]
  IN /\ status' = IF moves THEN [status EXCEPT ![c] = to] ELSE status
     /\ degraded' = IF moves /\ to # "degraded"
                    THEN [degraded EXCEPT ![c] = FALSE] ELSE degraded

\* Mutant of Desired: the status filter is gone.
NotInMaintenance == {c \in Cameras : ~maint[c]}

\* status in (online, connecting, reconnecting, degraded) and not in maintenance.
Desired == {c \in Cameras : status[c] \in Running /\ ~maint[c]}

-----------------------------------------------------------------------------
(* The queue: one job id per camera.  "queued" is waiting or delayed.  *)

JobSlot == [state : {"none", "queued", "active", "failed"}, name : {"start", "restart"},
            prof : Profiles \cup {None}, attempts : 0..MaxAttempts]

NoJob == [state |-> "none", name |-> "start", prof |-> None, attempts |-> 0]

\* add() with an id that exists, in whatever state, is a no-op.
AfterAdd(c, name, p) ==
  IF job[c].state = "none"
  THEN [state |-> "queued", name |-> name, prof |-> p, attempts |-> 0]
  ELSE job[c]

\* Mutant of AfterRemove: the lock of an active job is ignored.
ForcedRemove(c) == {NoJob}

\* remove() of an active job throws, and every caller swallows that.  A job whose
\* worker died with the process is locked until its lock expires.
AfterRemove(c) ==
  CASE job[c].state # "active" -> {NoJob}
    [] job[c].state = "active" /\ pc[c] = "idle" -> {NoJob, job[c]}
    [] OTHER -> {job[c]}

-----------------------------------------------------------------------------
(* FFmpeg and the process that runs it *)

Alive == api # "down"

\* The worker listens to camera:{id}:restart.
Subscribed(c) == pc[c] \in {"subscribed", "branch", "spawn", "await", "rejected", "degrading"}

\* FfmpegService.stopStream / gracefulRestart: mark the stop as intentional and
\* signal.  A process that ignores SIGTERM is killed by forceKill, or dies later.
AfterKill(c) == IF ff[c] = "none" THEN "none" ELSE "stopping"
=============================================================================
