---------------------------- MODULE StreamLifecycle ----------------------------
(***************************************************************************)
(* The life of a camera's stream: requests, the job queue's worker, the    *)
(* FFmpeg child and SRS, the health tick and restarts of the API process,  *)
(* all acting on the state of StreamState.                                 *)
(***************************************************************************)
EXTENDS FfmpegWorker, StreamRequests, HealthTick, ApiRestart

\* A job that the process before this one left in the queue.
Leftover == [state : {"queued", "active", "failed"}, name : {"start", "restart"},
             prof : Profiles, attempts : {0}]

\* The API boots with whatever rows and jobs there are, and no stream.
Init ==
  /\ kind \in [Cameras -> Kinds]
  /\ status \in [Cameras -> Status] /\ maint \in [Cameras -> BOOLEAN]
  /\ prof \in [Cameras -> Profiles]
  /\ job \in [Cameras -> Leftover \cup {NoJob}]
  /\ pc = [c \in Cameras |-> "idle"] /\ wprof = [c \in Cameras |-> None]
  /\ ff = [c \in Cameras |-> "none"] /\ ffProf = [c \in Cameras |-> None]
  /\ pub = [c \in Cameras |-> "none"] /\ hook = [c \in Cameras |-> FALSE]
  /\ degraded = [c \in Cameras |-> FALSE] /\ crashes = [c \in Cameras |-> 0]
  /\ tol = [c \in Cameras |-> DefaultTol]
  /\ tpc = "idle" /\ todo = {} /\ seen = Rows({}) /\ tcam = None
  /\ misses = [c \in Cameras |-> 0] /\ srsIds = NoCache /\ srsSeen = "unknown"
  /\ rpc = [r \in Requests |-> "idle"] /\ rcam \in [Requests -> Cameras]
  /\ rprof = [r \in Requests |-> None]
  /\ api = "booting" /\ bootTodo = Desired /\ restarts = 0

Next == WorkerNext \/ ChildNext \/ RequestNext \/ TickNext \/ ApiNext

Spec == Init /\ [][Next]_vars

(***************************************************************************)
(* Fairness.  Code that is past an await goes on; a child that was told to *)
(* stop is gone within seconds (SIGKILL); SRS waits for its callback; the  *)
(* tick is a repeatable job, and getStreams() answers again and again.     *)
(* Nothing says that a request is made, a child dies or SRS restarts.      *)
(***************************************************************************)
WorkerFair(c) ==
  WF_vars(Pick(c) \/ GuardRefuse(c) \/ GuardPass(c) \/ SafetyNet(c) \/ Branch(c) \/ Spawn(c)
          \/ OpenBreaker(c) \/ TellDegraded(c) \/ Rejected(c) \/ Fail(c) \/ Finish(c) \/ Stalled(c))

Fairness ==
  /\ \A c \in Cameras : WorkerFair(c) /\ WF_vars(Stopped(c)) /\ WF_vars(OnPublish(c))
  /\ \A r \in Requests : WF_vars(RequestStep(r))
  /\ WF_vars(List) /\ WF_vars(DetectRestart) /\ SF_vars(ProbeAnswers)
  /\ \A c \in Cameras : WF_vars(Requeue(c)) /\ WF_vars(ScanStep(c))
  /\ WF_vars(Exit) /\ WF_vars(Boot) /\ WF_vars(Listen)
  /\ \A c \in Cameras : WF_vars(BootEnqueue(c))

FairSpec == Spec /\ Fairness

-----------------------------------------------------------------------------
(* Types *)

DbType ==
  /\ kind \in [Cameras -> Kinds] /\ status \in [Cameras -> Status]
  /\ maint \in [Cameras -> BOOLEAN] /\ prof \in [Cameras -> Profiles]
JobType == job \in [Cameras -> JobSlot]
WorkType == pc \in [Cameras -> WorkerPc] /\ wprof \in [Cameras -> Profiles \cup {None}]
FfType ==
  /\ ff \in [Cameras -> {"none", "starting", "publishing", "stopping"}]
  /\ ffProf \in [Cameras -> Profiles \cup {None}]
SrsType == pub \in [Cameras -> {"none", "own", "phantom"}] /\ hook \in [Cameras -> BOOLEAN]
HealthType ==
  /\ degraded \in [Cameras -> BOOLEAN] /\ crashes \in [Cameras -> 0..(CrashThreshold + 1)]
  /\ tol \in [Cameras -> DefaultTol..MaxTol]
TickType ==
  /\ tpc \in TickPc /\ todo \in SUBSET Cameras /\ tcam \in Cameras \cup {None}
  /\ seen \in [Cameras -> [online : BOOLEAN, prof : Profiles \cup {None}]]
  /\ misses \in [Cameras -> 0..MaxTol]
  /\ srsIds \in SUBSET (Cameras \cup {None}) /\ srsSeen \in {"unknown", "current", "old"}
ReqType ==
  /\ rpc \in [Requests -> RequestPc] /\ rcam \in [Requests -> Cameras]
  /\ rprof \in [Requests -> Profiles \cup {None}]
ApiType ==
  /\ api \in {"up", "stopping", "down", "booting"} /\ bootTodo \in SUBSET Cameras
  /\ restarts \in 0..MaxRestarts
  /\ api \in {"stopping", "down"} => restarts < MaxRestarts

\* Every variable of the model stays in its type; for the counters (attempts,
\* fast exits, tolerance, misses) that is the bound the code keeps them in.
TypeOK ==
  DbType /\ JobType /\ WorkType /\ FfType /\ SrsType /\ HealthType /\ TickType /\ ReqType /\ ApiType

-----------------------------------------------------------------------------
(* Safety *)

\* Killing a camera's FFmpeg always releases its job: the child in runningProcesses
\* is the one that the camera's worker awaits, there is one whenever a worker
\* awaits, and that worker holds the active job.
\* stopStream, the tick and the hot reload all rely on it.
KillReleasesJob ==
  \A c \in Cameras :
    /\ ff[c] # "none" <=> pc[c] = "await"
    /\ pc[c] # "idle" => job[c].state = "active"

\* The circuit breaker: a worker neither spawns for a camera whose breaker is open
\* nor closes it, although the flag is read several awaits before the spawn and
\* every transition away from degraded clears it.
BreakerHolds ==
  [][\A c \in Cameras : degraded[c] =>
       /\ ~(ff[c] = "none" /\ ff'[c] = "starting")
       /\ degraded'[c] \/ pc'[c] = pc[c] \/ api' = "down"]_vars

\* A breaker that is open shows: once the worker that opened it has told the row,
\* the row says degraded, or somebody has stopped the camera.  No open breaker
\* hides behind a status that looks alive.
BreakerShows ==
  \A c \in Cameras :
    degraded[c] => status[c] \in {"degraded", "offline"} \/ pc[c] = "degrading"

\* No FFmpeg ever runs for a push+passthrough camera, whoever enqueues jobs for
\* it, and such a job is never retried.
PassThroughSpared ==
  \A c \in Cameras : PassThrough(c) => ff[c] = "none" /\ job[c].attempts = 0

\* What keeps these true, camera by camera: how far the worker is says what is
\* known of the child, the job, the breaker and the attempts that are left.
Stage(c) ==
  /\ ff[c] # "none" <=> pc[c] = "await"
  /\ pc[c] # "idle" => job[c].state = "active"
  /\ job[c].state \in {"queued", "active"} => job[c].attempts < MaxAttempts
  /\ pc[c] \in {"subscribed", "branch", "spawn"} => ~degraded[c]
  /\ degraded[c] => status[c] \in {"degraded", "offline"} \/ pc[c] = "degrading"
  /\ PassThrough(c) => pc[c] \in {"idle", "guard", "finishing"} /\ job[c].attempts = 0

IInv == TypeOK /\ \A c \in Cameras : Stage(c)

\* A camera nobody asks for stays alone.  Quiet: offline, nothing queued, running
\* or on its way.  Only a request or an encoder wakes it; never a tick, an SRS
\* restart, a boot, or anything left over from before it was stopped.
Quiet(c) ==
  /\ status[c] = "offline" /\ job[c] = NoJob /\ pc[c] = "idle" /\ ff[c] = "none"
  /\ ~hook[c] /\ c \notin todo /\ tcam # c /\ c \notin bootTodo
  /\ \A r \in Requests : rpc[r] # "idle" => rcam[r] # c

Asked(c) ==
  \/ PassThrough(c) /\ hook'[c]
  \/ \E r \in Requests : rpc[r] = "idle" /\ rpc'[r] # "idle" /\ rcam'[r] = c

QuietStaysQuiet ==
  [][\A c \in Cameras : Quiet(c) => Quiet(c)' \/ Asked(c)]_vars

\* The abstract slot this implements.
SlotOf(c) ==
  CASE job[c].state \in {"none", "failed"} -> "free"
    [] job[c].state = "queued" -> "waiting"
    [] OTHER -> IF ff[c] = "none" THEN "held" ELSE "streaming"

SlotMap == [c \in Cameras |-> SlotOf(c)]

Abstract == INSTANCE CameraSlot WITH slot <- SlotMap
SlotSpec == Abstract!Spec

-----------------------------------------------------------------------------
(* Liveness *)

\* The tick's promise: a camera that should run, has no job and whose breaker is
\* closed gets a job, unless somebody stops it first or it is found degraded.
Claimed(c) == job[c].state \in {"queued", "active"}
ShouldRun(c) ==
  ~PassThrough(c) /\ status[c] \in {"online", "connecting", "reconnecting"} /\ ~maint[c]
Stood(c) == status[c] \in {"offline", "degraded"} \/ maint[c]

DeadGetsJob ==
  \A c \in Cameras : (ShouldRun(c) /\ job[c].state = "none") ~> (Claimed(c) \/ Stood(c))

-----------------------------------------------------------------------------
(* What comments of the code say, and the code does not do *)

\* stopStream: a job that is still locked is reaped by its worker.  So no child
\* is spawned for a camera that has been set offline.
NoSpawnAfterStop ==
  [][\A c \in Cameras : ff[c] = "none" /\ ff'[c] = "starting" => status[c] # "offline"]_vars

\* enqueueProfileRestart: gracefulRestart makes startStream's promise reject, and
\* BullMQ retries.  So a worker that was handed another profile does not complete.
HandedProfileIsRetried ==
  [][\A c \in Cameras :
       pc[c] = "await" /\ pc'[c] = "finishing" => wprof[c] = ffProf[c]]_vars

\* runFingerprintSafetyNet: an edit that landed before the worker listened is
\* picked up.  So a child is spawned with the row's profile, unless the reload of
\* an edit is still on its way.
FreshProfileSpawned ==
  [][\A c \in Cameras :
       ff[c] = "none" /\ ff'[c] = "starting" =>
         \/ ffProf'[c] = prof[c]
         \/ \E r \in Requests : rpc[r] \in ReloadPc /\ rcam[r] = c]_vars

\* runTick skips a camera that is degraded: the operator closes the breaker.  So
\* the tick does not.
TickSparesBreaker ==
  [][\A c \in Cameras : degraded[c] /\ ~degraded'[c] => tpc' = tpc]_vars

\* enqueueStart: a 'restart' job in flight is preserved, and the next tick tries
\* again.  So a camera that should run is not left with a failed job for ever.
FailedJobReplaced ==
  \A c \in Cameras : (ShouldRun(c) /\ job[c].state = "failed") ~> (Claimed(c) \/ Stood(c))
=============================================================================
