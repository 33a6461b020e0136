------------------------------ MODULE StreamProbe ------------------------------
(***************************************************************************)
(* The probes of one camera: who enqueues them (create, import and the     *)
(* retry button as "ffprobe", on_publish as "srs-api"), the stream-probe   *)
(* jobs with their fixed ids, and StreamProbeProcessor, which runs several *)
(* jobs at a time and writes the camera's codecInfo.  The queue has no     *)
(* removeOnComplete: a job that has ended keeps its id.                    *)
(***************************************************************************)
EXTENDS Naturals

CONSTANTS
  MaxProbeFaults  \* bound: failed writes and deaths of the process

ASSUME ProbeAssumption == MaxProbeFaults \in Nat

Sources == {"ffprobe", "srs-api"}

VARIABLES
  codec,      \* codecInfo.status of the Camera row
  probeJob,   \* the jobs probe-{id}-ffprobe and probe-{id}-srs-api: state, stalls
  probing,    \* the processor: where each job is
  enqueuing,  \* enqueueProbeFromSrs: where it is
  wanted,     \* history: a retry was asked for and no ffprobe has begun since
  orphaned,   \* history: a probe ended without its last word in the row
  faults

probeVars == <<codec, probeJob, probing, enqueuing, wanted, orphaned, faults>>

NoProbeJob == [state |-> "none", stalls |-> 0]

ProbeInit ==
  /\ codec = "none"
  /\ probeJob = [s \in Sources |-> NoProbeJob] /\ probing = [s \in Sources |-> "idle"]
  /\ enqueuing = "idle" /\ wanted = FALSE /\ orphaned = FALSE /\ faults = 0

Fault == faults < MaxProbeFaults /\ faults' = faults + 1

\* add() of an id that the queue knows does nothing.
AddJob(s) ==
  probeJob' = IF probeJob[s].state = "none" THEN [probeJob EXCEPT ![s].state = "waiting"] ELSE probeJob

\* createCamera and bulkImport.
ProbeNew ==
  /\ AddJob("ffprobe") /\ codec = "none"
  /\ UNCHANGED <<codec, probing, enqueuing, wanted, orphaned, faults>>

\* enqueueProbeRetry, from POST cameras/:id/probe.
ProbeRetry ==
  /\ codec # "none" /\ ~wanted
  /\ AddJob("ffprobe")
  /\ wanted' = TRUE
  /\ UNCHANGED <<codec, probing, enqueuing, orphaned, faults>>

\* enqueueProbeFromSrs: getJob, remove, add; remove of an active job is swallowed.
SrsFind ==
  /\ enqueuing = "idle"
  /\ enqueuing' = IF probeJob["srs-api"].state = "none" THEN "add" ELSE "remove"
  /\ UNCHANGED <<codec, probeJob, probing, wanted, orphaned, faults>>

SrsRemove ==
  /\ enqueuing = "remove" /\ enqueuing' = "add"
  /\ probeJob' = IF probeJob["srs-api"].state = "active" THEN probeJob
                 ELSE [probeJob EXCEPT !["srs-api"] = NoProbeJob]
  /\ UNCHANGED <<codec, probing, wanted, orphaned, faults>>

SrsAdd ==
  /\ enqueuing = "add" /\ enqueuing' = "idle"
  /\ AddJob("srs-api")
  /\ UNCHANGED <<codec, probing, wanted, orphaned, faults>>

(***************************************************************************)
(* StreamProbeProcessor.process.                                           *)
(***************************************************************************)
ProbeTake(s) ==
  /\ probeJob[s].state = "waiting"
  /\ probeJob' = [probeJob EXCEPT ![s].state = "active"]
  /\ probing' = [probing EXCEPT ![s] = "pending"]
  /\ wanted' = (wanted /\ s # "ffprobe")
  /\ UNCHANGED <<codec, enqueuing, orphaned, faults>>

Ended(s, state) ==
  /\ probeJob' = [probeJob EXCEPT ![s].state = state]
  /\ probing' = [probing EXCEPT ![s] = "idle"]

\* The first write stands outside the try: when it fails, so does the job.
WritePending(s) ==
  /\ probing[s] = "pending"
  /\ \/ /\ codec' = "pending" /\ probing' = [probing EXCEPT ![s] = "probe"]
        /\ UNCHANGED <<probeJob, faults, orphaned>>
     \/ Fault /\ Ended(s, "failed") /\ orphaned' = TRUE /\ UNCHANGED codec
  /\ UNCHANGED <<enqueuing, wanted>>

\* What ffprobe or SRS says; a codec SRS cannot pass on is a mismatch of the
\* srs-api source only, and its publisher is kicked after the write.
Probed(s) ==
  /\ probing[s] = "probe"
  /\ \E r \in {"success", "failed"} \cup (IF s = "srs-api" THEN {"mismatch"} ELSE {}) :
       probing' = [probing EXCEPT ![s] = r]
  /\ UNCHANGED <<codec, probeJob, enqueuing, wanted, orphaned, faults>>

\* A failed write of a result is reported like a failed probe.
WriteResult(s) ==
  /\ probing[s] \in {"success", "mismatch"}
  /\ \/ codec' = probing[s] /\ Ended(s, "completed") /\ UNCHANGED faults
     \/ Fault /\ probing' = [probing EXCEPT ![s] = "failed"] /\ UNCHANGED <<codec, probeJob>>
  /\ UNCHANGED <<enqueuing, wanted, orphaned>>

\* Mutant of WriteFailed: the row is not told of the failure.
WriteFailedNot(s) ==
  /\ probing[s] = "failed" /\ Ended(s, "completed")
  /\ UNCHANGED <<codec, enqueuing, wanted, orphaned, faults>>

\* The catch block: the job completes, its error is only in the row.
WriteFailed(s) ==
  /\ probing[s] = "failed"
  /\ Ended(s, "completed")
  /\ \/ codec' = "failed" /\ UNCHANGED <<faults, orphaned>>
     \/ Fault /\ orphaned' = TRUE /\ UNCHANGED codec
  /\ UNCHANGED <<enqueuing, wanted>>

\* The process dies: an active job is given out again once, then it is failed.
ProbeCrash ==
  /\ Fault
  /\ probing' = [s \in Sources |-> "idle"] /\ enqueuing' = "idle"
  /\ probeJob' = [s \in Sources |->
       IF probeJob[s].state # "active" THEN probeJob[s]
       ELSE [state |-> IF probeJob[s].stalls = 0 THEN "waiting" ELSE "failed",
             stalls |-> probeJob[s].stalls + 1]]
  /\ orphaned' = (orphaned \/ enqueuing = "add" \/ \E s \in Sources : probeJob'[s].state = "failed")
  /\ UNCHANGED <<codec, wanted>>

ProbeStep(s) ==
  \/ ProbeTake(s) \/ WritePending(s) \/ Probed(s) \/ WriteResult(s) \/ WriteFailed(s)

ProbeNext ==
  \/ ProbeNew \/ ProbeRetry \/ SrsFind \/ SrsRemove \/ SrsAdd
  \/ \E s \in Sources : ProbeStep(s)
  \/ ProbeCrash

\* Workers take what waits; ffprobe has a timeout and HTTP calls end.
ProbeSpec == ProbeInit /\ [][ProbeNext]_probeVars /\ \A s \in Sources : WF_probeVars(ProbeStep(s))

(***************************************************************************)
(* Properties.                                                             *)
(***************************************************************************)
ProbeTypeOK ==
  /\ codec \in {"none", "pending", "success", "failed", "mismatch"}
  /\ probeJob \in [Sources -> [state : {"none", "waiting", "active", "completed", "failed"},
                               stalls : 0..2]]
  /\ probing \in [Sources -> {"idle", "pending", "probe", "success", "failed", "mismatch"}]
  /\ enqueuing \in {"idle", "remove", "add"}
  /\ wanted \in BOOLEAN /\ orphaned \in BOOLEAN /\ faults \in 0..MaxProbeFaults

\* A camera shown as being probed has a probe on its way, or one about to be
\* enqueued again, unless a probe ended without its last word: with two sources,
\* pending and results of both come in any order, and a job given out again
\* after a crash may be removed by on_publish.
\* (StreamProbeProcessor.process, stream-probe.processor.ts:108)
PendingHasProbe ==
  codec = "pending" /\ ~orphaned =>
    enqueuing = "add" \/ \E s \in Sources : probeJob[s].state \in {"waiting", "active"}

\* A retry that was asked for is followed by a probe.  (useProbeRetry and
\* POST cameras/:id/probe, cameras.controller.ts:510)
RetryRuns == wanted ~> ~wanted
=============================================================================
