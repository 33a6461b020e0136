---------------------------- MODULE StreamRequests ----------------------------
(***************************************************************************)
(* What API requests and the push branch of on_publish do to a camera's    *)
(* stream: StreamsService.startStream, stopStream, enqueueProfileRestart,  *)
(* CamerasService.enterMaintenance and exitMaintenance.  Each request is a *)
(* little process: rpc says what it does next, rcam on which camera.       *)
(***************************************************************************)
EXTENDS StreamState

StartPc  == {"start_read", "start_remove", "start_add"}
StopPc   == {"stop_remove", "stop_offline"}
MaintPc  == {"maint_kill", "maint_remove", "maint_offline", "maint_force"}
ReloadPc == {"reload_list", "reload_check", "reload_signal", "reload_remove", "reload_add"}
RequestPc == {"idle"} \cup StartPc \cup StopPc \cup MaintPc \cup ReloadPc

Begin(r, c, place) ==
  /\ api = "up" /\ rpc[r] = "idle"
  /\ rpc' = [rpc EXCEPT ![r] = place]
  /\ rcam' = [rcam EXCEPT ![r] = c]

Goto(r, place) == rpc' = [rpc EXCEPT ![r] = place] /\ UNCHANGED rcam

End_(r) ==
  /\ rpc' = [rpc EXCEPT ![r] = "idle"]
  /\ rprof' = [rprof EXCEPT ![r] = None]
  /\ UNCHANGED rcam

Remove(c) == \E j \in AfterRemove(c) : job' = [job EXCEPT ![c] = j]

-----------------------------------------------------------------------------
(* startStream *)

\* POST stream/start: read the camera and its profile.  A push+passthrough camera
\* needs no FFmpeg, and the call returns.
StartStream(r, c) ==
  /\ ~PassThrough(c)
  /\ Begin(r, c, "start_remove")
  /\ rprof' = [rprof EXCEPT ![r] = prof[c]]
  /\ UNCHANGED <<dbVars, job, workVars, ffVars, srsVars, healthVars, tickVars, apiVars>>

\* on_publish for push/<key>: online first, then startStream.
OnPublishPush(r, c) ==
  /\ kind[c] = "push"
  /\ Begin(r, c, "start_read")
  /\ Transition(c, "online")
  /\ UNCHANGED <<kind, maint, prof, job, workVars, ffVars, srsVars, crashes, tol, tickVars, rprof, apiVars>>

StartRead(r) ==
  /\ rpc[r] = "start_read"
  /\ Goto(r, "start_remove")
  /\ rprof' = [rprof EXCEPT ![r] = prof[rcam[r]]]
  /\ UNCHANGED <<dbVars, job, workVars, ffVars, srsVars, healthVars, tickVars, apiVars>>

StartRemove(r) ==
  /\ rpc[r] = "start_remove"
  /\ Remove(rcam[r])
  /\ Goto(r, "start_add")
  /\ UNCHANGED <<dbVars, workVars, ffVars, srsVars, healthVars, tickVars, rprof, apiVars>>

StartAdd(r) ==
  /\ rpc[r] = "start_add"
  /\ job' = [job EXCEPT ![rcam[r]] = AfterAdd(rcam[r], "start", rprof[r])]
  /\ End_(r)
  /\ UNCHANGED <<dbVars, workVars, ffVars, srsVars, healthVars, tickVars, apiVars>>

-----------------------------------------------------------------------------
(* stopStream, on its own and from enterMaintenance *)

\* Kill FFmpeg first, so that the worker's await resolves and frees the job.
StopStream(r, c) ==
  /\ Begin(r, c, "stop_remove")
  /\ ff' = [ff EXCEPT ![c] = AfterKill(c)]
  /\ UNCHANGED <<dbVars, job, workVars, ffProf, srsVars, healthVars, tickVars, rprof, apiVars>>

\* The flag goes up first.  A push camera's encoder owns its stream: that is all.
EnterMaintenance(r, c) ==
  /\ ~maint[c]
  /\ Begin(r, c, IF kind[c] # "pull" THEN "idle" ELSE "maint_kill")
  /\ maint' = [maint EXCEPT ![c] = TRUE]
  /\ UNCHANGED <<kind, status, prof, job, workVars, ffVars, srsVars, healthVars, tickVars, rprof, apiVars>>

MaintKill(r) ==
  /\ rpc[r] = "maint_kill"
  /\ ff' = [ff EXCEPT ![rcam[r]] = AfterKill(rcam[r])]
  /\ Goto(r, "maint_remove")
  /\ UNCHANGED <<dbVars, job, workVars, ffProf, srsVars, healthVars, tickVars, rprof, apiVars>>

StopRemove(r) ==
  /\ rpc[r] \in {"stop_remove", "maint_remove"}
  /\ Remove(rcam[r])
  /\ Goto(r, IF rpc[r] = "stop_remove" THEN "stop_offline" ELSE "maint_offline")
  /\ UNCHANGED <<dbVars, workVars, ffVars, srsVars, healthVars, tickVars, rprof, apiVars>>

StopOffline(r) ==
  /\ rpc[r] \in {"stop_offline", "maint_offline"}
  /\ Transition(rcam[r], "offline")
  /\ Goto(r, IF rpc[r] = "stop_offline" THEN "idle" ELSE "maint_force")
  /\ UNCHANGED <<kind, maint, prof, job, workVars, ffVars, srsVars, crashes, tol, tickVars, rprof, apiVars>>

\* enterMaintenance's last write goes to the row directly, not through transition.
ForceOffline(r) ==
  /\ rpc[r] = "maint_force"
  /\ status' = [status EXCEPT ![rcam[r]] = "offline"]
  /\ Goto(r, "idle")
  /\ UNCHANGED <<kind, maint, prof, job, workVars, ffVars, srsVars, healthVars, tickVars, rprof, apiVars>>

\* The stream is not started again: the operator has to.
ExitMaintenance(c) ==
  /\ api = "up" /\ maint[c]
  /\ maint' = [maint EXCEPT ![c] = FALSE]
  /\ UNCHANGED <<kind, status, prof, job, workVars, ffVars, srsVars, healthVars, tickVars, reqVars, apiVars>>

-----------------------------------------------------------------------------
(* Hot reload of a profile *)

\* A profile edit or reassignment that changes the fingerprint is committed, then
\* enqueueProfileRestart runs.
EditProfile(r, c, p) ==
  /\ p # prof[c]
  /\ Begin(r, c, "reload_list")
  /\ prof' = [prof EXCEPT ![c] = p]
  /\ UNCHANGED <<kind, status, maint, job, workVars, ffVars, srsVars, healthVars, tickVars, rprof, apiVars>>

\* findMany: only cameras that should be running are restarted.
ReloadList(r) ==
  /\ rpc[r] = "reload_list"
  /\ Goto(r, IF rcam[r] \in Desired THEN "reload_check" ELSE "idle")
  /\ UNCHANGED <<dbVars, job, workVars, ffVars, srsVars, healthVars, tickVars, rprof, apiVars>>

\* The profile row, then getJob and isActive.
ReloadCheck(r) ==
  /\ rpc[r] = "reload_check"
  /\ rprof' = [rprof EXCEPT ![r] = prof[rcam[r]]]
  /\ Goto(r, IF job[rcam[r]].state = "active" THEN "reload_signal" ELSE "reload_remove")
  /\ UNCHANGED <<dbVars, job, workVars, ffVars, srsVars, healthVars, tickVars, apiVars>>

\* Redis publish.  A worker that is subscribed takes the profile as its own and
\* calls gracefulRestart; without a subscriber the message is lost.
ReloadSignal(r) ==
  LET c == rcam[r] IN
     /\ rpc[r] = "reload_signal"
     /\ wprof' = IF Subscribed(c) THEN [wprof EXCEPT ![c] = rprof[r]] ELSE wprof
     /\ ff' = IF Subscribed(c) THEN [ff EXCEPT ![c] = AfterKill(c)] ELSE ff
     /\ End_(r)
     /\ UNCHANGED <<dbVars, job, pc, ffProf, srsVars, healthVars, tickVars, apiVars>>

ReloadRemove(r) ==
  /\ rpc[r] = "reload_remove"
  /\ Remove(rcam[r])
  /\ Goto(r, "reload_add")
  /\ UNCHANGED <<dbVars, workVars, ffVars, srsVars, healthVars, tickVars, rprof, apiVars>>

ReloadAdd(r) ==
  /\ rpc[r] = "reload_add"
  /\ job' = [job EXCEPT ![rcam[r]] = AfterAdd(rcam[r], "restart", rprof[r])]
  /\ End_(r)
  /\ UNCHANGED <<dbVars, workVars, ffVars, srsVars, healthVars, tickVars, apiVars>>

-----------------------------------------------------------------------------
RequestStep(r) ==
  \/ StartRead(r) \/ StartRemove(r) \/ StartAdd(r)
  \/ MaintKill(r) \/ StopRemove(r) \/ StopOffline(r) \/ ForceOffline(r)
  \/ ReloadList(r) \/ ReloadCheck(r) \/ ReloadSignal(r) \/ ReloadRemove(r) \/ ReloadAdd(r)

RequestNext ==
  \/ \E r \in Requests : RequestStep(r)
  \/ \E r \in Requests, c \in Cameras :
       \/ StartStream(r, c) \/ OnPublishPush(r, c) \/ StopStream(r, c)
       \/ EnterMaintenance(r, c) \/ \E p \in Profiles : EditProfile(r, c, p)
  \/ \E c \in Cameras : ExitMaintenance(c)
=============================================================================
