----------------------------- MODULE FfmpegWorker -----------------------------
(***************************************************************************)
(* StreamProcessor.process, FfmpegService and the FFmpeg child itself: one *)
(* camera's job from the moment BullMQ hands it to a worker to the moment  *)
(* it is completed, retried or failed.                                     *)
(*                                                                         *)
(* pc: idle -> guard -> subscribed -> branch -> spawn -> await, then       *)
(* finishing when startStream's promise resolved (or process returned      *)
(* early); rejected, degrading and failing when it rejected, or a          *)
(* transition threw.                                                       *)
(* The worker is subscribed to camera:{id}:restart from "subscribed" on.   *)
(***************************************************************************)
EXTENDS StreamState

WorkerPc == {"idle", "guard", "subscribed", "branch", "spawn", "await",
             "rejected", "degrading", "failing", "finishing"}

\* BullMQ moves the job to active and calls process().
Pick(c) ==
  /\ Alive
  /\ job[c].state = "queued" /\ pc[c] = "idle"
  /\ Cardinality({d \in Cameras : pc[d] # "idle"}) < Concurrency
  /\ job' = [job EXCEPT ![c].state = "active"]
  /\ pc' = [pc EXCEPT ![c] = "guard"]
  /\ wprof' = [wprof EXCEPT ![c] = job[c].prof]
  /\ UNCHANGED <<dbVars, ffVars, srsVars, healthVars, tickVars, reqVars, apiVars>>

\* Mutants of Refused: one of the two guards is missing.
RefusedPassThrough(c) == PassThrough(c)
RefusedDegraded(c)    == degraded[c]

Refused(c) == PassThrough(c) \/ degraded[c]

\* The refusals: a push+passthrough job, or a camera in the degraded state.  The
\* latter reports "degraded" on the way.  process() returns, so the job completes.
GuardRefuse(c) ==
  /\ pc[c] = "guard" /\ Refused(c)
  /\ IF PassThrough(c) THEN UNCHANGED <<status, degraded>> ELSE Transition(c, "degraded")
  /\ pc' = [pc EXCEPT ![c] = "finishing"]
  /\ UNCHANGED <<kind, maint, prof, job, wprof, ffVars, srsVars, crashes, tol, tickVars, reqVars, apiVars>>

GuardPass(c) ==
  /\ pc[c] = "guard" /\ ~Refused(c)
  /\ pc' = [pc EXCEPT ![c] = "subscribed"]
  /\ UNCHANGED <<dbVars, job, wprof, ffVars, srsVars, healthVars, tickVars, reqVars, apiVars>>

\* runFingerprintSafetyNet: on a mismatch it kills the FFmpeg that is running now.
SafetyNet(c) ==
  /\ pc[c] = "subscribed"
  /\ ff' = [ff EXCEPT ![c] = IF prof[c] # wprof[c] THEN AfterKill(c) ELSE @]
  /\ pc' = [pc EXCEPT ![c] = "branch"]
  /\ UNCHANGED <<dbVars, job, wprof, ffProf, srsVars, healthVars, tickVars, reqVars, apiVars>>

\* 'restart': gracefulRestart, then reconnecting.  'start': connecting.  A
\* transition that throws fails the attempt.
Branch(c) ==
  LET restart == job[c].name = "restart"
      to == IF restart THEN "reconnecting" ELSE "connecting"
  IN /\ pc[c] = "branch"
     /\ ff' = [ff EXCEPT ![c] = IF restart THEN AfterKill(c) ELSE @]
     /\ Transition(c, to)
     /\ pc' = [pc EXCEPT ![c] = IF Accepts(c, to) THEN "spawn" ELSE "failing"]
     /\ UNCHANGED <<kind, maint, prof, job, wprof, ffProf, srsVars, crashes, tol, tickVars, reqVars, apiVars>>

\* findPublisherClientId + kickPublisher, best effort: the publisher SRS still
\* holds for the path and that no child of this process owns.
AfterKick(c) == IF pub[c] = "phantom" THEN {"phantom", "none"} ELSE {pub[c]}

\* The pre-flight kick, then FfmpegService.startStream: at once back when a
\* process is registered, otherwise spawn and wait for its end.
Spawn(c) ==
  /\ pc[c] = "spawn"
  /\ \E q \in AfterKick(c) : pub' = [pub EXCEPT ![c] = q]
  /\ IF ff[c] # "none"
     THEN /\ pc' = [pc EXCEPT ![c] = "finishing"]
          /\ UNCHANGED ffVars
     ELSE /\ pc' = [pc EXCEPT ![c] = "await"]
          /\ ff' = [ff EXCEPT ![c] = "starting"]
          /\ ffProf' = [ffProf EXCEPT ![c] = wprof[c]]
  /\ UNCHANGED <<dbVars, job, wprof, hook, healthVars, tickVars, reqVars, apiVars>>

-----------------------------------------------------------------------------
(* The child process and SRS *)

\* SRS accepts the publisher when the path is free and on_publish is answered.
Publish(c) ==
  /\ ff[c] = "starting" /\ pub[c] = "none" /\ api = "up"
  /\ ff' = [ff EXCEPT ![c] = "publishing"]
  /\ pub' = [pub EXCEPT ![c] = "own"]
  /\ hook' = [hook EXCEPT ![c] = TRUE]
  /\ UNCHANGED <<dbVars, job, workVars, ffProf, healthVars, tickVars, reqVars, apiVars>>

\* What SRS keeps of a publisher whose process is gone.
AfterExit(c) == IF pub[c] = "own" THEN {"none", "phantom"} ELSE {pub[c]}

Gone(c) ==
  /\ ff' = [ff EXCEPT ![c] = "none"]
  /\ ffProf' = [ffProf EXCEPT ![c] = None]
  /\ \E q \in AfterExit(c) : pub' = [pub EXCEPT ![c] = q]

\* What recordExit leaves of the fast exits within the window: this one counts if
\* it was fast, and any number of the earlier ones may have left the window.
AfterCrash(c, fast) ==
  IF fast THEN 1..(IF crashes[c] > CrashThreshold THEN CrashThreshold + 1 ELSE crashes[c] + 1)
          ELSE 0..crashes[c]

\* 'error' without an intentional stop: startStream's promise rejects.
Crash(c) ==
  /\ ff[c] \in {"starting", "publishing"}
  /\ Gone(c)
  /\ \E fast \in BOOLEAN : \E n \in AfterCrash(c, fast) : crashes' = [crashes EXCEPT ![c] = n]
  /\ pc' = [pc EXCEPT ![c] = "rejected"]
  /\ UNCHANGED <<dbVars, job, wprof, hook, degraded, tol, tickVars, reqVars, apiVars>>

\* 'end': the source finished.  The promise resolves.
End(c) ==
  /\ ff[c] = "publishing"
  /\ Gone(c)
  /\ pc' = [pc EXCEPT ![c] = "finishing"]
  /\ UNCHANGED <<dbVars, job, wprof, hook, healthVars, tickVars, reqVars, apiVars>>

\* 'error' after an intentional stop: the promise resolves as well.
Stopped(c) ==
  /\ ff[c] = "stopping"
  /\ Gone(c)
  /\ pc' = [pc EXCEPT ![c] = "finishing"]
  /\ UNCHANGED <<dbVars, job, wprof, hook, healthVars, tickVars, reqVars, apiVars>>

\* on_publish, live branch.
OnPublish(c) ==
  /\ api = "up" /\ hook[c]
  /\ hook' = [hook EXCEPT ![c] = FALSE]
  /\ Transition(c, "online")
  /\ UNCHANGED <<kind, maint, prof, job, workVars, ffVars, pub, crashes, tol, tickVars, reqVars, apiVars>>

\* A push+passthrough camera's encoder: SRS forwards push/<key> to live/....
EncoderPublish(c) ==
  /\ PassThrough(c) /\ pub[c] = "none" /\ api = "up"
  /\ pub' = [pub EXCEPT ![c] = "own"]
  /\ hook' = [hook EXCEPT ![c] = TRUE]
  /\ UNCHANGED <<dbVars, job, workVars, ffVars, healthVars, tickVars, reqVars, apiVars>>

EncoderGone(c) ==
  /\ PassThrough(c) /\ pub[c] = "own"
  /\ pub' = [pub EXCEPT ![c] = "none"]
  /\ UNCHANGED <<dbVars, job, workVars, ffVars, hook, healthVars, tickVars, reqVars, apiVars>>

PhantomExpires(c) ==
  /\ pub[c] = "phantom"
  /\ pub' = [pub EXCEPT ![c] = "none"]
  /\ UNCHANGED <<dbVars, job, workVars, ffVars, hook, healthVars, tickVars, reqVars, apiVars>>

\* SRS restarts: every registration is gone, the children will fail.
SrsRestart ==
  /\ pub' = [c \in Cameras |-> "none"]
  /\ hook' = [c \in Cameras |-> FALSE]
  /\ srsSeen' = IF srsSeen = "current" THEN "old" ELSE srsSeen
  /\ UNCHANGED <<dbVars, job, workVars, ffVars, healthVars, tpc, todo, seen, tcam, misses,
                 srsIds, reqVars, apiVars>>

-----------------------------------------------------------------------------
(* How the job ends *)

\* The catch around startStream.  A crash loop opens the breaker, and the row is
\* told; a transition that throws is swallowed.
CrashLoop(c) == crashes[c] > CrashThreshold

OpenBreaker(c) ==
  /\ pc[c] = "rejected" /\ CrashLoop(c)
  /\ degraded' = [degraded EXCEPT ![c] = TRUE]
  /\ pc' = [pc EXCEPT ![c] = "degrading"]
  /\ UNCHANGED <<dbVars, job, wprof, ffVars, srsVars, crashes, tol, tickVars, reqVars, apiVars>>

\* Then the post-exit kick, and the error goes on to BullMQ.
CleanUp(c) ==
  /\ \E q \in AfterKick(c) : pub' = [pub EXCEPT ![c] = q]
  /\ pc' = [pc EXCEPT ![c] = "failing"]
  /\ UNCHANGED <<kind, maint, prof, job, wprof, ffVars, hook, crashes, tol, tickVars, reqVars, apiVars>>

\* Mutant of TellDegraded: the breaker is open, and the row is not told.
TellNobody(c) == pc[c] = "degrading" /\ UNCHANGED <<status, degraded>> /\ CleanUp(c)

TellDegraded(c) == pc[c] = "degrading" /\ Transition(c, "degraded") /\ CleanUp(c)

Rejected(c) ==
  /\ pc[c] = "rejected" /\ ~CrashLoop(c)
  /\ UNCHANGED <<status, degraded>>
  /\ CleanUp(c)

\* process() threw: unsubscribe, and BullMQ retries the job with its old data or,
\* after the last attempt, keeps it as failed (removeOnFail false).
Fail(c) ==
  LET n == job[c].attempts + 1
  IN /\ pc[c] = "failing"
     /\ job' = [job EXCEPT ![c].attempts = n,
                           ![c].state = IF n < MaxAttempts THEN "queued" ELSE "failed"]
     /\ pc' = [pc EXCEPT ![c] = "idle"]
     /\ wprof' = [wprof EXCEPT ![c] = None]
     /\ UNCHANGED <<dbVars, ffVars, srsVars, healthVars, tickVars, reqVars, apiVars>>

\* process() returned: the job completes and removeOnComplete drops it.
Finish(c) ==
  /\ pc[c] = "finishing"
  /\ job' = [job EXCEPT ![c] = NoJob]
  /\ pc' = [pc EXCEPT ![c] = "idle"]
  /\ wprof' = [wprof EXCEPT ![c] = None]
  /\ UNCHANGED <<dbVars, ffVars, srsVars, healthVars, tickVars, reqVars, apiVars>>

\* Mutant of Stalled: a live worker lost its lock (it blocked the event loop).
StalledAlive(c) ==
  /\ Alive /\ job[c].state = "active"
  /\ \E s \in {"queued", "failed"} : job' = [job EXCEPT ![c].state = s]
  /\ UNCHANGED <<dbVars, workVars, ffVars, srsVars, healthVars, tickVars, reqVars, apiVars>>

\* BullMQ's stalled check: a job left active by a dead process is retried, or
\* failed when it stalled before.
Stalled(c) ==
  /\ Alive /\ job[c].state = "active" /\ pc[c] = "idle"
  /\ \E s \in {"queued", "failed"} : job' = [job EXCEPT ![c].state = s]
  /\ UNCHANGED <<dbVars, workVars, ffVars, srsVars, healthVars, tickVars, reqVars, apiVars>>

WorkerNext ==
  \E c \in Cameras :
    \/ Pick(c) \/ GuardRefuse(c) \/ GuardPass(c) \/ SafetyNet(c) \/ Branch(c) \/ Spawn(c)
    \/ OpenBreaker(c) \/ TellDegraded(c) \/ Rejected(c) \/ Fail(c) \/ Finish(c) \/ Stalled(c)

ChildNext ==
  \/ \E c \in Cameras : Publish(c) \/ Crash(c) \/ End(c) \/ Stopped(c) \/ OnPublish(c)
                        \/ EncoderPublish(c) \/ EncoderGone(c) \/ PhantomExpires(c)
  \/ SrsRestart
=============================================================================
