------------------------------ MODULE ApiRestart ------------------------------
(***************************************************************************)
(* The API process as a whole: orderly shutdown (ResilienceService), sudden*)
(* death, and boot (BootRecoveryService).  The database, the queue and SRS *)
(* outlive the process; everything else is its memory.                     *)
(***************************************************************************)
EXTENDS StreamState

\* What SRS has for each path once this process is gone.  A child that was not
\* killed goes on publishing; the next process cannot tell it from a stale entry.
Left(c, killed) ==
  CASE PassThrough(c) -> {pub[c]}
    [] pub[c] = "own" -> IF killed THEN {"none", "phantom"} ELSE {"phantom"}
    [] OTHER -> {pub[c]}

\* The memory of the process is lost.  Jobs that were active stay active.
Die(killed) ==
  /\ api' = "down"
  /\ pub' \in {q \in [Cameras -> {"none", "own", "phantom"}] :
                 \A c \in Cameras : q[c] \in Left(c, c \in killed)}
  /\ ff' = [c \in Cameras |-> "none"] /\ ffProf' = [c \in Cameras |-> None]
  /\ pc' = [c \in Cameras |-> "idle"] /\ wprof' = [c \in Cameras |-> None]
  /\ hook' = [c \in Cameras |-> FALSE]
  /\ degraded' = [c \in Cameras |-> FALSE]
  /\ crashes' = [c \in Cameras |-> 0] /\ tol' = [c \in Cameras |-> DefaultTol]
  /\ tpc' = "idle" /\ todo' = {} /\ tcam' = None /\ srsIds' = {None} /\ srsSeen' = "unknown"
  /\ seen' = [c \in Cameras |-> [online |-> FALSE, prof |-> None]]
  /\ misses' = [c \in Cameras |-> 0]
  /\ rpc' = [r \in Requests |-> "idle"] /\ rprof' = [r \in Requests |-> None]
  /\ bootTodo' = {}
  /\ UNCHANGED <<dbVars, job, rcam, restarts>>

PowerLoss ==
  /\ Alive /\ restarts < MaxRestarts
  /\ Die({})

\* onApplicationShutdown: SIGTERM to every child that is running now.
Shutdown ==
  /\ api = "up" /\ restarts < MaxRestarts
  /\ api' = "stopping"
  /\ ff' = [c \in Cameras |-> AfterKill(c)]
  /\ UNCHANGED <<dbVars, job, workVars, ffProf, srsVars, healthVars, tickVars, reqVars,
                 bootTodo, restarts>>

\* The children exited, or their grace is over and they are killed.
Exit ==
  /\ api = "stopping"
  /\ Die({c \in Cameras : ff[c] \in {"none", "stopping"}})

\* onApplicationBootstrap: list the cameras to start, and SIGTERM the FFmpegs
\* that still publish for a known camera.
Boot ==
  /\ api = "down"
  /\ api' = "booting" /\ restarts' = restarts + 1
  /\ bootTodo' = Desired
  /\ pub' \in {q \in [Cameras -> {"none", "own", "phantom"}] :
                 \A c \in Cameras : q[c] \in IF pub[c] = "phantom" THEN {"none", "phantom"}
                                                                   ELSE {pub[c]}}
  /\ UNCHANGED <<dbVars, job, workVars, ffVars, hook, healthVars, tickVars, reqVars>>

BootEnqueue(c) ==
  /\ api = "booting" /\ c \in bootTodo
  /\ bootTodo' = bootTodo \ {c}
  /\ job' = [job EXCEPT ![c] = AfterAdd(c, "start", prof[c])]
  /\ UNCHANGED <<dbVars, workVars, ffVars, srsVars, healthVars, tickVars, reqVars, api, restarts>>

\* The HTTP server listens once every bootstrap hook is done.
Listen ==
  /\ api = "booting" /\ bootTodo = {}
  /\ api' = "up"
  /\ UNCHANGED <<dbVars, job, workVars, ffVars, srsVars, healthVars, tickVars, reqVars,
                 bootTodo, restarts>>

ApiNext ==
  \/ PowerLoss \/ Shutdown \/ Exit \/ Boot \/ Listen
  \/ \E c \in Cameras : BootEnqueue(c)
=============================================================================
