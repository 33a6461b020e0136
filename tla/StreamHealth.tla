------------------------------ MODULE StreamHealth ------------------------------
(***************************************************************************)
(* StreamHealthMetricsService and those who feed it, for one camera: when  *)
(* its FFmpeg starts and ends, the crash loop it sees in that, and the     *)
(* degraded flag, which every transition of the camera's status may lower, *)
(* but only once the row has been written.  The streak of fast exits and   *)
(* the ring of transitions, which lengthen a back-off and feed a           *)
(* dashboard, are left out, and the miss tolerance is HealthTick's.        *)
(***************************************************************************)
EXTENDS Naturals, FiniteSets, Optional

CONSTANTS
  Movers,       \* callers of transition at the same time; one of them is the worker
  StreamWorker,
  LastInstant,  \* bound: instants; each start and exit takes one
  FastExit,     \* instants, the FAST_EXIT_THRESHOLD_MS
  CrashWindow,  \* instants, the CRASH_WINDOW_MS
  CrashLoop     \* the CRASH_LOOP_THRESHOLD

ASSUME HealthAssumption ==
  /\ StreamWorker \in Movers /\ None \notin 0..LastInstant
  /\ {LastInstant, FastExit, CrashWindow, CrashLoop} \subseteq Nat

Instants == 0..LastInstant
States == {"offline", "connecting", "online", "reconnecting", "degraded"}

VARIABLES
  state,         \* the camera's row
  child,         \* its FFmpeg: "none", "spawned", or "started" when it has said so
  instant,
  startedAt,     \* startTimes
  fastExits,
  degradedSince, \* whether it is set
  verdict,       \* the worker has marked the camera and is about to tell the row
  mover,         \* calls of transition: their place, and to what
  failures,      \* history: when FFmpeg failed soon after its start, since the boot
  unsure        \* history: flag and row may differ, until they agree again

gaugeVars == <<state, child, instant, startedAt, fastExits, degradedSince, verdict, mover, failures, unsure>>

AtRest == [at |-> "idle", to |-> "offline"]

HealthInit ==
  /\ state = "offline" /\ child = "none" /\ instant = 0 /\ startedAt = None
  /\ fastExits = {} /\ degradedSince = FALSE /\ verdict = FALSE
  /\ mover = [m \in Movers |-> AtRest] /\ failures = {} /\ unsure = FALSE

Quiet == ~verdict /\ \A m \in Movers : mover[m].at = "idle"
Agree == degradedSince <=> state = "degraded"

Unsure(harm) == unsure' = ((unsure \/ harm) /\ ~(Quiet /\ Agree)')

Recent(set) == {t \in set : instant - t <= CrashWindow}
ItsInstant == instant < LastInstant /\ instant' = instant + 1

(***************************************************************************)
(* The worker's FFmpeg.                                                    *)
(***************************************************************************)
SpawnChild ==
  /\ child = "none" /\ ~verdict /\ mover[StreamWorker].at = "idle" /\ child' = "spawned"
  /\ UNCHANGED <<state, instant, startedAt, fastExits, degradedSince, verdict, mover, failures, unsure>>

RecordStart ==
  /\ child = "spawned" /\ child' = "started" /\ startedAt' = instant /\ ItsInstant
  /\ UNCHANGED <<state, fastExits, degradedSince, verdict, mover, failures, unsure>>

IsFast == startedAt # None /\ instant - startedAt < FastExit

IsInCrashLoop(exits) == Cardinality(exits) > CrashLoop

\* 'error' that nobody asked for: recordExit, the rejection, and the verdict on it.
ChildFails ==
  /\ child # "none" /\ child' = "none" /\ startedAt' = None /\ ItsInstant
  /\ fastExits' = Recent(IF IsFast THEN fastExits \cup {instant} ELSE fastExits)
  /\ failures' = IF IsFast THEN failures \cup {instant} ELSE failures
  /\ verdict' = IsInCrashLoop(fastExits')
  /\ degradedSince' = (degradedSince \/ verdict')
  /\ UNCHANGED <<state, mover>>
  /\ Unsure(verdict' /\ \E m \in Movers : mover[m].at # "idle")

\* 'end', or 'error' after a stop that was asked for.
ChildStops ==
  /\ child # "none" /\ child' = "none" /\ startedAt' = None /\ ItsInstant
  /\ UNCHANGED <<state, fastExits, degradedSince, verdict, mover, failures, unsure>>

TimePasses ==
  /\ ItsInstant
  /\ UNCHANGED <<state, child, startedAt, fastExits, degradedSince, verdict, mover, failures, unsure>>

\* The metrics endpoint trims what it reads.
Snapshot ==
  /\ fastExits' = Recent(fastExits) /\ fastExits' # fastExits
  /\ UNCHANGED <<state, child, instant, startedAt, degradedSince, verdict, mover, failures, unsure>>

(***************************************************************************)
(* StatusService.transition.                                               *)
(***************************************************************************)
ValidTransitions ==
  [offline |-> {"connecting", "online"},
   connecting |-> {"online", "offline", "reconnecting", "degraded"},
   online |-> {"reconnecting", "degraded", "offline", "connecting"},
   reconnecting |-> {"online", "offline", "connecting", "degraded"},
   degraded |-> {"online", "offline", "connecting"}]

\* The worker asks for degraded after its verdict, and when it refuses a job because of
\* the flag, and for connecting or reconnecting before it spawns; the others do not ask
\* for degraded.
AsksFor(m, to) ==
  IF m # StreamWorker THEN to # "degraded"
  ELSE /\ child = "none"
       /\ to \in IF degradedSince \/ verdict THEN {"degraded"} ELSE {"connecting", "reconnecting"}

\* The row is read.  Nothing is left to do if it has that status, and the call throws if it may not
\* have it; the worker's verdict is then not in the row.
TransitionRead(m, to) ==
  /\ mover[m].at = "idle" /\ AsksFor(m, to)
  /\ mover' = [mover EXCEPT ![m] =
       IF to # state /\ (to = "offline" \/ to \in ValidTransitions[state])
       THEN [at |-> "write", to |-> to] ELSE AtRest]
  /\ verdict' = (verdict /\ m # StreamWorker)
  /\ UNCHANGED <<state, child, instant, startedAt, fastExits, degradedSince, failures>>
  /\ Unsure(\/ to = "degraded" /\ to # state /\ mover'[m] = AtRest
            \/ verdict /\ m # StreamWorker
            \/ \E n \in Movers \ {m} : mover[n].at # "idle")

TransitionWrite(m) ==
  /\ mover[m].at = "write"
  /\ state' = mover[m].to /\ mover' = [mover EXCEPT ![m].at = "record"]
  /\ UNCHANGED <<child, instant, startedAt, fastExits, degradedSince, verdict, failures, unsure>>

TransitionThrows(m) ==
  /\ mover[m].at = "write" /\ mover' = [mover EXCEPT ![m] = AtRest]
  /\ UNCHANGED <<state, child, instant, startedAt, fastExits, degradedSince, verdict, failures>>
  /\ Unsure(TRUE)

\* Mutant of Lowers: the transition to degraded itself lowers the flag.
AnyLowers(to) == TRUE

Lowers(to) == to # "degraded"

\* A verdict since the call began is undone by it.
RecordTransition(m) ==
  /\ mover[m].at = "record" /\ mover' = [mover EXCEPT ![m] = AtRest]
  /\ degradedSince' = (degradedSince /\ ~Lowers(mover[m].to))
  /\ UNCHANGED <<state, child, instant, startedAt, fastExits, verdict, failures>>
  /\ Unsure(FALSE)

\* The process ends, and its memory with it; the row stays.
Reboot ==
  /\ child' = "none" /\ startedAt' = None /\ fastExits' = {} /\ degradedSince' = FALSE
  /\ verdict' = FALSE /\ mover' = [m \in Movers |-> AtRest] /\ failures' = {}
  /\ UNCHANGED <<state, instant>>
  /\ Unsure(TRUE)

HealthNext ==
  \/ SpawnChild \/ RecordStart \/ ChildFails \/ ChildStops \/ TimePasses \/ Snapshot \/ Reboot
  \/ \E m \in Movers, to \in States : TransitionRead(m, to)
  \/ \E m \in Movers : TransitionWrite(m) \/ TransitionThrows(m) \/ RecordTransition(m)

HealthSpec == HealthInit /\ [][HealthNext]_gaugeVars

(***************************************************************************)
(* Properties.                                                             *)
(***************************************************************************)
HealthTypeOK ==
  /\ state \in States /\ child \in {"none", "spawned", "started"} /\ instant \in Instants
  /\ startedAt \in Instants \cup {None} /\ fastExits \subseteq Instants /\ failures \subseteq Instants
  /\ {degradedSince, verdict, unsure} \subseteq BOOLEAN
  /\ mover \in [Movers -> [at : {"idle", "write", "record"}, to : States]]

\* A camera is flagged only after more fast failures within one window than the
\* threshold, stops that were asked for not counted.  When no transition is in
\* progress, it is flagged exactly when its row says degraded, unless transitions
\* overlapped each other or the verdict, one failed or was refused, or the process ended;
\* until they agree again.
\* (StreamHealthMetricsService.recordTransition, stream-health-metrics.service.ts:123)
DegradedTold ==
  /\ degradedSince =>
       \E t \in failures : IsInCrashLoop({u \in failures : u <= t /\ t - u <= CrashWindow})
  /\ Quiet /\ ~unsure => Agree
=============================================================================
