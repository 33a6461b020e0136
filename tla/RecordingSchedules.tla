------------------------- MODULE RecordingSchedules -------------------------
(***************************************************************************)
(* The schedules of one camera and ScheduleProcessor, which each minute    *)
(* goes through them: it reads the camera for each and starts or stops.    *)
(* startRecording and stopRecording are one step here; Recordings takes    *)
(* them apart.  A daily schedule is one for all days.                      *)
(***************************************************************************)
EXTENDS Naturals, FiniteSets

CONSTANTS
  Schedules,     \* RecordingSchedule rows
  WeekLength,    \* days of a week
  DayLength,     \* checks of a day
  MaxPlanEdits   \* bound: edits of schedules

ASSUME ScheduleAssumption ==
  {WeekLength, DayLength} \subseteq Nat \ {0} /\ MaxPlanEdits \in Nat

WeekDays == 0..WeekLength - 1
Times == 0..DayLength - 1

VARIABLES
  plan,        \* rows: enabled, startTime, endTime, days
  day, time,   \* the clock
  due,         \* the check of this minute is still to come
  sweep,       \* the check: place, schedules left, the one in hand, its day and time
  recording,   \* isRecording
  online,      \* the camera's status is online
  calm,        \* history: since the check began nothing failed and nobody else acted
  planEdits

scheduleVars == <<plan, day, time, due, sweep, recording, online, calm, planEdits>>

NoSweep == [at |-> "idle", left |-> {}, acting |-> {}, day |-> 0, time |-> 0]
Enabled == {s \in Schedules : plan[s].enabled}

ScheduleInit ==
  /\ plan \in [Schedules -> [enabled : {TRUE}, start : Times, end : Times,
                             days : (SUBSET WeekDays) \ {{}}]]
  /\ day = 0 /\ time = 0 /\ due = TRUE /\ sweep = NoSweep
  /\ recording = FALSE /\ online = TRUE /\ calm = FALSE /\ planEdits = 0

\* A minute goes by.  A check that was not begun is missed; one in progress
\* keeps the time it began with.
Minute ==
  /\ time' = (time + 1) % DayLength
  /\ day' = IF time' = 0 THEN (day + 1) % WeekLength ELSE day
  /\ due' = TRUE /\ calm' = FALSE
  /\ UNCHANGED <<plan, sweep, recording, online, planEdits>>

SweepBegin ==
  /\ due /\ sweep.at = "idle"
  /\ sweep' = [NoSweep EXCEPT !.at = "next", !.left = Enabled, !.day = day, !.time = time]
  /\ due' = FALSE /\ calm' = TRUE
  /\ UNCHANGED <<plan, day, time, recording, online, planEdits>>

Listed(s) == sweep.day \in plan[s].days

\* Mutant of ShouldBeRecording: a window is always within one day.
ShouldWithinDay(s) == sweep.time >= plan[s].start /\ sweep.time < plan[s].end
ShouldBeRecording(s) ==
  IF plan[s].start > plan[s].end
  THEN sweep.time >= plan[s].start \/ sweep.time < plan[s].end
  ELSE sweep.time >= plan[s].start /\ sweep.time < plan[s].end

Then(s, place) == sweep' = [sweep EXCEPT !.at = place, !.left = @ \ {s}, !.acting = {s}]

\* One schedule: its day, its window, the camera.  The rows come in any order.
SweepRead(s) ==
  /\ sweep.at = "next" /\ s \in sweep.left
  /\ Then(s, IF Listed(s) /\ ShouldBeRecording(s) /\ ~recording /\ online THEN "start"
             ELSE IF Listed(s) /\ ~ShouldBeRecording(s) /\ recording THEN "stop" ELSE "next")
  /\ UNCHANGED <<plan, day, time, due, recording, online, calm, planEdits>>

\* What fails, or is refused as done already, is logged, and the next one comes.
SweepAct ==
  /\ sweep.at \in {"start", "stop"}
  /\ \/ recording' = (sweep.at = "start") /\ UNCHANGED calm
     \/ calm' = FALSE /\ UNCHANGED recording
  /\ sweep' = [sweep EXCEPT !.at = "next", !.acting = {}]
  /\ UNCHANGED <<plan, day, time, due, online, planEdits>>

SweepEnd ==
  /\ sweep.at = "next" /\ sweep.left = {} /\ sweep' = NoSweep
  /\ UNCHANGED <<plan, day, time, due, recording, online, calm, planEdits>>

\* The process dies: the minute's check is over.
SweepDies ==
  /\ sweep.at # "idle" /\ sweep' = NoSweep /\ calm' = FALSE
  /\ UNCHANGED <<plan, day, time, due, recording, online, planEdits>>

\* The operator starts or stops; the camera comes and goes.
ByHand ==
  /\ recording' = ~recording /\ calm' = FALSE
  /\ UNCHANGED <<plan, day, time, due, sweep, online, planEdits>>

Flicker ==
  /\ online' = ~online /\ calm' = FALSE
  /\ UNCHANGED <<plan, day, time, due, sweep, recording, planEdits>>

\* updateSchedule and deleteSchedule, as far as a check can tell; the check in
\* progress goes on with the rows it has read.
EditSchedule(s) ==
  /\ planEdits < MaxPlanEdits /\ planEdits' = planEdits + 1 /\ sweep.at = "idle"
  /\ plan' = [plan EXCEPT ![s].enabled = ~@] /\ calm' = FALSE
  /\ UNCHANGED <<day, time, due, sweep, recording, online>>

ScheduleNext ==
  \/ Minute \/ SweepBegin \/ SweepAct \/ SweepEnd \/ SweepDies \/ ByHand \/ Flicker
  \/ \E s \in Schedules : SweepRead(s) \/ EditSchedule(s)

\* Nothing fails, nobody else acts, and no check is missed.
Steady ==
  \/ Minute /\ ~due /\ sweep.at = "idle"
  \/ SweepBegin \/ (SweepAct /\ calm') \/ SweepEnd
  \/ \E s \in Schedules : SweepRead(s)

SteadyScheduleSpec == ScheduleInit /\ [][Steady]_scheduleVars
ScheduleSpec == ScheduleInit /\ [][ScheduleNext]_scheduleVars

(***************************************************************************)
(* Properties.                                                             *)
(***************************************************************************)
ScheduleTypeOK ==
  /\ plan \in [Schedules -> [enabled : BOOLEAN, start : Times, end : Times, days : SUBSET WeekDays]]
  /\ day \in WeekDays /\ time \in Times
  /\ sweep \in [at : {"idle", "next", "start", "stop"}, left : SUBSET Schedules,
                acting : SUBSET Schedules, day : WeekDays, time : Times]
  /\ {due, recording, online, calm} \subseteq BOOLEAN /\ planEdits \in 0..MaxPlanEdits

\* What a schedule means: the window that opens on each of its days, and ends on
\* the next if it crosses midnight.
Eve == (day + WeekLength - 1) % WeekLength
WindowOpen(s) ==
  LET p == plan[s] IN
  IF p.start <= p.end THEN day \in p.days /\ time \in p.start..p.end - 1
  ELSE (day \in p.days /\ time >= p.start) \/ (Eve \in p.days /\ time < p.end)

SmallHours(s) == plan[s].start > plan[s].end /\ time < plan[s].end
Checked == calm /\ sweep.at = "idle" /\ ~due

\* After a check that nobody disturbed, a camera whose schedules all list the day
\* and agree about the moment records exactly when they say; but in the small
\* hours of a listed day it records whether the day before is listed or not.
\* Two schedules that do not agree start and stop it in turns.
\* (ScheduleProcessor.process, schedule.processor.ts:45)
AgreedDaysFollow ==
  Checked /\ Enabled # {} /\ (\A s \in Enabled : day \in plan[s].days) =>
    /\ (\A s \in Enabled : WindowOpen(s)) /\ online => recording
    /\ (\A s \in Enabled : ~WindowOpen(s) /\ ~SmallHours(s)) => ~recording

\* When a window across midnight is over, the recording stops: the comment says
\* it "must be treated as two half-open ranges", the second up to endTime.
\* (schedule.processor.ts:38)
OvernightStops == Checked /\ recording => \E s \in Enabled : WindowOpen(s) \/ SmallHours(s)
=============================================================================
