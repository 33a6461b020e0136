------------------------------ MODULE StatusNotify ------------------------------
(***************************************************************************)
(* How a change of a camera's status is announced: StatusService.transition*)
(* await by await, the camera-notify BullMQ job it leaves behind for 30 s, *)
(* and NotifyDispatchProcessor, which takes the job.  StreamState takes a  *)
(* transition as one step; here several calls overlap, between any awaits. *)
(* One camera: the row and the job id are the camera's own.                *)
(***************************************************************************)
EXTENDS Naturals, FiniteSets

CONSTANTS
  Transitions,  \* calls of transition in progress at the same time
  MaxWrites,    \* bound: status writes in a behaviour
  MaxToggles,   \* bound: changes of maintenanceMode
  MaxCrashes    \* bound: deaths of the API process

ASSUME NotifyAssumption == {MaxWrites, MaxToggles, MaxCrashes} \subseteq Nat

VARIABLES
  status, maintenanceMode,   \* the Camera row
  call,                      \* transition: place, what it read, what it is to write
  notice,                    \* the job camera:{id}:notify
  notifier,                  \* the camera-notify worker (concurrency 1): place, job data
  told,                      \* history: the row's status was announced since it was written
  excused,                   \* history: a reason why it may never be
  writes, toggles, crashes   \* what the bounds count

rowVars == <<status, maintenanceMode>>
countVars == <<writes, toggles, crashes>>
notifyVars == <<rowVars, call, notice, notifier, told, excused, countVars>>

Statuses == {"offline", "connecting", "online", "reconnecting", "degraded"}
Notifiable == {"online", "offline", "degraded", "reconnecting"}

validTransitions ==
  [ offline      |-> {"connecting", "online"},
    connecting   |-> {"online", "offline", "reconnecting", "degraded"},
    online       |-> {"reconnecting", "degraded", "offline", "connecting"},
    reconnecting |-> {"online", "offline", "connecting", "degraded"},
    degraded     |-> {"online", "offline", "connecting"} ]

\* Mutant of ValidMove: the table is not looked at.
AnyMove(from, to) == from # to
ValidMove(from, to) == from # to /\ (to = "offline" \/ to \in validTransitions[from])

NoCall == [at |-> "idle", from |-> "offline", to |-> "offline", maint |-> FALSE]
NoNotice == [state |-> "none", newStatus |-> "offline"]
Resting == [at |-> "idle", newStatus |-> "offline"]

NotifyInit ==
  /\ \/ status = "offline" /\ notice = NoNotice /\ told = TRUE
     \/ status = "online" /\ notice = [state |-> "delayed", newStatus |-> "online"] /\ told = FALSE
  /\ maintenanceMode = FALSE /\ excused = FALSE
  /\ call = [c \in Transitions |-> NoCall] /\ notifier = Resting
  /\ writes \in 0..MaxWrites /\ toggles \in 0..MaxToggles /\ crashes \in 0..MaxCrashes

Alone(c) == \A d \in Transitions \ {c} : call[d].at = "idle"
At(c, place) == call' = [call EXCEPT ![c].at = place]
Done(c) == call' = [call EXCEPT ![c] = NoCall]

(***************************************************************************)
(* StatusService.transition.  A call that finds nothing to do, or a move   *)
(* that the table forbids, returns or throws with nothing changed.         *)
(***************************************************************************)
TransitionRead(c) ==
  /\ call[c].at = "idle" /\ writes < MaxWrites
  /\ \E to \in Statuses :
       /\ ValidMove(status, to)
       /\ call' = [call EXCEPT ![c] = [at |-> "write", from |-> status, to |-> to,
                                       maint |-> maintenanceMode]]
  /\ UNCHANGED <<rowVars, notice, notifier, told, excused, countVars>>

\* The broadcast follows in the same step.  What was read decides whether a
\* notice is due, not what the row says now.
TransitionWrite(c) ==
  /\ call[c].at = "write" /\ writes < MaxWrites
  /\ status' = call[c].to
  /\ writes' = writes + 1
  /\ IF call[c].maint \/ call[c].to \notin Notifiable THEN Done(c) ELSE At(c, "find")
  /\ told' = FALSE
  /\ excused' = (call[c].maint \/ ~Alone(c))
  /\ UNCHANGED <<maintenanceMode, notice, notifier, toggles, crashes>>

TransitionFind(c) ==
  /\ call[c].at = "find"
  /\ At(c, IF notice.state = "none" THEN "add" ELSE "remove")
  /\ UNCHANGED <<rowVars, notice, notifier, told, excused, countVars>>

\* remove() of a job the worker holds throws, and the throw is swallowed.
\* Mutant of Removed: the job is left where it is.
NotRemoved(n) == n
Removed(n) == IF n.state = "active" THEN n ELSE NoNotice

TransitionRemove(c) ==
  /\ call[c].at = "remove"
  /\ notice' = Removed(notice)
  /\ At(c, "add")
  /\ UNCHANGED <<rowVars, notifier, told, excused, countVars>>

\* add() with the id of a job that exists does nothing.
TransitionAdd(c) ==
  /\ call[c].at = "add"
  /\ IF notice.state = "none"
     THEN /\ notice' = [state |-> "delayed", newStatus |-> call[c].to]
          /\ UNCHANGED excused
     ELSE UNCHANGED notice /\ excused' = (excused \/ notice.state = "active")
  /\ Done(c)
  /\ UNCHANGED <<rowVars, notifier, told, countVars>>

\* The database or Redis throws: the caller gets the error, whatever was written.
TransitionThrows(c) ==
  /\ call[c].at # "idle"
  /\ excused' = (excused \/ call[c].at # "write")
  /\ Done(c)
  /\ UNCHANGED <<rowVars, notice, notifier, told, countVars>>

(***************************************************************************)
(* NotifyDispatchProcessor.process.                                        *)
(***************************************************************************)
NoticeDue ==
  /\ notice.state = "delayed" /\ notifier.at = "idle"
  /\ notice' = [notice EXCEPT !.state = "active"]
  /\ notifier' = [at |-> "check", newStatus |-> notice.newStatus]
  /\ UNCHANGED <<rowVars, call, told, excused, countVars>>

Stale(s) == maintenanceMode \/ status # s

NoticeChecked ==
  /\ notifier.at = "check"
  /\ IF Stale(notifier.newStatus)
     THEN notifier' = Resting /\ notice' = NoNotice
     ELSE notifier' = [notifier EXCEPT !.at = "emit"] /\ UNCHANGED notice
  /\ excused' = (excused \/ maintenanceMode)
  /\ UNCHANGED <<rowVars, call, told, countVars>>

\* The row could not be read.  One attempt: the job is kept as failed.
NoticeCheckThrows ==
  /\ notifier.at = "check"
  /\ notifier' = Resting /\ notice' = [notice EXCEPT !.state = "failed"]
  /\ excused' = TRUE
  /\ UNCHANGED <<rowVars, call, told, countVars>>

\* emitEvent begins: its own steps are WebhookDelivery's.
NoticeEmit ==
  /\ notifier.at = "emit"
  /\ notifier' = [notifier EXCEPT !.at = "bell"]
  /\ told' = (told \/ status = notifier.newStatus)
  /\ UNCHANGED <<rowVars, call, notice, excused, countVars>>

\* createForCameraEvent; its errors are swallowed, and the job is removed.
NoticeBell ==
  /\ notifier.at = "bell"
  /\ notifier' = Resting /\ notice' = NoNotice
  /\ UNCHANGED <<rowVars, call, told, excused, countVars>>

(***************************************************************************)
(* The operator's maintenance switch, and the death of the process: calls  *)
(* are gone, an active job is given out again or fails as stalled.         *)
(***************************************************************************)
Maintenance ==
  /\ toggles < MaxToggles
  /\ maintenanceMode' = ~maintenanceMode /\ toggles' = toggles + 1
  /\ UNCHANGED <<status, call, notice, notifier, told, excused, writes, crashes>>

NotifyCrash ==
  /\ crashes < MaxCrashes /\ crashes' = crashes + 1
  /\ call' = [c \in Transitions |-> NoCall]
  /\ notifier' = Resting
  /\ IF notice.state = "active"
     THEN \E s \in {"delayed", "failed"} : notice' = [notice EXCEPT !.state = s]
     ELSE UNCHANGED notice
  /\ excused' = TRUE
  /\ UNCHANGED <<rowVars, told, writes, toggles>>

CallStep(c) ==
  \/ TransitionRead(c) \/ TransitionWrite(c) \/ TransitionFind(c)
  \/ TransitionRemove(c) \/ TransitionAdd(c)

(***************************************************************************)
(* Properties.                                                             *)
(***************************************************************************)
NotifyTypeOK ==
  /\ status \in Statuses /\ maintenanceMode \in BOOLEAN
  /\ call \in [Transitions -> [at : {"idle", "write", "find", "remove", "add"},
                           from : Statuses, to : Statuses, maint : BOOLEAN]]
  /\ notice \in [state : {"none", "delayed", "active", "failed"}, newStatus : Statuses]
  /\ notifier \in [at : {"idle", "check", "emit", "bell"}, newStatus : Statuses]
  /\ told \in BOOLEAN /\ excused \in BOOLEAN
  /\ writes \in 0..MaxWrites /\ toggles \in 0..MaxToggles /\ crashes \in 0..MaxCrashes

\* When all is quiet, the camera's status has been announced, unless one of
\* four things happened since it was written: another call overlapped with
\* its transition, its notice was added behind one being dispatched,
\* maintenance, or a fault.  (StatusService.transition, status.service.ts:95)
SilenceExplained ==
  /\ \A c \in Transitions : call[c].at = "idle"
  /\ notice.state \in {"none", "failed"} /\ notifier.at = "idle"
  /\ status \in Notifiable
  => told \/ excused

Forbidden == status' # status /\ status' # "offline" /\ status' \notin validTransitions[status]
Overtaken ==
  \E c \in Transitions :
    /\ call[c].at = "write" /\ call[c].to = status' /\ call[c].from # status
    /\ status' \in validTransitions[call[c].from]

\* A move the table forbids is only ever written by a call whose reading of
\* the row was overtaken by another call.  (status.service.ts:53, :68, :72)
ForbiddenOnlyWhenOvertaken == [][Forbidden => Overtaken]_notifyVars
=============================================================================
