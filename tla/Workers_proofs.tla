--------------------------- MODULE Workers_proofs ---------------------------
(***************************************************************************)
(* Proofs about the workers whose jobs must come to an end: the            *)
(* announcements of status changes (StatusNotify and WebhookDelivery,      *)
(* within Announcements) and, beside them, the checks of cluster nodes     *)
(* (ClusterNodes, within MCWorkers), for any number of overlapping         *)
(* transitions, subscriptions, deliveries and nodes and any bounds.        *)
(***************************************************************************)
EXTENDS MCWorkers, TLAPS

\* A call that has written the row and is on its way to the notify job.
Announces(c) == call[c].at \in {"find", "remove", "add"}

(***************************************************************************)
(* The invariant.  A call writes a move the table had when it read the     *)
(* row.  The job is active exactly while the worker is at it.  And while   *)
(* nothing excuses silence, at most one call is on its way to the job, it  *)
(* carries the row's status, and a status not yet announced is with that   *)
(* call, in the job, or with the worker.                                   *)
(***************************************************************************)
ReadsValid == \A c \in Transitions : call[c].at = "write" => ValidMove(call[c].from, call[c].to)

Held == notifier.at # "idle" <=> notice.state = "active"

OneAnnounces ==
  /\ \A c, d \in Transitions : Announces(c) /\ Announces(d) => c = d
  /\ \A c \in Transitions : Announces(c) => call[c].to = status
  /\ \A c \in Transitions : call[c].at = "add" => notice.state \in {"none", "active"}

OnItsWay ==
  \/ \E c \in Transitions : Announces(c)
  \/ notice.state = "delayed" /\ notice.newStatus = status
  \/ notifier.at \in {"check", "emit"} /\ notifier.newStatus = status

Pending == ~excused => OneAnnounces /\ (status \in Notifiable /\ ~told => OnItsWay)

NotifyInv == NotifyTypeOK /\ ReadsValid /\ Held /\ Pending

LEMMA InitInv ==
  ASSUME NotifyInit
  PROVE  NotifyInv
<1> USE DEF NotifyInit, NoCall, NoNotice, Resting
<1>1. /\ status \in Statuses /\ notifier \in [at : {"idle"}, newStatus : Statuses]
      /\ notice \in [state : {"none", "delayed"}, newStatus : Statuses]
      /\ call \in [Transitions -> [at : {"idle"}, from : Statuses, to : Statuses, maint : BOOLEAN]]
  BY DEF Statuses
<1> NotifyTypeOK
  BY <1>1 DEF NotifyTypeOK
<1>2. ReadsValid /\ Held
  BY DEF ReadsValid, Held
<1>3. Pending
  BY DEF Pending, OneAnnounces, OnItsWay, Announces
<1>4. QED
  BY <1>2, <1>3 DEF NotifyInv

(***************************************************************************)
(* StatusService.transition.                                               *)
(***************************************************************************)
LEMMA ReadStep ==
  ASSUME NotifyInv, NEW c \in Transitions, TransitionRead(c)
  PROVE  NotifyInv'
<1> USE DEF NotifyInv, NotifyTypeOK, rowVars, countVars
<1>1. PICK to \in Statuses :
        /\ ValidMove(status, to)
        /\ call' = [call EXCEPT ![c] = [at |-> "write", from |-> status, to |-> to,
                                        maint |-> maintenanceMode]]
  BY DEF TransitionRead
<1>2. call[c].at = "idle" /\ UNCHANGED <<rowVars, notice, notifier, told, excused, countVars>>
  BY DEF TransitionRead
<1>3. NotifyTypeOK'
  BY <1>1, <1>2
<1>4. ReadsValid'
  BY <1>1, <1>2 DEF ReadsValid, ValidMove
<1>5. \A d \in Transitions : Announces(d)' <=> Announces(d)
  BY <1>1, <1>2 DEF Announces
<1>6. \A d \in Transitions : Announces(d) => call'[d] = call[d]
  BY <1>1, <1>2 DEF Announces
<1>7. Pending'
  BY <1>1, <1>2, <1>5, <1>6 DEF Pending, OneAnnounces, OnItsWay, Announces
<1>8. QED
  BY <1>2, <1>3, <1>4, <1>7 DEF Held

LEMMA WriteStep ==
  ASSUME NotifyInv, NEW c \in Transitions, TransitionWrite(c)
  PROVE  NotifyInv'
<1> USE DEF NotifyInv, NotifyTypeOK
<1>1. /\ call[c].at = "write" /\ status' = call[c].to /\ told' = FALSE
      /\ excused' = (call[c].maint \/ ~Alone(c)) /\ writes' = writes + 1 /\ writes < MaxWrites
      /\ UNCHANGED <<maintenanceMode, notice, notifier, toggles, crashes>>
  BY DEF TransitionWrite
<1>2. \/ /\ call' = [call EXCEPT ![c] = NoCall]
         /\ call[c].maint \/ call[c].to \notin Notifiable
      \/ call' = [call EXCEPT ![c].at = "find"]
  BY DEF TransitionWrite, Done, At
<1>3. NotifyTypeOK'
  <2>1. call' \in [Transitions -> [at : {"idle", "write", "find", "remove", "add"},
                                  from : Statuses, to : Statuses, maint : BOOLEAN]]
    <3>1. CASE call' = [call EXCEPT ![c] = NoCall]
      BY <3>1 DEF NoCall, Statuses
    <3>2. CASE call' = [call EXCEPT ![c].at = "find"]
      BY <3>2
    <3>3. QED
      BY <1>2, <3>1, <3>2
  <2>2. writes' \in 0..MaxWrites
    BY <1>1, NotifyAssumption
  <2>3. excused' \in BOOLEAN
    BY <1>1 DEF Alone
  <2>4. QED
    BY <1>1, <2>1, <2>2, <2>3
<1>4. ReadsValid'
  BY <1>1, <1>2 DEF ReadsValid, NoCall, ValidMove
<1>5. ASSUME ~excused' PROVE OneAnnounces' /\ (status' \in Notifiable => OnItsWay')
  <2>1. \A d \in Transitions \ {c} : call'[d].at = "idle"
    BY <1>1, <1>2, <1>5 DEF Alone
  <2>2. CASE call' = [call EXCEPT ![c] = NoCall] /\ call[c].to \notin Notifiable
    BY <1>1, <2>1, <2>2 DEF OneAnnounces, Announces, NoCall
  <2>3. CASE call' = [call EXCEPT ![c].at = "find"]
    BY <1>1, <2>1, <2>3 DEF OneAnnounces, OnItsWay, Announces
  <2>4. QED
    BY <1>1, <1>2, <1>5, <2>2, <2>3
<1>6. QED
  BY <1>1, <1>3, <1>4, <1>5 DEF Held, Pending

LEMMA FindStep ==
  ASSUME NotifyInv, NEW c \in Transitions, TransitionFind(c)
  PROVE  NotifyInv'
<1> USE DEF NotifyInv, NotifyTypeOK, rowVars, countVars
<1>1. /\ call[c].at = "find"
      /\ call' = [call EXCEPT ![c].at = IF notice.state = "none" THEN "add" ELSE "remove"]
      /\ UNCHANGED <<rowVars, notice, notifier, told, excused, countVars>>
  BY DEF TransitionFind, At
<1>2. NotifyTypeOK' /\ ReadsValid'
  BY <1>1 DEF ReadsValid, ValidMove
<1>3. \A d \in Transitions : (Announces(d)' <=> Announces(d)) /\ call'[d].to = call[d].to
  BY <1>1 DEF Announces
<1>4. \A d \in Transitions \ {c} : call'[d] = call[d]
  BY <1>1
<1>5. Pending'
  BY <1>1, <1>3, <1>4 DEF Pending, OneAnnounces, OnItsWay
<1>6. QED
  BY <1>1, <1>2, <1>5 DEF Held

LEMMA RemoveStep ==
  ASSUME NotifyInv, NEW c \in Transitions, TransitionRemove(c)
  PROVE  NotifyInv'
<1> USE DEF NotifyInv, NotifyTypeOK, rowVars, countVars
<1>1. /\ call[c].at = "remove" /\ call' = [call EXCEPT ![c].at = "add"]
      /\ notice' = IF notice.state = "active" THEN notice ELSE NoNotice
      /\ UNCHANGED <<rowVars, notifier, told, excused, countVars>>
  BY DEF TransitionRemove, At, Removed
<1>2. NotifyTypeOK' /\ ReadsValid' /\ Held'
  BY <1>1 DEF ReadsValid, ValidMove, Held, NoNotice, Statuses
<1>3. \A d \in Transitions : (Announces(d)' <=> Announces(d)) /\ call'[d].to = call[d].to
  BY <1>1 DEF Announces
<1>4. notice'.state \in {"none", "active"} /\ Announces(c)'
  BY <1>1 DEF NoNotice, Announces
<1>5. Pending'
  BY <1>1, <1>3, <1>4 DEF Pending, OneAnnounces, OnItsWay
<1>6. QED
  BY <1>2, <1>5

LEMMA AddStep ==
  ASSUME NotifyInv, NEW c \in Transitions, TransitionAdd(c)
  PROVE  NotifyInv'
<1> USE DEF NotifyInv, NotifyTypeOK, rowVars, countVars
<1>1. /\ call[c].at = "add" /\ call' = [call EXCEPT ![c] = NoCall]
      /\ IF notice.state = "none"
         THEN notice' = [state |-> "delayed", newStatus |-> call[c].to] /\ excused' = excused
         ELSE notice' = notice /\ excused' = (excused \/ notice.state = "active")
      /\ UNCHANGED <<rowVars, notifier, told, countVars>>
  BY DEF TransitionAdd, Done
<1>2. NotifyTypeOK' /\ ReadsValid' /\ Held'
  <2>1. call' \in [Transitions -> [at : {"idle", "write", "find", "remove", "add"},
                                  from : Statuses, to : Statuses, maint : BOOLEAN]]
    BY <1>1 DEF NoCall, Statuses
  <2>2. /\ excused' \in BOOLEAN
        /\ notice' \in [state : {"none", "delayed", "active", "failed"}, newStatus : Statuses]
    <3>1. CASE notice.state = "none"
      BY <1>1, <3>1
    <3>2. CASE notice.state # "none"
      BY <1>1, <3>2
    <3>3. QED
      BY <3>1, <3>2
  <2>3. Held'
    BY <1>1 DEF Held
  <2>4. \A d \in Transitions : call'[d].at = "write" => call'[d] = call[d]
    BY <1>1 DEF NoCall
  <2>5. ReadsValid'
    BY <2>4 DEF ReadsValid, ValidMove
  <2>6. QED
    BY <1>1, <2>1, <2>2, <2>3, <2>5
<1>3. ASSUME ~excused' PROVE OneAnnounces' /\ OnItsWay'
  <2>1. notice.state = "none" /\ call[c].to = status /\ ~excused
    BY <1>1, <1>3 DEF Pending, OneAnnounces, Announces
  <2>2. \A d \in Transitions : ~Announces(d)'
    BY <1>1, <2>1 DEF Pending, OneAnnounces, Announces, NoCall
  <2>3. QED
    BY <1>1, <2>1, <2>2 DEF OneAnnounces, OnItsWay, Announces
<1>4. QED
  BY <1>2, <1>3 DEF Pending

LEMMA ThrowsStep ==
  ASSUME NotifyInv, NEW c \in Transitions, TransitionThrows(c)
  PROVE  NotifyInv'
<1> USE DEF NotifyInv, NotifyTypeOK, rowVars, countVars
<1>1. /\ call[c].at # "idle" /\ call' = [call EXCEPT ![c] = NoCall]
      /\ excused' = (excused \/ call[c].at # "write")
      /\ UNCHANGED <<rowVars, notice, notifier, told, countVars>>
  BY DEF TransitionThrows, Done
<1>2. NotifyTypeOK' /\ ReadsValid' /\ Held'
  <2>1. NotifyTypeOK' /\ Held'
    BY <1>1 DEF Held, NoCall, Statuses
  <2>2. \A d \in Transitions : call'[d].at = "write" => call'[d] = call[d]
    BY <1>1 DEF NoCall
  <2>3. ReadsValid'
    BY <2>2 DEF ReadsValid, ValidMove
  <2>4. QED
    BY <2>1, <2>3
<1>3. ASSUME ~excused' PROVE ~excused /\ ~Announces(c) /\ \A d \in Transitions \ {c} : call'[d] = call[d]
  BY <1>1, <1>3 DEF Announces
<1>4. ASSUME ~excused', NEW d \in Transitions
      PROVE  (Announces(d)' <=> Announces(d)) /\ (Announces(d) => call'[d] = call[d])
  BY <1>1, <1>3, <1>4 DEF Announces, NoCall
<1>5. Pending'
  BY <1>1, <1>3, <1>4 DEF Pending, OneAnnounces, OnItsWay, Announces
<1>6. QED
  BY <1>2, <1>5

(***************************************************************************)
(* The worker, the switch, the death of the process.                       *)
(***************************************************************************)
LEMMA WorkerStep ==
  ASSUME NotifyInv, NoticeDue \/ NoticeChecked \/ NoticeCheckThrows \/ NoticeEmit \/ NoticeBell
  PROVE  NotifyInv'
<1> USE DEF NotifyInv, NotifyTypeOK, rowVars, countVars, Resting, NoNotice, Statuses
<1>1. CASE NoticeDue
  BY <1>1 DEF NoticeDue, ReadsValid, Held, Pending, OneAnnounces, OnItsWay, Announces
<1>2. CASE NoticeChecked
  <2>1. CASE Stale(notifier.newStatus)
    BY <1>2, <2>1 DEF NoticeChecked, Stale, ReadsValid, Held, Pending, OneAnnounces, OnItsWay,
                      Announces
  <2>2. CASE ~Stale(notifier.newStatus)
    BY <1>2, <2>2 DEF NoticeChecked, Stale, ReadsValid, Held, Pending, OneAnnounces, OnItsWay,
                      Announces
  <2>3. QED
    BY <2>1, <2>2
<1>3. CASE NoticeCheckThrows
  BY <1>3 DEF NoticeCheckThrows, ReadsValid, Held, Pending
<1>4. CASE NoticeEmit
  BY <1>4 DEF NoticeEmit, ReadsValid, Held, Pending, OneAnnounces, OnItsWay, Announces
<1>5. CASE NoticeBell
  BY <1>5 DEF NoticeBell, ReadsValid, Held, Pending, OneAnnounces, OnItsWay, Announces
<1>6. QED
  BY <1>1, <1>2, <1>3, <1>4, <1>5

LEMMA MaintenanceStep ==
  ASSUME NotifyInv, Maintenance
  PROVE  NotifyInv'
  BY NotifyAssumption
     DEF NotifyInv, NotifyTypeOK, Maintenance, ReadsValid, Held, Pending, OneAnnounces, OnItsWay,
         Announces

LEMMA CrashStep ==
  ASSUME NotifyInv, NotifyCrash
  PROVE  NotifyInv'
<1> USE DEF NotifyInv, NotifyTypeOK, rowVars, NotifyCrash, NoCall, Resting, Statuses
<1>1. call' \in [Transitions -> [at : {"idle"}, from : Statuses, to : Statuses, maint : BOOLEAN]]
  OBVIOUS
<1>2. /\ notice' \in [state : {"none", "delayed", "active", "failed"}, newStatus : Statuses]
      /\ notice'.state # "active"
  OBVIOUS
<1>3. NotifyTypeOK'
  BY <1>1, <1>2, NotifyAssumption
<1>4. ReadsValid' /\ Held' /\ Pending'
  BY <1>1, <1>2 DEF ReadsValid, Held, Pending
<1>5. QED
  BY <1>3, <1>4

LEMMA StepInv == NotifyInv /\ [AnnounceNext]_announceVars => NotifyInv'
<1> SUFFICES ASSUME NotifyInv, [AnnounceNext]_announceVars PROVE NotifyInv'
  OBVIOUS
<1>1. CASE UNCHANGED notifyVars
  BY <1>1 DEF notifyVars, rowVars, countVars, NotifyInv, NotifyTypeOK, ReadsValid, Held, Pending,
              OneAnnounces, OnItsWay, Announces
<1>2. CASE \E c \in Transitions : CallStep(c) \/ TransitionThrows(c)
  BY <1>2, ReadStep, WriteStep, FindStep, RemoveStep, AddStep, ThrowsStep DEF CallStep
<1>3. QED
  BY <1>1, <1>2, WorkerStep, MaintenanceStep, CrashStep
     DEF AnnounceNext, Apart, announceVars

\* The invariant holds of every behaviour of the announcements, deliveries and
\* crashes included.  (StatusService.transition, NotifyDispatchProcessor)
THEOREM NoticesSound == AnnounceSpec => []NotifyInv
<1>1. AnnounceInit => NotifyInv
  BY InitInv DEF AnnounceInit
<1>2. QED
  BY <1>1, StepInv, PTL DEF AnnounceSpec

\* A status that was never announced has one of the four excuses, for any number of
\* overlapping transitions.  (status.service.ts:95)
THEOREM SilenceAlwaysExplained == AnnounceSpec => []SilenceExplained
<1>1. NotifyInv => SilenceExplained
  BY DEF NotifyInv, NotifyTypeOK, Pending, OnItsWay, Announces, SilenceExplained
<1>2. QED
  BY <1>1, NoticesSound, PTL

\* Only a call whose reading was overtaken writes a move the table forbids.
\* (status.service.ts:53)
THEOREM ForbiddenOnlyOvertaken == AnnounceSpec => ForbiddenOnlyWhenOvertaken
<1>1. ASSUME NotifyInv, AnnounceNext, Forbidden PROVE Overtaken
  <2> USE DEF NotifyInv, NotifyTypeOK, Forbidden
  <2>1. PICK c \in Transitions : TransitionWrite(c)
    BY <1>1 DEF AnnounceNext, Apart, CallStep, TransitionRead, TransitionFind, TransitionRemove,
                TransitionAdd, TransitionThrows, NoticeDue, NoticeChecked, NoticeCheckThrows,
                NoticeEmit, NoticeBell, Maintenance, NotifyCrash, rowVars, notifyVars
  <2>2. call[c].at = "write" /\ call[c].to = status'
    BY <2>1 DEF TransitionWrite
  <2>3. status' \in validTransitions[call[c].from]
    BY <1>1, <2>2 DEF ReadsValid, ValidMove
  <2>4. QED
    BY <1>1, <2>2, <2>3 DEF Overtaken
<1>2. NotifyInv /\ [AnnounceNext]_announceVars => [Forbidden => Overtaken]_notifyVars
  BY <1>1 DEF announceVars
<1>3. QED
  BY <1>2, NoticesSound, PTL DEF AnnounceSpec, ForbiddenOnlyWhenOvertaken

(***************************************************************************)
(* WebhookDelivery.  A delivery has a job only once it has a row, its job  *)
(* is active exactly while the worker has it, and it is posted once in     *)
(* each attempt and once more after a stall.  And unless it is spoilt, its *)
(* row is there, has an end if the job has, and nobody has accepted it     *)
(* before the attempt that is the last.                                    *)
(***************************************************************************)
DeliveryBegun(d) ==
  /\ owner[d] = "none" => job[d] = NoJob /\ delivery[d] = NoRow
  /\ emitting.made = d => owner[d] # "none" /\ job[d] = NoJob
  /\ job[d].state = "none" => job[d] = NoJob
  /\ job[d].state = "active" <=> poster.d = d

Posted(d) ==
  /\ oks[d] <= posts[d]
  /\ job[d].state \in {"none", "waiting", "active"} => job[d].made < Attempts /\ job[d].stalls <= 1
  /\ job[d].state \in {"none", "waiting"} => posts[d] <= job[d].made + job[d].stalls
  /\ job[d].state = "active" =>
       posts[d] <= job[d].made + job[d].stalls + (IF poster.at = "post" THEN 0 ELSE 1)

Accepted(d) == (poster.d = d /\ poster.at \in {"ok", "done"}) \/ job[d].state = "completed"
Completes(d) == (poster.d = d /\ poster.at = "done") \/ job[d].state = "completed"

RowRight(d) ==
  /\ owner[d] # "none" => delivery[d].present
  /\ oks[d] = IF Accepted(d) THEN 1 ELSE 0
  /\ delivery[d].completed <=> Completes(d)
  /\ delivery[d].failed <=> job[d].state = "failed"
  /\ delivery[d].failed => delivery[d].attempts = Attempts

DeliveryInv ==
  /\ DeliveryTypeOK
  /\ poster.at = "idle" <=> poster.d = "none"
  /\ \A d \in Deliveries : DeliveryBegun(d) /\ Posted(d)
  /\ \A d \in Deliveries \ spoilt : RowRight(d)

LEMMA InitDelivery == DeliveryInit => DeliveryInv
<1> SUFFICES ASSUME DeliveryInit PROVE DeliveryInv
  OBVIOUS
<1> USE DeliveryAssumption DEF DeliveryInit, NoRow, NoJob, NotEmitting
<1>1. DeliveryTypeOK
  <2>1. 0 \in 0..Attempts /\ 0 \in 0..2 /\ 0 \in 0..(Attempts + 1)
    OBVIOUS
  <2>2. QED
    BY <2>1 DEF DeliveryTypeOK
<1>2. ASSUME NEW d \in Deliveries PROVE DeliveryBegun(d) /\ Posted(d) /\ RowRight(d)
  BY DEF DeliveryBegun, Posted, RowRight, Accepted, Completes
<1>3. QED
  BY <1>1, <1>2 DEF DeliveryInv

\* What does not touch a delivery leaves what is known of it.
LEMMA DeliveryKept ==
  ASSUME NEW d \in Deliveries, DeliveryBegun(d), Posted(d), d \notin spoilt => RowRight(d),
         owner'[d] = owner[d], delivery'[d] = delivery[d], job'[d] = job[d],
         posts'[d] = posts[d], oks'[d] = oks[d], spoilt \subseteq spoilt',
         emitting'.made = d => emitting.made = d,
         poster' = poster \/ (poster.d # d /\ poster'.d # d)
  PROVE  DeliveryBegun(d)' /\ Posted(d)' /\ (d \notin spoilt' => RowRight(d)')
<1>1. DeliveryBegun(d)'
  BY DEF DeliveryBegun, NoJob, NoRow
<1>2. Posted(d)'
  BY DEF Posted, DeliveryBegun
<1>3. d \notin spoilt' => RowRight(d)'
  BY DEF RowRight, Accepted, Completes
<1>4. QED
  BY <1>1, <1>2, <1>3

Rows == [present : BOOLEAN, attempts : 0..Attempts, completed : BOOLEAN, failed : BOOLEAN]
Jobs == [state : {"none", "waiting", "active", "completed", "failed"}, made : 0..Attempts, stalls : 0..2]

LEMMA DeliveryTypes ==
  ASSUME DeliveryInv, NEW d \in Deliveries
  PROVE  delivery[d] \in Rows /\ job[d] \in Jobs
  BY DEF DeliveryInv, DeliveryTypeOK, Rows, Jobs

(***************************************************************************)
(* emitEvent.                                                              *)
(***************************************************************************)
LEMMA EmitSteps ==
  ASSUME DeliveryInv, EmitBegin \/ EmitRow \/ EmitJob \/ EmitThrows
  PROVE  DeliveryInv'
<1> USE DeliveryAssumption DEF DeliveryInv
<1>1. UNCHANGED <<sub, poster, posts, oks, spoilt, deaths>> /\ losses' \in 0..MaxLosses
  BY DEF EmitBegin, EmitRow, EmitJob, EmitThrows, DeliveryTypeOK
<1>2. CASE EmitBegin \/ EmitThrows
  <2>1. emitting'.made = "none" /\ emitting'.todo \in SUBSET Subs /\ UNCHANGED <<owner, delivery, job>>
        /\ emitting' \in [todo : SUBSET Subs, made : {"none"}]
    BY <1>2 DEF EmitBegin, EmitThrows, NotEmitting, Subscribed
  <2>2. DeliveryTypeOK'
    BY <1>1, <2>1 DEF DeliveryTypeOK
  <2>3. QED
    BY <1>1, <2>1, <2>2, DeliveryKept
<1>3. CASE EmitRow
  <2>1. PICK s \in emitting.todo, d \in Unused :
          IF sub[s] = "deleted"
          THEN emitting' = NotEmitting /\ UNCHANGED <<owner, delivery>>
          ELSE /\ emitting' = [todo |-> emitting.todo \ {s}, made |-> d]
               /\ owner' = [owner EXCEPT ![d] = s]
               /\ delivery' = [delivery EXCEPT ![d].present = TRUE]
    BY <1>3 DEF EmitRow
  <2>2. UNCHANGED job /\ s \in Subs /\ d \in Deliveries /\ owner[d] = "none"
    BY <1>3 DEF EmitRow, Unused, DeliveryTypeOK
  <2>3. CASE sub[s] = "deleted"
    <3>1. DeliveryTypeOK'
      BY <1>1, <2>1, <2>2, <2>3 DEF DeliveryTypeOK, NotEmitting
    <3>2. QED
      BY <1>1, <2>1, <2>2, <2>3, <3>1, DeliveryKept DEF NotEmitting
  <2>4. CASE sub[s] # "deleted"
    <3>1. DeliveryTypeOK'
      <4>1. emitting' \in [todo : SUBSET Subs, made : Deliveries \cup {"none"}]
        BY <2>1, <2>2, <2>4 DEF DeliveryTypeOK
      <4>2. owner' \in [Deliveries -> Subs \cup {"none"}]
        BY <2>1, <2>2, <2>4 DEF DeliveryTypeOK
      <4>3. delivery' \in [Deliveries -> [present : BOOLEAN, attempts : 0..Attempts,
                                         completed : BOOLEAN, failed : BOOLEAN]]
        <5>1. [delivery[d] EXCEPT !.present = TRUE] \in Rows
          BY <2>2, DeliveryTypes DEF Rows
        <5>2. QED
          BY <2>1, <2>2, <2>4, <5>1 DEF DeliveryTypeOK, Rows
      <4>4. QED
        BY <1>1, <2>2, <4>1, <4>2, <4>3 DEF DeliveryTypeOK
    <3>2. /\ owner'[d] = s /\ delivery'[d] = [NoRow EXCEPT !.present = TRUE]
          /\ emitting'.made = d /\ job[d] = NoJob /\ poster.d # d
      BY <2>1, <2>2, <2>4 DEF DeliveryTypeOK, DeliveryBegun, NoJob
    <3>3. ASSUME NEW e \in Deliveries
          PROVE  DeliveryBegun(e)' /\ Posted(e)' /\ (e \notin spoilt' => RowRight(e)')
      <4>1. CASE e = d
        <5>1. DeliveryBegun(d) /\ Posted(d) /\ (d \notin spoilt => RowRight(d))
          BY <2>2
        <5>2. DeliveryBegun(d)' /\ Posted(d)'
          BY <1>1, <2>2, <3>2, <5>1 DEF DeliveryBegun, Posted, NoJob
        <5>3. d \notin spoilt' => RowRight(d)'
          BY <1>1, <2>2, <3>2, <5>1 DEF RowRight, Accepted, Completes, NoJob, NoRow
        <5>4. QED
          BY <4>1, <5>2, <5>3
      <4>2. CASE e # d
        BY <1>1, <2>1, <2>2, <2>4, <3>2, <4>2, DeliveryKept DEF DeliveryTypeOK
      <4>3. QED
        BY <4>1, <4>2
    <3>4. QED
      BY <1>1, <3>1, <3>3
  <2>5. QED
    BY <2>3, <2>4
<1>4. CASE EmitJob
  <2> DEFINE d == emitting.made
  <2>1. /\ d \in Deliveries /\ job' = [job EXCEPT ![d].state = "waiting"]
        /\ emitting' = [emitting EXCEPT !.made = "none"] /\ UNCHANGED <<owner, delivery>>
    BY <1>4 DEF EmitJob, DeliveryTypeOK
  <2>2. DeliveryTypeOK'
    BY <1>1, <2>1 DEF DeliveryTypeOK
  <2>3. /\ owner[d] # "none" /\ job[d] = NoJob /\ poster.d # d
        /\ job'[d] = [NoJob EXCEPT !.state = "waiting"] /\ emitting'.made = "none"
    BY <2>1 DEF DeliveryBegun, NoJob, DeliveryTypeOK
  <2>4. ASSUME NEW e \in Deliveries
        PROVE  DeliveryBegun(e)' /\ Posted(e)' /\ (e \notin spoilt' => RowRight(e)')
    <3>1. CASE e = d
      <4>1. DeliveryBegun(e) /\ Posted(e) /\ (e \notin spoilt => RowRight(e))
        OBVIOUS
      <4>2. DeliveryBegun(e)' /\ Posted(e)'
        BY <1>1, <2>1, <2>3, <3>1, <4>1 DEF DeliveryBegun, Posted, NoJob
      <4>3. e \notin spoilt' => RowRight(e)'
        BY <1>1, <2>1, <2>3, <3>1, <4>1 DEF RowRight, Accepted, Completes, NoJob
      <4>4. QED
        BY <4>2, <4>3
    <3>2. CASE e # d
      BY <1>1, <2>1, <2>3, <3>2, DeliveryKept DEF DeliveryTypeOK
    <3>3. QED
      BY <3>1, <3>2
  <2>5. QED
    BY <1>1, <2>2, <2>4
<1>5. QED
  BY <1>2, <1>3, <1>4

(***************************************************************************)
(* The worker.  What a step does to the delivery it is at is all it does.  *)
(***************************************************************************)
LEMMA OneDelivery ==
  ASSUME DeliveryInv, NEW d \in Deliveries,
         UNCHANGED <<owner, emitting>>, spoilt \subseteq spoilt', DeliveryTypeOK',
         \A e \in Deliveries \ {d} : /\ delivery'[e] = delivery[e] /\ job'[e] = job[e]
                                    /\ posts'[e] = posts[e] /\ oks'[e] = oks[e],
         poster.d \in {d, "none"}, poster'.d \in {d, "none"},
         poster'.at = "idle" <=> poster'.d = "none",
         DeliveryBegun(d)', Posted(d)', d \notin spoilt' => RowRight(d)'
  PROVE  DeliveryInv'
<1>1. ASSUME NEW e \in Deliveries
      PROVE  DeliveryBegun(e)' /\ Posted(e)' /\ (e \notin spoilt' => RowRight(e)')
  <2>1. CASE e = d
    BY <2>1
  <2>2. CASE e # d
    <3>1. poster.d # e /\ poster'.d # e
      BY <2>2, DeliveryAssumption
    <3>2. QED
      BY <2>2, <3>1, DeliveryKept DEF DeliveryInv
  <2>3. QED
    BY <2>1, <2>2
<1>2. QED
  BY <1>1 DEF DeliveryInv

LEMMA DeliverStep ==
  ASSUME DeliveryInv, Deliver
  PROVE  DeliveryInv'
<1>1. PICK d \in Deliveries :
        /\ job[d].state = "waiting"
        /\ job' = [job EXCEPT ![d].state = "active"]
        /\ poster' = [at |-> "post", d |-> d]
  BY DEF Deliver
<1>2. poster.at = "idle" /\ UNCHANGED <<sub, owner, delivery, emitting, posts, oks, spoilt, losses, deaths>>
  BY DEF Deliver
<1>3. job[d] \in Jobs
  BY DeliveryTypes
<1>4. [job[d] EXCEPT !.state = "active"] \in Jobs
  BY <1>3 DEF Jobs
<1>5. DeliveryTypeOK'
  <2>1. job' \in [Deliveries -> Jobs]
    BY <1>1, <1>4 DEF DeliveryInv, DeliveryTypeOK, Jobs
  <2>2. QED
    BY <1>1, <1>2, <2>1 DEF DeliveryInv, DeliveryTypeOK, Jobs
<1>6. /\ job'[d].state = "active" /\ job'[d].made = job[d].made /\ job'[d].stalls = job[d].stalls
      /\ job'[d] # NoJob /\ poster.d = "none"
      /\ \A e \in Deliveries \ {d} : job'[e] = job[e]
  BY <1>1, <1>2, <1>3 DEF DeliveryInv, DeliveryTypeOK, Jobs, NoJob
<1>7. DeliveryBegun(d) /\ Posted(d) /\ (d \notin spoilt => RowRight(d)) /\ d # "none"
  BY DeliveryAssumption DEF DeliveryInv
<1>8. DeliveryBegun(d)' /\ Posted(d)' /\ (d \notin spoilt' => RowRight(d)')
  <2>1. DeliveryBegun(d)'
    BY <1>1, <1>2, <1>6, <1>7 DEF DeliveryBegun, NoJob
  <2>2. Posted(d)'
    <3>1. /\ job[d].made \in Nat /\ job[d].stalls \in Nat /\ poster'.at = "post"
          /\ posts'[d] = posts[d] /\ oks'[d] = oks[d]
      BY <1>1, <1>2, <1>3, DeliveryAssumption DEF Jobs
    <3>2. QED
      BY <1>1, <1>6, <1>7, <3>1 DEF Posted
  <2>3. d \notin spoilt' => RowRight(d)'
    BY <1>1, <1>2, <1>6, <1>7 DEF RowRight, Accepted, Completes
  <2>4. QED
    BY <2>1, <2>2, <2>3
<1>9. QED
  BY <1>1, <1>2, <1>5, <1>6, <1>7, <1>8, OneDelivery

\* What is known of the delivery the worker has.
AtIt(d) ==
  /\ d = poster.d /\ d # "none" /\ job[d].state = "active" /\ owner[d] # "none" /\ emitting.made # d
  /\ DeliveryBegun(d) /\ Posted(d) /\ (d \notin spoilt => RowRight(d))
  /\ delivery[d] \in Rows /\ job[d] \in Jobs /\ job[d].made + 1 \in 0..Attempts
  /\ posts[d] \in Nat /\ oks[d] \in Nat

LEMMA AtWork ==
  ASSUME DeliveryInv, poster.at # "idle"
  PROVE  \E d \in Deliveries : AtIt(d)
<1>1. PICK d \in Deliveries : d = poster.d
  BY DEF DeliveryInv, DeliveryTypeOK
<1>2. d # "none" /\ DeliveryBegun(d) /\ Posted(d) /\ (d \notin spoilt => RowRight(d))
  BY DeliveryAssumption DEF DeliveryInv
<1>3. job[d].state = "active" /\ owner[d] # "none" /\ emitting.made # d
  BY <1>1, <1>2 DEF DeliveryBegun, NoJob
<1>4. delivery[d] \in Rows /\ job[d] \in Jobs /\ posts[d] \in Nat /\ oks[d] \in Nat
  BY DeliveryTypes DEF DeliveryInv, DeliveryTypeOK
<1>5. job[d].made + 1 \in 0..Attempts
  BY <1>2, <1>3, <1>4, DeliveryAssumption DEF Posted, Jobs
<1>6. QED
  BY <1>1, <1>2, <1>3, <1>4, <1>5 DEF AtIt

LEMMA PostStep ==
  ASSUME DeliveryInv, NEW answer \in {"ok", "refused", "timeout"}, Post(answer)
  PROVE  DeliveryInv'
<1> USE DeliveryAssumption
<1>0. PICK d \in Deliveries : AtIt(d)
  BY AtWork DEF Post
<1>1. /\ poster.at = "post"
      /\ posts' = [posts EXCEPT ![d] = posts[d] + 1]
      /\ oks' = [oks EXCEPT ![d] = oks[d] + (IF answer = "ok" THEN 1 ELSE 0)]
      /\ poster' = [poster EXCEPT !.at = answer]
      /\ UNCHANGED <<sub, owner, delivery, job, emitting, spoilt, losses, deaths>>
  BY <1>0 DEF Post, AtIt
<1>2. /\ d = poster.d /\ d # "none" /\ job[d].state = "active"
      /\ DeliveryBegun(d) /\ Posted(d) /\ (d \notin spoilt => RowRight(d))
      /\ job[d].made \in Nat /\ job[d].stalls \in Nat /\ posts[d] \in Nat /\ oks[d] \in Nat
  BY <1>0 DEF AtIt, Jobs
<1>3. poster'.at = answer /\ poster'.d = d
  BY <1>1, <1>2 DEF DeliveryInv, DeliveryTypeOK
<1>4. posts'[d] = posts[d] + 1 /\ oks'[d] = oks[d] + (IF answer = "ok" THEN 1 ELSE 0)
  BY <1>1, <1>2 DEF DeliveryInv, DeliveryTypeOK
<1>5. posts[d] <= job[d].made + job[d].stalls /\ oks[d] <= posts[d] /\ job[d].made < Attempts
        /\ job[d].stalls <= 1
  BY <1>1, <1>2 DEF Posted
<1>6. DeliveryTypeOK'
  <2>1. posts'[d] \in 0..(Attempts + 1) /\ oks'[d] \in 0..(Attempts + 1)
    BY <1>2, <1>4, <1>5
  <2>2. posts' \in [Deliveries -> 0..(Attempts + 1)] /\ oks' \in [Deliveries -> 0..(Attempts + 1)]
    BY <1>1, <2>1, <1>4 DEF DeliveryInv, DeliveryTypeOK
  <2>3. QED
    BY <1>1, <2>2 DEF DeliveryInv, DeliveryTypeOK
<1>7. DeliveryBegun(d)'
  BY <1>1, <1>2, <1>3 DEF DeliveryBegun
<1>8. Posted(d)'
  BY <1>1, <1>2, <1>3, <1>4, <1>5 DEF Posted
<1>9. d \notin spoilt' => RowRight(d)'
  BY <1>1, <1>2, <1>3, <1>4 DEF RowRight, Accepted, Completes
<1>10. \A e \in Deliveries \ {d} : posts'[e] = posts[e] /\ oks'[e] = oks[e]
  BY <1>1 DEF DeliveryInv, DeliveryTypeOK
<1>11. QED
  BY <1>1, <1>2, <1>3, <1>6, <1>7, <1>8, <1>9, <1>10, OneDelivery

\* RecordOk, RecordRefused, NoAnswer and RecordThrows: the row is written or not, and the worker goes on
\* with the same delivery.
LEMMA RecordStep ==
  ASSUME DeliveryInv, RecordOk \/ RecordRefused \/ NoAnswer \/ RecordThrows
  PROVE  DeliveryInv'
<1> USE DeliveryAssumption
<1>1. PICK d \in Deliveries : AtIt(d)
  BY AtWork DEF RecordOk, RecordRefused, NoAnswer, RecordThrows
<1>2. /\ poster.at \in {"ok", "refused", "timeout"} /\ d = poster.d
      /\ UNCHANGED <<sub, owner, job, emitting, posts, oks, deaths>>
      /\ losses' \in 0..MaxLosses /\ spoilt' \in {spoilt, spoilt \cup {d}}
      /\ \/ /\ poster.at = "ok" /\ poster' = [poster EXCEPT !.at = "done"] /\ delivery[d].present
            /\ delivery' = [Written(d) EXCEPT ![d].completed = TRUE]
         \/ /\ poster.at # "ok" /\ poster' = [poster EXCEPT !.at = "catch"]
            /\ delivery' \in {delivery, Written(d)}
         \/ /\ spoilt' = spoilt \cup {d} /\ poster' = [poster EXCEPT !.at = "catch"]
            /\ delivery' = delivery
  BY <1>1 DEF AtIt, RecordOk, RecordRefused, NoAnswer, RecordThrows, DeliveryInv, DeliveryTypeOK
<1>3. poster'.at \in {"done", "catch"} /\ poster'.d = d
  BY <1>2 DEF DeliveryInv, DeliveryTypeOK
<1>4. delivery[d] \in Rows /\ job[d] \in Jobs /\ job[d].made + 1 \in 0..Attempts /\ d # "none"
  BY <1>1 DEF AtIt
<1>5. PICK row \in Rows :
        /\ delivery' = [delivery EXCEPT ![d] = row]
        /\ row.present = delivery[d].present /\ row.failed = delivery[d].failed
        /\ row.completed <=> (delivery[d].completed \/ poster'.at = "done")
        /\ row.attempts = delivery[d].attempts \/ row.attempts = job[d].made + 1
  <2> DEFINE written == [delivery[d] EXCEPT !.attempts = job[d].made + 1]
             completed == [written EXCEPT !.completed = TRUE]
  <2>1. delivery \in [Deliveries -> Rows]
    BY DEF DeliveryInv, DeliveryTypeOK, Rows
  <2>2. /\ written \in Rows /\ written.present = delivery[d].present /\ written.failed = delivery[d].failed
        /\ written.completed = delivery[d].completed /\ written.attempts = job[d].made + 1
    BY <1>4 DEF Rows
  <2>3. /\ completed \in Rows /\ completed.present = delivery[d].present
             /\ completed.failed = delivery[d].failed
        /\ completed.completed = TRUE /\ completed.attempts = job[d].made + 1
    BY <2>2 DEF Rows
  <2>4. Written(d) = [delivery EXCEPT ![d] = written]
    BY <2>1 DEF Written
  <2>5. [Written(d) EXCEPT ![d].completed = TRUE] = [delivery EXCEPT ![d] = completed]
    BY <2>1, <2>4
  <2>6. delivery = [delivery EXCEPT ![d] = delivery[d]]
    BY <2>1
  <2> HIDE DEF written, completed
  <2>7. CASE poster' = [poster EXCEPT !.at = "done"]
    <3>1. poster'.at = "done" /\ delivery' = [delivery EXCEPT ![d] = completed]
      BY <1>2, <2>5, <2>7 DEF DeliveryInv, DeliveryTypeOK
    <3>2. QED
      BY <2>3, <3>1
  <2>8. CASE poster' = [poster EXCEPT !.at = "catch"] /\ delivery' = Written(d)
    <3>1. poster'.at = "catch"
      BY <2>8 DEF DeliveryInv, DeliveryTypeOK
    <3>2. QED
      BY <2>2, <2>4, <2>8, <3>1
  <2>9. CASE poster' = [poster EXCEPT !.at = "catch"] /\ delivery' = delivery
    <3>1. poster'.at = "catch"
      BY <2>9 DEF DeliveryInv, DeliveryTypeOK
    <3>2. QED
      BY <1>4, <2>6, <2>9, <3>1
  <2>10. QED
    BY <1>2, <2>7, <2>8, <2>9
<1>6. DeliveryTypeOK'
  <2>1. delivery' \in [Deliveries -> Rows]
    BY <1>5 DEF DeliveryInv, DeliveryTypeOK, Rows
  <2>2. QED
    BY <1>2, <2>1 DEF DeliveryInv, DeliveryTypeOK, Rows
<1>7. /\ delivery'[d] = row /\ \A e \in Deliveries \ {d} : delivery'[e] = delivery[e]
      /\ job'[d] = job[d] /\ posts'[d] = posts[d] /\ oks'[d] = oks[d]
      /\ owner'[d] = owner[d] /\ emitting' = emitting
  BY <1>2, <1>5 DEF DeliveryInv, DeliveryTypeOK
<1>8. DeliveryBegun(d)'
  BY <1>1, <1>3, <1>7 DEF DeliveryBegun, AtIt
<1>9. Posted(d)'
  BY <1>1, <1>2, <1>3, <1>7 DEF Posted, AtIt
<1>10. d \notin spoilt' => RowRight(d)'
  <2>1. SUFFICES ASSUME d \notin spoilt' PROVE RowRight(d)'
    OBVIOUS
  <2>2. RowRight(d) /\ (poster.at = "ok" <=> poster'.at = "done")
    BY <1>1, <1>2, <2>1 DEF AtIt, DeliveryInv, DeliveryTypeOK
  <2>3. owner[d] # "none" /\ job[d].state = "active"
    BY <1>1 DEF AtIt
  <2>4. Accepted(d)' <=> Accepted(d)
    BY <1>2, <1>3, <1>7, <2>2, <2>3 DEF Accepted
  <2>5. Completes(d)' <=> (Completes(d) \/ poster'.at = "done")
    BY <1>2, <1>3, <1>7, <2>3 DEF Completes
  <2>6. QED
    BY <1>5, <1>7, <2>2, <2>3, <2>4, <2>5 DEF RowRight
<1>11. QED
  BY <1>1, <1>2, <1>3, <1>6, <1>7, <1>8, <1>9, <1>10, OneDelivery DEF AtIt

\* BullMQ after the attempt: the job is completed, or tried again, or failed.
LEMMA CompletedStep ==
  ASSUME DeliveryInv, Completed
  PROVE  DeliveryInv'
<1> USE DeliveryAssumption
<1>1. PICK d \in Deliveries : AtIt(d)
  BY AtWork DEF Completed
<1>2. /\ poster.at = "done" /\ d = poster.d
      /\ job' = [job EXCEPT ![d].state = "completed"] /\ poster' = Idle
      /\ UNCHANGED <<sub, owner, delivery, emitting, posts, oks, spoilt, losses, deaths>>
  BY <1>1 DEF Completed, AtIt
<1>3. job[d] \in Jobs /\ [job[d] EXCEPT !.state = "completed"] \in Jobs
  BY <1>1 DEF AtIt, Jobs
<1>4. DeliveryTypeOK'
  <2>1. job' \in [Deliveries -> Jobs]
    BY <1>2, <1>3 DEF DeliveryInv, DeliveryTypeOK, Jobs
  <2>2. QED
    BY <1>2, <2>1 DEF DeliveryInv, DeliveryTypeOK, Jobs, Idle
<1>5. /\ job'[d].state = "completed" /\ \A e \in Deliveries \ {d} : job'[e] = job[e]
      /\ poster'.at = "idle" /\ poster'.d = "none"
  BY <1>2, <1>3 DEF DeliveryInv, DeliveryTypeOK, Jobs, Idle
<1>6. DeliveryBegun(d)' /\ Posted(d)'
  BY <1>1, <1>2, <1>5 DEF DeliveryBegun, Posted, AtIt
<1>7. d \notin spoilt' => RowRight(d)'
  BY <1>1, <1>2, <1>5 DEF RowRight, Accepted, Completes, AtIt
<1>8. QED
  BY <1>1, <1>2, <1>4, <1>5, <1>6, <1>7, OneDelivery DEF AtIt

LEMMA CatchStep ==
  ASSUME DeliveryInv, Catch
  PROVE  DeliveryInv'
<1> USE DeliveryAssumption
<1>1. PICK d \in Deliveries : AtIt(d)
  BY AtWork DEF Catch
<1> DEFINE last == job[d].made + 1 >= Attempts
           row == [delivery[d] EXCEPT !.attempts = job[d].made + 1, !.failed = delivery[d].failed \/ last]
           tried == [job[d] EXCEPT !.made = job[d].made + 1, !.state = IF last THEN "failed" ELSE "waiting"]
<1>2. delivery[d] \in Rows /\ job[d] \in Jobs /\ job[d].made + 1 \in 0..Attempts /\ d = poster.d /\ d # "none"
  BY <1>1 DEF AtIt
<1>3. row \in Rows /\ tried \in Jobs
  BY <1>2 DEF Rows, Jobs
<1>4. /\ row.present = delivery[d].present /\ row.completed = delivery[d].completed
      /\ row.attempts = job[d].made + 1 /\ (row.failed <=> delivery[d].failed \/ last)
      /\ tried.made = job[d].made + 1 /\ tried.stalls = job[d].stalls
      /\ tried.state = IF last THEN "failed" ELSE "waiting"
  BY <1>2 DEF Rows, Jobs
<1>5. /\ poster.at = "catch" /\ job' = [job EXCEPT ![d] = tried] /\ poster' = Idle
      /\ UNCHANGED <<sub, owner, emitting, posts, oks, deaths>>
  BY <1>2 DEF Catch, Thrown
<1>6. [Written(d) EXCEPT ![d].failed = @ \/ LastAttempt(job[d])] = [delivery EXCEPT ![d] = row]
  BY <1>2 DEF Written, LastAttempt, DeliveryInv, DeliveryTypeOK, Rows
<1>7. /\ losses' \in 0..MaxLosses /\ spoilt' \in {spoilt, spoilt \cup {d}}
      /\ \/ delivery' = [delivery EXCEPT ![d] = row] /\ delivery[d].present
         \/ delivery' = delivery /\ (d \in spoilt' \/ ~delivery[d].present)
  <2> DEFINE marked == [Written(d) EXCEPT ![d].failed = @ \/ LastAttempt(job[d])]
  <2>1. \/ /\ delivery' = IF delivery[d].present THEN marked ELSE delivery
           /\ UNCHANGED <<losses, spoilt>>
        \/ /\ losses < MaxLosses /\ losses' = losses + 1
           /\ spoilt' = spoilt \cup {d} /\ UNCHANGED delivery
    BY <1>2 DEF Catch
  <2>2. losses \in 0..MaxLosses
    BY DEF DeliveryInv, DeliveryTypeOK
  <2> HIDE DEF marked
  <2>3. marked = [delivery EXCEPT ![d] = row]
    BY <1>6 DEF marked
  <2>4. QED
    BY <2>1, <2>2, <2>3
<1> HIDE DEF row, tried
<1>8. DeliveryTypeOK'
  <2>1. delivery' \in [Deliveries -> Rows]
    BY <1>3, <1>7 DEF DeliveryInv, DeliveryTypeOK, Rows
  <2>2. job' \in [Deliveries -> Jobs]
    BY <1>3, <1>5 DEF DeliveryInv, DeliveryTypeOK, Jobs
  <2>3. spoilt' \subseteq Deliveries
    BY <1>7 DEF DeliveryInv, DeliveryTypeOK
  <2>4. QED
    BY <1>5, <1>7, <2>1, <2>2, <2>3 DEF DeliveryInv, DeliveryTypeOK, Rows, Jobs, Idle
<1>9. /\ job'[d] = tried /\ poster'.at = "idle" /\ poster'.d = "none"
      /\ \A e \in Deliveries \ {d} : job'[e] = job[e] /\ delivery'[e] = delivery[e]
  BY <1>5, <1>7 DEF DeliveryInv, DeliveryTypeOK, Idle
<1>10. DeliveryBegun(d)'
  BY <1>1, <1>2, <1>4, <1>5, <1>9 DEF DeliveryBegun, AtIt
<1>11. Posted(d)'
  <2>1. /\ posts'[d] = posts[d] /\ oks'[d] = oks[d] /\ oks[d] <= posts[d] /\ posts[d] \in Nat
        /\ posts[d] <= job[d].made + job[d].stalls + 1 /\ job[d].stalls <= 1
        /\ job[d].made \in Nat /\ job[d].stalls \in Nat
    BY <1>1, <1>5 DEF Posted, AtIt, Jobs
  <2>2. CASE last
    BY <1>4, <1>9, <2>1, <2>2 DEF Posted
  <2>3. CASE ~last
    BY <1>2, <1>4, <1>9, <2>1, <2>3 DEF Posted
  <2>4. QED
    BY <2>2, <2>3
<1>12. d \notin spoilt' => RowRight(d)'
  <2>1. SUFFICES ASSUME d \notin spoilt' PROVE RowRight(d)'
    OBVIOUS
  <2>2. RowRight(d) /\ owner[d] # "none" /\ job[d].state = "active"
    BY <1>1, <1>7, <2>1 DEF AtIt
  <2>3. delivery'[d] = row
    BY <1>7, <2>1, <2>2 DEF RowRight, DeliveryInv, DeliveryTypeOK
  <2>4. ~Accepted(d) /\ ~Completes(d) /\ ~Accepted(d)' /\ ~Completes(d)'
    BY <1>2, <1>4, <1>5, <1>9, <2>2 DEF Accepted, Completes
  <2>5. job[d].made + 1 >= Attempts => job[d].made + 1 = Attempts
    BY <1>2
  <2>6. QED
    BY <1>4, <1>5, <1>9, <2>2, <2>3, <2>4, <2>5 DEF RowRight
<1>13. QED
  BY <1>2, <1>5, <1>7, <1>8, <1>9, <1>10, <1>11, <1>12, OneDelivery

(***************************************************************************)
(* Subscriptions, and the death of the process.                            *)
(***************************************************************************)
LEMMA SubscriptionStep ==
  ASSUME DeliveryInv, NEW s \in Subs, SwitchSub(s) \/ Delete(s)
  PROVE  DeliveryInv'
<1> USE DeliveryAssumption
<1> DEFINE theirs == {d \in Deliveries : owner[d] = s}
<1>1. /\ UNCHANGED <<owner, job, emitting, poster, posts, oks, losses, deaths>>
      /\ \/ UNCHANGED <<delivery, spoilt>>
         \/ /\ delivery' = [d \in Deliveries |-> IF d \in theirs THEN NoRow ELSE delivery[d]]
            /\ spoilt' = spoilt \cup theirs
  BY DEF SwitchSub, Delete
<1>2. DeliveryTypeOK'
  <2>1. sub' \in [Subs -> {"active", "disabled", "deleted"}]
    BY DEF SwitchSub, Delete, DeliveryInv, DeliveryTypeOK
  <2>2. delivery' \in [Deliveries -> Rows] /\ spoilt' \subseteq Deliveries
    <3>1. NoRow \in Rows
      BY DEF NoRow, Rows
    <3>2. delivery \in [Deliveries -> Rows] /\ spoilt \subseteq Deliveries
      BY DEF DeliveryInv, DeliveryTypeOK, Rows
    <3>3. QED
      BY <1>1, <3>1, <3>2
  <2>3. QED
    BY <1>1, <2>1, <2>2 DEF DeliveryInv, DeliveryTypeOK, Rows
<1>3. ASSUME NEW d \in Deliveries
      PROVE  DeliveryBegun(d)' /\ Posted(d)' /\ (d \notin spoilt' => RowRight(d)')
  <2>1. CASE delivery'[d] = delivery[d]
    BY <1>1, <2>1, DeliveryKept DEF DeliveryInv
  <2>2. CASE delivery'[d] # delivery[d]
    <3>1. d \in spoilt' /\ owner[d] # "none"
      BY <1>1, <2>2
    <3>2. DeliveryBegun(d)' /\ Posted(d)'
      BY <1>1, <3>1 DEF DeliveryInv, DeliveryBegun, Posted
    <3>3. QED
      BY <3>1, <3>2
  <2>3. QED
    BY <2>1, <2>2
<1>4. QED
  BY <1>1, <1>2, <1>3 DEF DeliveryInv

\* The active job stalls, and its delivery is spoilt.
LEMMA DeliveryCrashStep ==
  ASSUME DeliveryInv, DeliveryCrash
  PROVE  DeliveryInv'
<1> USE DeliveryAssumption
<1>1. /\ emitting' = NotEmitting /\ poster' = Idle
      /\ job' = [d \in Deliveries |-> IF job[d].state = "active" THEN Stalled(job[d]) ELSE job[d]]
      /\ spoilt' = spoilt \cup {d \in Deliveries : job[d].state = "active"}
      /\ UNCHANGED <<sub, owner, delivery, posts, oks, losses>>
      /\ deaths' \in 0..MaxDeaths
  BY DEF DeliveryCrash, DeliveryInv, DeliveryTypeOK
<1>2. ASSUME NEW d \in Deliveries, job[d].state = "active"
      PROVE  /\ Stalled(job[d]) \in Jobs /\ Stalled(job[d]).made = job[d].made
             /\ job[d].made \in Nat /\ job[d].stalls \in Nat
             /\ \/ Stalled(job[d]).state = "waiting" /\ job[d].stalls = 0 /\ Stalled(job[d]).stalls = 1
                \/ Stalled(job[d]).state = "failed"
  <2>1. job[d] \in Jobs /\ job[d].stalls <= 1
    BY <1>2, DeliveryTypes DEF DeliveryInv, Posted
  <2>2. QED
    <3>1. job[d].stalls \in 0..1 /\ job[d].made \in 0..Attempts
      BY <2>1 DEF Jobs
    <3>2. PICK j \in Jobs : j = job[d]
      BY <2>1
    <3>3. j.stalls \in 0..1 /\ j.made \in 0..Attempts
      BY <3>1, <3>2
    <3>4. /\ Stalled(j) \in Jobs /\ Stalled(j).made = j.made /\ Stalled(j).stalls = j.stalls + 1
          /\ Stalled(j).state = IF j.stalls >= 1 THEN "failed" ELSE "waiting"
      <4>1. j.stalls + 1 \in 0..2
        BY <3>3
      <4>2. [j EXCEPT !.stalls = j.stalls + 1] \in Jobs
        BY <4>1 DEF Jobs
      <4>3. Stalled(j) = [[j EXCEPT !.stalls = j.stalls + 1] EXCEPT !.state = IF j.stalls >= 1
              THEN "failed" ELSE "waiting"]
        BY DEF Stalled
      <4>4. QED
        BY <4>1, <4>2, <4>3 DEF Jobs
    <3>5. QED
      BY <3>2, <3>3, <3>4
<1>3. DeliveryTypeOK'
  <2>1. job' \in [Deliveries -> Jobs]
    BY <1>1, <1>2, DeliveryTypes
  <2>2. QED
    BY <1>1, <2>1 DEF DeliveryInv, DeliveryTypeOK, Jobs, NotEmitting, Idle
<1>4. ASSUME NEW d \in Deliveries
      PROVE  DeliveryBegun(d)' /\ Posted(d)' /\ (d \notin spoilt' => RowRight(d)')
  <2>1. DeliveryBegun(d) /\ Posted(d) /\ (d \notin spoilt => RowRight(d)) /\ d # "none"
    BY DEF DeliveryInv
  <2>2. poster'.d = "none" /\ emitting'.made = "none"
    BY <1>1 DEF Idle, NotEmitting
  <2>3. CASE job[d].state = "active"
    <3>1. job'[d] = Stalled(job[d]) /\ d \in spoilt'
      BY <1>1, <2>3
    <3>2. DeliveryBegun(d)'
      BY <1>1, <1>2, <2>1, <2>2, <2>3, <3>1 DEF DeliveryBegun, NoJob
    <3>3. posts[d] \in Nat /\ posts[d] <= job[d].made + job[d].stalls + 1 /\ job[d].made < Attempts
      BY <1>2, <2>1, <2>3 DEF Posted, DeliveryInv, DeliveryTypeOK
    <3>4. Posted(d)'
      BY <1>1, <1>2, <2>1, <2>3, <3>1, <3>3 DEF Posted
    <3>5. QED
      BY <3>1, <3>2, <3>4
  <2>4. CASE job[d].state # "active"
    <3>1. job'[d] = job[d] /\ poster.d # d
      BY <1>1, <2>1, <2>4 DEF DeliveryBegun
    <3>2. QED
      BY <1>1, <2>1, <2>2, <3>1, DeliveryKept
  <2>5. QED
    BY <2>3, <2>4
<1>5. QED
  BY <1>1, <1>3, <1>4 DEF DeliveryInv, Idle

LEMMA DeliveryStep == DeliveryInv /\ [AnnounceNext]_announceVars => DeliveryInv'
<1>1. ASSUME DeliveryInv, UNCHANGED deliveryVars PROVE DeliveryInv'
  BY <1>1 DEF DeliveryInv, DeliveryTypeOK, DeliveryBegun, Posted, RowRight, Accepted, Completes, deliveryVars
<1>2. ASSUME DeliveryInv, PosterStep PROVE DeliveryInv'
  BY <1>2, DeliverStep, PostStep, RecordStep, CompletedStep, CatchStep DEF PosterStep
<1>3. QED
  BY <1>1, <1>2, EmitSteps, SubscriptionStep, DeliveryCrashStep
     DEF AnnounceNext, Apart, EmitStep, announceVars

\* Rows, jobs and the worker belong together in every reachable state.
\* (WebhookDeliveryProcessor.process, webhook-delivery.processor.ts:51)
THEOREM DeliveriesRight == AnnounceSpec => []DeliveryInv
<1>1. AnnounceInit => DeliveryInv
  BY InitDelivery DEF AnnounceInit
<1>2. QED
  BY <1>1, DeliveryStep, PTL DEF AnnounceSpec

\* A delivery is posted once in each attempt and once more after a stall, accepted once, and
\* its row tells how it ended, unless a write about it failed or the process died with it.
\* (webhook-delivery.processor.ts:51, :70, :90)
THEOREM DeliverySoundHolds == AnnounceSpec => []DeliverySound
<1>1. ASSUME DeliveryInv PROVE DeliverySound
  <2>1. ASSUME NEW d \in Deliveries, oks[d] > 1 PROVE d \in spoilt
    BY <1>1, <2>1 DEF DeliveryInv, RowRight
  <2>2. ASSUME NEW d \in Deliveries \ spoilt
        PROVE  /\ job[d].state = "completed" => delivery[d].completed /\ ~delivery[d].failed
               /\ job[d].state = "failed" =>
                    delivery[d].failed /\ ~delivery[d].completed /\ delivery[d].attempts = Attempts
    <3>1. RowRight(d) /\ (job[d].state = "active" <=> poster.d = d)
      BY <1>1 DEF DeliveryInv, DeliveryBegun
    <3>2. QED
      BY <3>1 DEF RowRight, Completes
  <2>3. QED
    BY <2>1, <2>2 DEF DeliverySound, OnceUnlessSpoilt, RowTellsEnd
<1>2. QED
  BY <1>1, DeliveriesRight, PTL

(***************************************************************************)
(* MCWorkers.  A step of the composition is one of the announcements that  *)
(* leaves the cluster alone, or one of the cluster that leaves them alone; *)
(* so the invariants of the announcements hold in it, and with them the    *)
(* types of the cluster's rows and jobs.                                   *)
(***************************************************************************)
ClusterRows == [status : NodeStatuses, missed : 0..OFFLINE_THRESHOLD]

LEMMA ClusterRowsTyped ==
  /\ NoNode \in ClusterRows /\ NoCheck.row = NoNode /\ NoCheck.n = None
  /\ [status |-> "ONLINE", missed |-> 0] \in ClusterRows
  /\ \A row \in ClusterRows : Healthy(row) \in ClusterRows /\ Missed(row) \in ClusterRows
BY DEF ClusterRows, NodeStatuses, NoNode, NoCheck, Healthy, Missed, OFFLINE_THRESHOLD

LEMMA ClusterInitTyped == ClusterInit => ClusterTypeOK
BY ClusterAssumption, ClusterRowsTyped DEF ClusterInit, ClusterTypeOK, ClusterRows, NoCheck

LEMMA ClusterStepTyped == ClusterTypeOK /\ [ClusterNext]_clusterVars => ClusterTypeOK'
<1> SUFFICES ASSUME ClusterTypeOK, [ClusterNext]_clusterVars PROVE ClusterTypeOK'
  OBVIOUS
<1>1. ASSUME Event PROVE events' \in 0..MaxEvents
  BY <1>1, ClusterAssumption DEF Event, ClusterTypeOK
<1>2. Origin \in Nodes /\ Edges \subseteq Nodes
  BY DEF Nodes
<1>3. CASE RegisterFind \/ RegisterCreate \/ StartFind \/ StartAdd
  <2>1. CASE RegisterFind
    BY <2>1 DEF RegisterFind, ClusterTypeOK
  <2>2. CASE RegisterCreate
    BY <1>2, <2>2, ClusterRowsTyped DEF RegisterCreate, ClusterTypeOK, ClusterRows
  <2>3. CASE StartFind
    BY <2>3 DEF StartFind, ClusterTypeOK
  <2>4. CASE StartAdd
    BY <2>4 DEF StartAdd, ClusterTypeOK
  <2>5. QED
    BY <1>3, <2>1, <2>2, <2>3, <2>4
<1>4. CASE Reboot
  BY <1>1, <1>4, ClusterRowsTyped DEF Reboot, ClusterTypeOK, ClusterRows, NoCheck
<1>5. ASSUME NEW n \in Edges, CreateNode(n) \/ RemoveNode(n) PROVE ClusterTypeOK'
  <2>1. CASE CreateNode(n)
    <3>1. [status |-> IF n \in up THEN "CONNECTING" ELSE "OFFLINE", missed |-> 0] \in ClusterRows
      BY DEF ClusterRows, NodeStatuses, OFFLINE_THRESHOLD
    <3>2. QED
      BY <1>1, <1>2, <2>1, <3>1 DEF CreateNode, ClusterTypeOK, ClusterRows
  <2>2. CASE RemoveNode(n)
    <3>1. [node[n] EXCEPT !.status = "gone"] \in ClusterRows
      BY <1>2 DEF ClusterTypeOK, ClusterRows, NodeStatuses
    <3>2. QED
      BY <1>1, <1>2, <2>2, <3>1 DEF RemoveNode, ClusterTypeOK, ClusterRows
  <2>3. QED
    BY <1>5, <2>1, <2>2
<1>6. ASSUME NEW n \in Nodes, Flip(n) \/ CheckRead(n) PROVE ClusterTypeOK'
  <2>1. CASE Flip(n)
    BY <1>1, <2>1 DEF Flip, ClusterTypeOK
  <2>2. CASE CheckRead(n)
    BY <2>2, ClusterRowsTyped DEF CheckRead, ClusterTypeOK, ClusterRows, NoCheck
  <2>3. QED
    BY <1>6, <2>1, <2>2
<1>7. CASE CheckStep
  <2>1. CASE CheckAsk
    <3>1. PICK ok \in BOOLEAN : ok <=> check.n \in up
      OBVIOUS
    <3>2. check' = [check EXCEPT !.at = "write", !.ok = ok]
      BY <2>1, <3>1 DEF CheckAsk
    <3>3. QED
      BY <2>1, <3>2 DEF CheckAsk, ClusterTypeOK
  <2>2. CASE CheckWrite
    BY <2>2, ClusterRowsTyped DEF CheckWrite, ClusterTypeOK, ClusterRows, NoCheck
  <2>3. QED
    BY <1>7, <2>1, <2>2 DEF CheckStep
<1>8. CASE UNCHANGED clusterVars
  BY <1>8 DEF clusterVars, ClusterTypeOK
<1>9. QED
  BY <1>3, <1>4, <1>5, <1>6, <1>7, <1>8 DEF ClusterNext

\* What the composition allows, each part allows.
LEMMA WorkersStep == [Next]_vars => [AnnounceNext]_announceVars /\ [ClusterNext]_clusterVars
BY DEF Next, vars, Announcing, Checking

\* The types of announcements, deliveries and cluster nodes hold in the composition of the
\* three, bounds included: no delivery is posted more than once in each attempt and once
\* more after a stall.  (webhook-delivery.processor.ts:51, cluster-health.service.ts:133)
THEOREM WorkersTyped == Spec => []TypeOK
<1> DEFINE Inv == NotifyInv /\ DeliveryInv /\ ClusterTypeOK
<1>1. Init => Inv
  BY InitInv, InitDelivery, ClusterInitTyped DEF Init, AnnounceInit
<1>2. Inv /\ [Next]_vars => Inv'
  BY WorkersStep, StepInv, DeliveryStep, ClusterStepTyped
<1>3. Inv => TypeOK
  BY DEF NotifyInv, DeliveryInv, TypeOK
<1>4. QED
  BY <1>1, <1>2, <1>3, PTL DEF Spec
=============================================================================
