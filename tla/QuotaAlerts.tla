------------------------------ MODULE QuotaAlerts ------------------------------
(***************************************************************************)
(* RecordingsService.checkAndAlertStorageQuota of one organisation whose   *)
(* storage is at 80 per cent or more, which each archived segment calls    *)
(* and nobody waits for: it looks for an alert of the last hour, and makes *)
(* a notification for each owner and admin, one after the other.           *)
(***************************************************************************)
EXTENDS Naturals, FiniteSets

CONSTANTS
  Owners,   \* members whose role is owner or admin
  Alarms,   \* calls at the same time
  LastTime, \* bound: the times of a behaviour
  Hour      \* an hour, in these

ASSUME AlertAssumption == LastTime \in Nat /\ Hour \in Nat

Hours == 0..LastTime

VARIABLES
  clock,
  alerts,  \* Notification rows: whose and from when
  alarm,   \* calls: place, owners to tell, excused (history: see AlertsSpaced)
  told,    \* history: alerts made
  wiped    \* history: those that their owners have deleted

alertVars == <<clock, alerts, alarm, told, wiped>>

NoAlarm == [at |-> "idle", todo |-> {}, excused |-> FALSE]

AlertInit ==
  /\ clock = 0 /\ alerts = {} /\ told = {} /\ wiped = {}
  /\ alarm = [k \in Alarms |-> NoAlarm]

OfLastHour(rows) == {r \in rows : clock - r.when <= Hour}

\* Mutant of SentRecently: it looks for an alert of one's own.
SentToAll(rows) == \A o \in Owners : \E r \in OfLastHour(rows) : r.to = o

SentRecently(rows) == OfLastHour(rows) # {}

\* A call that has looked may be overtaken by those that have looked, too.
AlarmLooks(k) ==
  /\ alarm[k].at = "idle" /\ ~SentRecently(alerts)
  /\ LET others == {j \in Alarms \ {k} : alarm[j].at # "idle"} IN
     alarm' = [j \in Alarms |->
       IF j = k THEN [at |-> "members", todo |-> {}, excused |-> others # {} \/ OfLastHour(wiped) # {}]
       ELSE IF j \in others THEN [alarm[j] EXCEPT !.excused = TRUE] ELSE alarm[j]]
  /\ UNCHANGED <<clock, alerts, told, wiped>>

AlarmReads(k) ==
  /\ alarm[k].at = "members" /\ alarm' = [alarm EXCEPT ![k].at = "tell", ![k].todo = Owners]
  /\ UNCHANGED <<clock, alerts, told, wiped>>

Tell(k, o) ==
  LET row == [to |-> o, when |-> clock] IN
  /\ alarm[k].at = "tell" /\ o \in alarm[k].todo
  /\ alerts' = alerts \cup {row} /\ told' = told \cup {row} /\ wiped' = wiped \ {row}
  /\ alarm' = [alarm EXCEPT ![k] =
       IF alarm[k].todo = {o} THEN NoAlarm ELSE [alarm[k] EXCEPT !.todo = @ \ {o}]]
  /\ UNCHANGED clock

\* A look-up or a create fails, or the process ends: the others are not told.
AlarmDies(k) ==
  /\ alarm[k].at # "idle" /\ alarm' = [alarm EXCEPT ![k] = NoAlarm]
  /\ UNCHANGED <<clock, alerts, told, wiped>>

\* clearAll of one owner.
ClearAll(o) ==
  LET his == {r \in alerts : r.to = o} IN
  /\ his # {} /\ alerts' = alerts \ his /\ wiped' = wiped \cup his
  /\ UNCHANGED <<clock, alarm, told>>

HourGoesOn ==
  /\ clock < LastTime /\ clock' = clock + 1
  /\ UNCHANGED <<alerts, alarm, told, wiped>>

AlertNext ==
  \/ \E k \in Alarms : AlarmLooks(k) \/ AlarmReads(k) \/ AlarmDies(k)
  \/ \E k \in Alarms, o \in Owners : Tell(k, o)
  \/ \E o \in Owners : ClearAll(o)
  \/ HourGoesOn

AlertSpec == AlertInit /\ [][AlertNext]_alertVars

(***************************************************************************)
(* Properties.                                                             *)
(***************************************************************************)
AlertTypeOK ==
  LET rows == [to : Owners, when : Hours] IN
  /\ clock \in Hours /\ alerts \subseteq rows /\ wiped \subseteq told /\ told \subseteq rows
  /\ alarm \in [Alarms -> [at : {"idle", "members", "tell"}, todo : SUBSET Owners, excused : BOOLEAN]]

\* Whoever was told within the last hour is told again only by a call that another one
\* overlapped, or that looked when every alert of that hour had been deleted.
\* (RecordingsService.checkAndAlertStorageQuota, recordings.service.ts:37)
AlertsSpaced ==
  [][\A k \in Alarms, o \in Owners :
       Tell(k, o) /\ (\E r \in OfLastHour(told) : r.to = o) => alarm[k].excused]_alertVars
=============================================================================
