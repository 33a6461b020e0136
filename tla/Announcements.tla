------------------------------ MODULE Announcements ------------------------------
(***************************************************************************)
(* StatusNotify and WebhookDelivery composed: the dispatcher's emit step   *)
(* begins an emitEvent and waits for it; both die with the process.  Two   *)
(* kinds of behaviours, as their product is out of reach: overlapping      *)
(* calls with no subscription to emit to, or a notice that waits, and all  *)
(* that may happen to what it emits.                                       *)
(***************************************************************************)
EXTENDS StatusNotify, WebhookDelivery

announceVars == <<notifyVars, deliveryVars>>

Overlap ==
  /\ told /\ writes = 0 /\ toggles = 0 /\ crashes = 0 /\ losses = 0 /\ deaths = 0
  /\ \A s \in Subs : sub[s] = "deleted"

Emission ==
  /\ ~told /\ writes = MaxWrites /\ toggles = MaxToggles /\ losses = 0 /\ crashes = 0 /\ deaths = 0
  /\ \A s \in Subs : sub[s] = "active"

AnnounceInit == NotifyInit /\ DeliveryInit /\ (Overlap \/ Emission)

Apart(A) == A /\ UNCHANGED deliveryVars

AnnounceNext ==
  \/ \E c \in Transitions : Apart(CallStep(c)) \/ Apart(TransitionThrows(c))
  \/ Apart(NoticeDue) \/ Apart(NoticeChecked) \/ Apart(NoticeCheckThrows)
  \/ NoticeEmit /\ EmitBegin
  \/ emitting = NotEmitting /\ Apart(NoticeBell)
  \/ Apart(Maintenance)
  \/ EmitStep /\ UNCHANGED notifyVars
  \/ EmitThrows /\ UNCHANGED notifyVars
  \/ PosterStep /\ UNCHANGED notifyVars
  \/ \E s \in Subs : (SwitchSub(s) \/ Delete(s)) /\ UNCHANGED notifyVars
  \/ NotifyCrash /\ DeliveryCrash

\* The queue's workers take what is due, and a fetch ends within its timeout.
AnnounceFairness ==
  /\ WF_announceVars(EmitStep /\ UNCHANGED notifyVars)
  /\ WF_announceVars(PosterStep /\ UNCHANGED notifyVars)

AnnounceSpec == AnnounceInit /\ [][AnnounceNext]_announceVars /\ AnnounceFairness
=============================================================================
