------------------------------ MODULE WebhookDelivery ------------------------------
(***************************************************************************)
(* Webhooks: WebhooksService.emitEvent, which writes a WebhookDelivery row *)
(* and adds a job for every active subscription, and the processor of the  *)
(* webhook-delivery queue (concurrency 1, custom backoff), with receivers  *)
(* that accept, refuse or do not answer, writes that fail, and the death   *)
(* of the process.  Rows of a deleted subscription go with it.             *)
(***************************************************************************)
EXTENDS Naturals, FiniteSets

CONSTANTS
  Subs,         \* webhook subscriptions
  Deliveries,   \* ids of WebhookDelivery rows
  Attempts,     \* `attempts` of a job (5)
  MaxLosses,    \* bound: failed database writes in a behaviour
  MaxDeaths     \* bound: deaths of the process

ASSUME DeliveryAssumption ==
  /\ Attempts \in Nat \ {0} /\ {MaxLosses, MaxDeaths} \subseteq Nat
  /\ "none" \notin Subs \cup Deliveries

VARIABLES
  sub,          \* WebhookSubscription: active, disabled, deleted
  owner,        \* the subscription of a delivery
  delivery,     \* WebhookDelivery rows: present, attempts, completedAt, failedAt set
  job,          \* delivery jobs: state, attemptsMade, stalls
  emitting,     \* emitEvent: subscriptions left, the delivery just created
  poster,       \* the worker: place, delivery
  posts, oks,   \* history: POSTs and accepted POSTs of a delivery
  spoilt,       \* history: a write about the delivery failed, its row was deleted, or
                \* the process died while it was in work
  losses, deaths

deliveryVars == <<sub, owner, delivery, job, emitting, poster, posts, oks, spoilt, losses, deaths>>

NoRow == [present |-> FALSE, attempts |-> 0, completed |-> FALSE, failed |-> FALSE]
NoJob == [state |-> "none", made |-> 0, stalls |-> 0]
NotEmitting == [todo |-> {}, made |-> "none"]

DeliveryInit ==
  /\ sub \in [Subs -> {"active", "disabled", "deleted"}]
  /\ owner = [d \in Deliveries |-> "none"]
  /\ delivery = [d \in Deliveries |-> NoRow]
  /\ job = [d \in Deliveries |-> NoJob]
  /\ emitting = NotEmitting
  /\ poster = [at |-> "idle", d |-> "none"]
  /\ posts = [d \in Deliveries |-> 0] /\ oks = [d \in Deliveries |-> 0]
  /\ spoilt = {} /\ losses \in 0..MaxLosses /\ deaths \in 0..MaxDeaths

Unused == {d \in Deliveries : owner[d] = "none"}

(***************************************************************************)
(* emitEvent: the subscriptions are read once; each gets a row, then a job  *)
(* that carries the url it was read with.                                  *)
(***************************************************************************)
Subscribed == {s \in Subs : sub[s] = "active"}

EmitBegin ==
  /\ emitting = NotEmitting /\ Cardinality(Unused) >= Cardinality(Subscribed)
  /\ emitting' = [todo |-> Subscribed, made |-> "none"]
  /\ UNCHANGED <<sub, owner, delivery, job, poster, posts, oks, spoilt, losses, deaths>>

\* A subscription deleted since makes the create fail; the rest is not emitted.
EmitRow ==
  /\ emitting.made = "none"
  /\ \E s \in emitting.todo, d \in Unused :
       IF sub[s] = "deleted"
       THEN emitting' = NotEmitting /\ UNCHANGED <<owner, delivery>>
       ELSE /\ emitting' = [todo |-> emitting.todo \ {s}, made |-> d]
            /\ owner' = [owner EXCEPT ![d] = s]
            /\ delivery' = [delivery EXCEPT ![d].present = TRUE]
  /\ UNCHANGED <<sub, job, poster, posts, oks, spoilt, losses, deaths>>

EmitJob ==
  /\ emitting.made # "none"
  /\ job' = [job EXCEPT ![emitting.made].state = "waiting"]
  /\ emitting' = [emitting EXCEPT !.made = "none"]
  /\ UNCHANGED <<sub, owner, delivery, poster, posts, oks, spoilt, losses, deaths>>

EmitThrows ==
  /\ emitting # NotEmitting /\ losses < MaxLosses
  /\ losses' = losses + 1 /\ emitting' = NotEmitting
  /\ UNCHANGED <<sub, owner, delivery, job, poster, posts, oks, spoilt, deaths>>

(***************************************************************************)
(* The worker.                                                             *)
(***************************************************************************)
Deliver ==
  /\ poster.at = "idle"
  /\ \E d \in Deliveries :
       /\ job[d].state = "waiting"
       /\ job' = [job EXCEPT ![d].state = "active"]
       /\ poster' = [at |-> "post", d |-> d]
  /\ UNCHANGED <<sub, owner, delivery, emitting, posts, oks, spoilt, losses, deaths>>

\* The receiver accepts, refuses, or does not answer within 10 s.
Post(answer) ==
  /\ poster.at = "post"
  /\ posts' = [posts EXCEPT ![poster.d] = @ + 1]
  /\ oks' = [oks EXCEPT ![poster.d] = @ + (IF answer = "ok" THEN 1 ELSE 0)]
  /\ poster' = [poster EXCEPT !.at = answer]
  /\ UNCHANGED <<sub, owner, delivery, job, emitting, spoilt, losses, deaths>>

\* BullMQ after a throw: another attempt after the backoff, or the job is failed.
\* Mutant of Thrown: one attempt too many.
ThrownOnceMore(j) == [j EXCEPT !.made = @ + 1, !.state = IF j.made + 1 > Attempts THEN "failed" ELSE "waiting"]
Thrown(j) == [j EXCEPT !.made = @ + 1, !.state = IF j.made + 1 >= Attempts THEN "failed" ELSE "waiting"]

Written(d) == [delivery EXCEPT ![d].attempts = job[d].made + 1]
Idle == [at |-> "idle", d |-> "none"]

\* Mutant of RecordOk: the throw for a refused delivery is made for an accepted one.
RecordOkThrows ==
  /\ poster.at = "ok" /\ delivery[poster.d].present
  /\ delivery' = Written(poster.d)
  /\ poster' = [poster EXCEPT !.at = "catch"]
  /\ UNCHANGED <<sub, owner, job, emitting, posts, oks, spoilt, losses, deaths>>
RecordOk ==
  /\ poster.at = "ok" /\ delivery[poster.d].present  \* an update throws for a row that is gone
  /\ delivery' = [Written(poster.d) EXCEPT ![poster.d].completed = TRUE]
  /\ poster' = [poster EXCEPT !.at = "done"]
  /\ UNCHANGED <<sub, owner, job, emitting, posts, oks, spoilt, losses, deaths>>

RecordRefused ==
  /\ poster.at = "refused" /\ delivery[poster.d].present
  /\ delivery' = Written(poster.d)
  /\ poster' = [poster EXCEPT !.at = "catch"]
  /\ UNCHANGED <<sub, owner, job, emitting, posts, oks, spoilt, losses, deaths>>

\* Mutant of NoAnswer: the fetch is never aborted.
NoAnswerEver == FALSE /\ UNCHANGED deliveryVars
NoAnswer ==
  /\ poster.at = "timeout"
  /\ poster' = [poster EXCEPT !.at = "catch"]
  /\ UNCHANGED <<sub, owner, delivery, job, emitting, posts, oks, spoilt, losses, deaths>>

RecordThrows ==
  /\ poster.at \in {"ok", "refused"}
  /\ \/ ~delivery[poster.d].present /\ UNCHANGED losses
     \/ losses < MaxLosses /\ losses' = losses + 1
  /\ spoilt' = spoilt \cup {poster.d}
  /\ poster' = [poster EXCEPT !.at = "catch"]
  /\ UNCHANGED <<sub, owner, delivery, job, emitting, posts, oks, deaths>>

Completed ==
  /\ poster.at = "done"
  /\ job' = [job EXCEPT ![poster.d].state = "completed"]
  /\ poster' = Idle
  /\ UNCHANGED <<sub, owner, delivery, emitting, posts, oks, spoilt, losses, deaths>>

LastAttempt(j) == j.made + 1 >= Attempts

\* The catch block: its own update is swallowed when it fails.  Then the throw.
Catch ==
  LET d == poster.d
      told == [Written(d) EXCEPT ![d].failed = @ \/ LastAttempt(job[d])] IN
  /\ poster.at = "catch"
  /\ \/ /\ delivery' = IF delivery[d].present THEN told ELSE delivery
        /\ UNCHANGED <<losses, spoilt>>
     \/ /\ losses < MaxLosses /\ losses' = losses + 1
        /\ spoilt' = spoilt \cup {d}
        /\ UNCHANGED delivery
  /\ job' = [job EXCEPT ![d] = Thrown(@)]
  /\ poster' = Idle
  /\ UNCHANGED <<sub, owner, emitting, posts, oks, deaths>>

(***************************************************************************)
(* update and delete of a subscription; the death of the process, after    *)
(* which an active job stalls: it is given out again once, then failed.    *)
(***************************************************************************)
SwitchSub(s) ==
  /\ sub[s] # "deleted"
  /\ sub' = [sub EXCEPT ![s] = IF @ = "active" THEN "disabled" ELSE "active"]
  /\ UNCHANGED <<owner, delivery, job, emitting, poster, posts, oks, spoilt, losses, deaths>>

Delete(s) ==
  LET theirs == {d \in Deliveries : owner[d] = s} IN
  /\ sub[s] # "deleted"
  /\ sub' = [sub EXCEPT ![s] = "deleted"]
  /\ delivery' = [d \in Deliveries |-> IF d \in theirs THEN NoRow ELSE delivery[d]]
  /\ spoilt' = spoilt \cup theirs
  /\ UNCHANGED <<owner, job, emitting, poster, posts, oks, losses, deaths>>

Stalled(j) == [j EXCEPT !.stalls = @ + 1, !.state = IF j.stalls >= 1 THEN "failed" ELSE "waiting"]

DeliveryCrash ==
  /\ deaths < MaxDeaths /\ deaths' = deaths + 1
  /\ emitting' = NotEmitting
  /\ poster' = Idle
  /\ job' = [d \in Deliveries |-> IF job[d].state = "active" THEN Stalled(job[d]) ELSE job[d]]
  /\ spoilt' = spoilt \cup {d \in Deliveries : job[d].state = "active"}
  /\ UNCHANGED <<sub, owner, delivery, posts, oks, losses>>

EmitStep == EmitRow \/ EmitJob
PosterStep ==
  \/ Deliver \/ \E a \in {"ok", "refused", "timeout"} : Post(a)
  \/ RecordOk \/ RecordRefused \/ NoAnswer \/ RecordThrows \/ Completed \/ Catch

(***************************************************************************)
(* Properties.                                                             *)
(***************************************************************************)
DeliveryTypeOK ==
  /\ sub \in [Subs -> {"active", "disabled", "deleted"}]
  /\ owner \in [Deliveries -> Subs \cup {"none"}]
  /\ delivery \in [Deliveries -> [present : BOOLEAN, attempts : 0..Attempts,
                             completed : BOOLEAN, failed : BOOLEAN]]
  /\ job \in [Deliveries -> [state : {"none", "waiting", "active", "completed", "failed"},
                             made : 0..Attempts, stalls : 0..2]]
  /\ emitting \in [todo : SUBSET Subs, made : Deliveries \cup {"none"}]
  /\ poster \in [at : {"idle", "post", "ok", "refused", "timeout", "done", "catch"},
                 d : Deliveries \cup {"none"}]
  /\ posts \in [Deliveries -> 0..(Attempts + 1)] /\ oks \in [Deliveries -> 0..(Attempts + 1)]
  /\ spoilt \subseteq Deliveries /\ losses \in 0..MaxLosses /\ deaths \in 0..MaxDeaths

\* A receiver that accepted a delivery gets it a second time only when the
\* record of the first could not be written (failed write, deleted row) or
\* the process died with it.  (WebhookDeliveryProcessor.process)
OnceUnlessSpoilt == \A d \in Deliveries : oks[d] > 1 => d \in spoilt

\* What the row of an unspoilt delivery says of its end is what became of
\* the job, and never both.  (webhook-delivery.processor.ts:70, :90)
RowTellsEnd ==
  \A d \in Deliveries \ spoilt :
    /\ job[d].state = "completed" => delivery[d].completed /\ ~delivery[d].failed
    /\ job[d].state = "failed" =>
         delivery[d].failed /\ ~delivery[d].completed /\ delivery[d].attempts = Attempts

\* Accepted once and its row telling how it ended, unless a write about it failed or the
\* process died with it.  (webhook-delivery.processor.ts:51)
DeliverySound == OnceUnlessSpoilt /\ RowTellsEnd

\* A delivery that was queued is accepted or given up, whatever the receiver
\* does, and however often writes fail or the process dies.
DeliveriesEnd ==
  \A d \in Deliveries :
    job[d].state # "none" ~> job[d].state \in {"completed", "failed"}
=============================================================================
