------------------------------ MODULE ApiKeyUsage ------------------------------
(***************************************************************************)
(* Requests made with API keys: counted in Redis per key and day, moved to *)
(* the database by a job once a day (ApiKeysService.aggregateDaily), and   *)
(* lost from Redis three days later.                                       *)
(***************************************************************************)
EXTENDS Naturals, FiniteSets, Optional

CONSTANTS
  ApiKeys,      \* keys
  LastDay,      \* bound: the day on which time ends
  MaxRequests,  \* bound: requests
  MaxAborts     \* bound: runs of the job that die or meet a failing call

ASSUME UsageAssumption == {LastDay, MaxRequests, MaxAborts} \subseteq Nat

Days == 0..LastDay
Entries == ApiKeys \X Days
EXPIRE_DAYS == 3

VARIABLES
  keys,      \* ApiKey rows
  counter,   \* Redis: requests of a key on a day
  usage,     \* ApiKeyUsage rows
  today, ranToday,
  run,       \* aggregateDaily: place, entries left, entry in hand, number read
  aborts,
  made,      \* history: requests
  raced,     \* history: entries counted up between the read and the deletion
  again,     \* history: entries added to the database and not deleted from Redis
  lapsed,    \* history: entries that expired with something in them
  failedDays  \* history: days on which the job did not come to its end

usageVars == <<keys, counter, usage, today, ranToday, run, aborts, made, raced, again, lapsed, failedDays>>
usagePast == <<made, raced, again, lapsed, failedDays>>

NoRun == [at |-> "idle", left |-> {}, e |-> None, n |-> 0]
NoCounts == [e \in Entries |-> 0]

UsageInit ==
  /\ keys = ApiKeys /\ counter = NoCounts /\ usage = NoCounts
  /\ today = 0 /\ ranToday = TRUE /\ run = NoRun /\ aborts = 0
  /\ made = NoCounts /\ raced = {} /\ again = {} /\ lapsed = {} /\ failedDays = {}

Requests == {r \in Entries \X (1..MaxRequests) : r[2] <= made[r[1]]}

\* recordUsage.
Record(k) ==
  LET e == <<k, today>> IN
  /\ k \in keys /\ Cardinality(Requests) < MaxRequests
  /\ counter' = [counter EXCEPT ![e] = @ + 1] /\ made' = [made EXCEPT ![e] = @ + 1]
  /\ raced' = IF run.at \in {"upsert", "del"} /\ run.e = e THEN raced \cup {e} ELSE raced
  /\ UNCHANGED <<keys, usage, today, ranToday, run, aborts, again, lapsed, failedDays>>

\* delete: the usage rows go with the key, the counters stay.
DeleteKey(k) ==
  /\ k \in keys /\ keys' = keys \ {k}
  /\ usage' = [e \in Entries |-> IF e[1] = k THEN 0 ELSE usage[e]]
  /\ UNCHANGED <<counter, today, ranToday, run, aborts>> /\ UNCHANGED usagePast

\* The day's job runs before the day ends.
NextDay ==
  /\ today < LastDay /\ ranToday /\ run.at = "idle"
  /\ today' = today + 1 /\ ranToday' = FALSE
  /\ UNCHANGED <<keys, counter, usage, run, aborts>> /\ UNCHANGED usagePast

CounterExpires(e) ==
  /\ today >= e[2] + EXPIRE_DAYS /\ counter[e] > 0
  /\ counter' = [counter EXCEPT ![e] = 0] /\ lapsed' = lapsed \cup {e}
  /\ UNCHANGED <<keys, usage, today, ranToday, run, aborts, made, raced, again, failedDays>>

(***************************************************************************)
(* aggregateDaily.                                                         *)
(***************************************************************************)
RunKeys ==
  /\ ~ranToday /\ ranToday' = TRUE
  /\ run' = [NoRun EXCEPT !.at = "next", !.left = {e \in Entries : counter[e] > 0}]
  /\ UNCHANGED <<keys, counter, usage, today, aborts>> /\ UNCHANGED usagePast

RunGet ==
  /\ run.at = "next" /\ run.left # {}
  /\ \E e \in run.left : run' = [at |-> "upsert", left |-> run.left \ {e}, e |-> e, n |-> counter[e]]
  /\ UNCHANGED <<keys, counter, usage, today, ranToday, aborts>> /\ UNCHANGED usagePast

Stop(abort) ==
  /\ run' = NoRun /\ failedDays' = failedDays \cup {today}
  /\ IF abort THEN aborts < MaxAborts /\ aborts' = aborts + 1 ELSE UNCHANGED aborts

\* The row of a key that is gone is refused, and the run ends there.
RunUpsert ==
  /\ run.at = "upsert"
  /\ IF run.e[1] \in keys
     THEN /\ usage' = [usage EXCEPT ![run.e] = @ + run.n] /\ run' = [run EXCEPT !.at = "del"]
          /\ UNCHANGED <<failedDays, aborts>>
     ELSE Stop(FALSE) /\ UNCHANGED usage
  /\ UNCHANGED <<keys, counter, today, ranToday, made, raced, again, lapsed>>

\* Mutant of Emptied: the counters are not deleted.
Kept == counter
Emptied == [counter EXCEPT ![run.e] = 0]

RunDel ==
  /\ run.at = "del" /\ counter' = Emptied /\ run' = [run EXCEPT !.at = "next", !.e = None, !.n = 0]
  /\ UNCHANGED <<keys, usage, today, ranToday, aborts>> /\ UNCHANGED usagePast

RunEnd ==
  /\ run.at = "next" /\ run.left = {} /\ run' = NoRun
  /\ UNCHANGED <<keys, counter, usage, today, ranToday, aborts>> /\ UNCHANGED usagePast

\* The process dies, or a call to Redis or the database fails.
RunAbort ==
  /\ run.at # "idle" /\ Stop(TRUE)
  /\ again' = IF run.at = "del" THEN again \cup {run.e} ELSE again
  /\ UNCHANGED <<keys, counter, usage, today, ranToday, made, raced, lapsed>>

UsageNext ==
  \/ \E k \in ApiKeys : Record(k) \/ DeleteKey(k)
  \/ \E e \in Entries : CounterExpires(e)
  \/ NextDay \/ RunKeys \/ RunGet \/ RunUpsert \/ RunDel \/ RunEnd \/ RunAbort

UsageSpec == UsageInit /\ [][UsageNext]_usageVars

(***************************************************************************)
(* Properties.                                                             *)
(***************************************************************************)
UsageTypeOK ==
  /\ keys \subseteq ApiKeys /\ today \in Days /\ ranToday \in BOOLEAN
  /\ {counter, usage, made} \subseteq [Entries -> Nat]
  /\ run \in [at : {"idle", "next", "upsert", "del"}, left : SUBSET Entries,
              e : Entries \cup {None}, n : Nat]
  /\ aborts \in 0..MaxAborts /\ failedDays \subseteq Days
  /\ raced \cup again \cup lapsed \subseteq Entries

\* Every request of a key is counted once, in Redis or in the database: more
\* only if a run died between the two, less only if a request came between a
\* run's read and its deletion, or the counter expired; and it expires only when
\* the job failed on both days in between.
\* (ApiKeysService.aggregateDaily, api-keys.service.ts:180)
UsageExplained ==
  \A e \in Entries : e[1] \in keys =>
    /\ (run.at # "del" \/ run.e # e) =>
         /\ usage[e] + counter[e] > made[e] => e \in again
         /\ usage[e] + counter[e] < made[e] => e \in raced \cup lapsed
    /\ e \in lapsed => e[2] + 1 \in failedDays /\ e[2] + 2 \in failedDays
=============================================================================
