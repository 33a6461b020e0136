------------------------- MODULE Recordings_proofs -------------------------
(***************************************************************************)
(* Proofs about recording: the archive and the starts (Recordings,         *)
(* RecordingStarts), the quota alerts (QuotaAlerts) and the schedules      *)
(* (RecordingSchedules), for any sets of cameras, recordings, segments,    *)
(* callers, callbacks, alerts and schedules, and any quota.                *)
(***************************************************************************)
EXTENDS RecordingStarts, QuotaAlerts, RecordingSchedules, FiniteSetTheorems, TLAPS

(***************************************************************************)
(* Recordings. A step is one of time, of a caller, of an on_hls callback,  *)
(* or of retention. Callers and retention only take away (Removal), and    *)
(* only what they have on their list; callbacks only add, and only what    *)
(* nobody has on a list.                                                   *)
(***************************************************************************)
CallersMove ==
  \/ \E k \in Callers, c \in Cameras : Request(k, c) \/ ScheduleCheck(k, c)
  \/ \E k \in Callers, r \in Recs : DeleteRead(k, r)
  \/ \E k \in Callers : CallerStep(k) \/ CallerThrows(k)

HooksMove ==
  \/ \E h \in Hooks, c \in Cameras, s \in Segments : HookRead(h, c, s)
  \/ \E h \in Hooks : HookStep(h) \/ HookThrows(h)

RetentionMoves == RetentionStep \/ RetentionThrows

Removal ==
  /\ UNCHANGED <<hookVars, old, taken>>
  /\ asked \subseteq asked'
  /\ \A s \in Segments : row'[s] \in {None, row[s]}
  /\ objects' \subseteq objects
  /\ \/ objects \ objects' \subseteq expired
     \/ \E k \in Callers : objects \ objects' \subseteq clist[k]

\* Every step is one of the four.
LEMMA NextSplits ==
  ASSUME Next
  PROVE  (\E s \in Segments : Age(s)) \/ CallersMove \/ HooksMove \/ RetentionMoves
BY DEF Next, CallersMove, HooksMove, RetentionMoves

-----------------------------------------------------------------------------
(* Types *)

\* A caller leaves the types in order.
LEMMA CallerTypes ==
  ASSUME TypeOK, CallersMove
  PROVE  TypeOK'
<1> USE RecordingsAssumption DEF TypeOK, recVars, segVars, callVars, hookVars, retVars
<1>1. ASSUME NEW k \in Callers, NEW c \in Cameras, Request(k, c) PROVE TypeOK'
  BY <1>1 DEF Request, Call, CallerPc
<1>2. ASSUME NEW k \in Callers, NEW c \in Cameras, ScheduleCheck(k, c) PROVE TypeOK'
  BY <1>2 DEF ScheduleCheck, Call, CallerPc
<1>3. ASSUME NEW k \in Callers, NEW r \in Recs, DeleteRead(k, r) PROVE TypeOK'
  BY <1>3 DEF DeleteRead, Call, RowsOf, CallerPc
<1>4. ASSUME NEW k \in Callers, StartRead(k) PROVE TypeOK'
  BY <1>4 DEF StartRead, Call, Return, CallerPc
<1>5. ASSUME NEW k \in Callers, StartQuota(k) PROVE TypeOK'
  BY <1>5 DEF StartQuota, Call, Return, CallerPc
<1>6. ASSUME NEW k \in Callers, NEW r \in Recs, StartCreate(k, r) PROVE TypeOK'
  BY <1>6 DEF StartCreate, Call, CallerPc
<1>7. ASSUME NEW k \in Callers, StartFlag(k) PROVE TypeOK'
  BY <1>7 DEF StartFlag, Call, Return, CallerPc
<1>8. ASSUME NEW k \in Callers, StopRead(k) PROVE TypeOK'
  BY <1>8 DEF StopRead, Call, Return, Active, CallerPc
<1>9. ASSUME NEW k \in Callers, StopRow(k) PROVE TypeOK'
  BY <1>9 DEF StopRow, Call, Return, CallerPc
<1>10. ASSUME NEW k \in Callers, StopFlag(k) PROVE TypeOK'
  BY <1>10 DEF StopFlag, Call, Return, CallerPc
<1>11. ASSUME NEW k \in Callers, DeleteObjects(k) PROVE TypeOK'
  BY <1>11 DEF DeleteObjects, Remove, Call, CallerPc
<1>12. ASSUME NEW k \in Callers, DeleteRow(k) PROVE TypeOK'
  BY <1>12 DEF DeleteRow, Drop, Call, Return, CallerPc
<1>13. ASSUME NEW k \in Callers, CallerThrows(k) PROVE TypeOK'
  BY <1>13 DEF CallerThrows, Remove, Call, Return, CallerPc
<1> QED
  BY <1>1, <1>2, <1>3, <1>4, <1>5, <1>6, <1>7, <1>8, <1>9, <1>10, <1>11, <1>12, <1>13
  DEF CallersMove, CallerStep

\* So does a callback,
LEMMA HookTypes ==
  ASSUME TypeOK, HooksApart, HooksMove
  PROVE  TypeOK'
<1> USE RecordingsAssumption DEF TypeOK, recVars, segVars, callVars, hookVars, retVars
<1>1. ASSUME NEW h \in Hooks, NEW c \in Cameras, NEW s \in Segments, HookRead(h, c, s)
      PROVE  TypeOK'
  BY <1>1 DEF HookRead, Hook, Active, HookPc
<1>2. ASSUME NEW h \in Hooks, HookQuota(h) PROVE TypeOK'
  BY <1>2 DEF HookQuota, Hook, HookReturn, HookPc
<1>3. ASSUME NEW h \in Hooks, HookUpload(h) PROVE TypeOK'
  BY <1>3 DEF HookUpload, Hook, HookPc, HooksApart
<1>4. ASSUME NEW h \in Hooks, HookRow(h) PROVE TypeOK'
  BY <1>4 DEF HookRow, Hook, HookReturn, HookPc
<1>5. ASSUME NEW h \in Hooks, HookTotal(h) PROVE TypeOK'
  BY <1>5 DEF HookTotal, Hook, HookReturn, HookPc, HooksApart
<1>6. ASSUME NEW h \in Hooks, HookThrows(h) PROVE TypeOK'
  BY <1>6 DEF HookThrows, Hook, HookReturn, HookPc
<1> QED
  BY <1>1, <1>2, <1>3, <1>4, <1>5, <1>6 DEF HooksMove, HookStep

\* and retention.
LEMMA RetentionTypes ==
  ASSUME TypeOK, RetentionMoves
  PROVE  TypeOK'
<1> USE RecordingsAssumption
    DEF TypeOK, recVars, segVars, callVars, hookVars, retVars, Retention, RetentionPc
<1>1. CASE RetentionRun
  BY <1>1 DEF RetentionRun, Rows, CameraOf
<1>2. ASSUME NEW c \in Cameras, RetentionFind(c) PROVE TypeOK'
  BY <1>2 DEF RetentionFind, Expired, Rows
<1>3. CASE RetentionObjects
  BY <1>3 DEF RetentionObjects, Remove
<1>4. CASE RetentionSkips
  BY <1>4 DEF RetentionSkips, Remove, NextCamera
<1>5. CASE RetentionRows
  BY <1>5 DEF RetentionRows
<1>6. ASSUME NEW r \in Recs, RetentionCount(r) PROVE TypeOK'
  BY <1>6 DEF RetentionCount, RowsOf
<1>7. CASE RetentionApply
  <2>1. Cardinality(left) \in Nat
    BY FS_Subset, FS_CardinalityType
  <2> QED
    BY <1>7, <2>1 DEF RetentionApply, Drop, NextCamera
<1>8. CASE RetentionThrows
  BY <1>8 DEF RetentionThrows
<1> QED
  BY <1>1, <1>2, <1>3, <1>4, <1>5, <1>6, <1>7, <1>8 DEF RetentionMoves, RetentionStep

\* Time leaves them in order.
LEMMA AgeTypes ==
  ASSUME TypeOK, NEW s \in Segments, Age(s)
  PROVE  TypeOK'
BY DEF TypeOK, Age, Rows, recVars, callVars, hookVars, retVars

-----------------------------------------------------------------------------
(* What callers and retention may do to the rest *)

\* A caller only takes away, objects of its own list.
LEMMA CallersRemove ==
  ASSUME TypeOK, CallersMove
  PROVE  Removal
<1> USE DEF TypeOK, segVars, hookVars, Removal
<1>1. ASSUME NEW k \in Callers, NEW c \in Cameras, Request(k, c) \/ ScheduleCheck(k, c)
      PROVE  Removal
  BY <1>1 DEF Request, ScheduleCheck
<1>2. ASSUME NEW k \in Callers, NEW r \in Recs, DeleteRead(k, r) \/ StartCreate(k, r)
      PROVE  Removal
  BY <1>2 DEF DeleteRead, StartCreate
<1>3. ASSUME NEW k \in Callers, StartRead(k) \/ StartQuota(k) \/ StartFlag(k) PROVE Removal
  BY <1>3 DEF StartRead, StartQuota, StartFlag
<1>4. ASSUME NEW k \in Callers, StopRead(k) \/ StopRow(k) \/ StopFlag(k) PROVE Removal
  BY <1>4 DEF StopRead, StopRow, StopFlag
<1>5. ASSUME NEW k \in Callers, DeleteObjects(k) \/ CallerThrows(k) PROVE Removal
  BY <1>5 DEF DeleteObjects, CallerThrows, Remove
<1>6. ASSUME NEW k \in Callers, DeleteRow(k) PROVE Removal
  BY <1>6 DEF DeleteRow, Drop
<1> QED
  BY <1>1, <1>2, <1>3, <1>4, <1>5, <1>6 DEF CallersMove, CallerStep

\* Retention only takes away, objects it has found expired.
LEMMA RetentionRemoves ==
  ASSUME TypeOK, RetentionMoves
  PROVE  Removal /\ UNCHANGED <<callVars, asked>>
<1> USE DEF TypeOK, segVars, hookVars, Removal
<1>1. CASE RetentionRun \/ RetentionThrows
  BY <1>1 DEF RetentionRun, RetentionThrows
<1>2. ASSUME NEW c \in Cameras, RetentionFind(c) PROVE Removal /\ UNCHANGED <<callVars, asked>>
  BY <1>2 DEF RetentionFind
<1>3. CASE RetentionObjects \/ RetentionSkips
  BY <1>3 DEF RetentionObjects, RetentionSkips, Remove
<1>4. CASE RetentionRows
  BY <1>4 DEF RetentionRows
<1>5. ASSUME NEW r \in Recs, RetentionCount(r) PROVE Removal /\ UNCHANGED <<callVars, asked>>
  BY <1>5 DEF RetentionCount
<1>6. CASE RetentionApply
  BY <1>6 DEF RetentionApply, Drop
<1> QED
  BY <1>1, <1>2, <1>3, <1>4, <1>5, <1>6 DEF RetentionMoves, RetentionStep

-----------------------------------------------------------------------------
(* The quota *)

\* Nothing is added to what is stored or about to be.
LEMMA QuotaShrinks ==
  ASSUME TypeOK, QuotaNearlyKept, Rows' \subseteq Rows, Uploading' \subseteq Uploading
  PROVE  QuotaNearlyKept'
<1>1. /\ IsFiniteSet(Rows) /\ Cardinality(Rows) \in Nat
      /\ IsFiniteSet(Uploading) /\ Cardinality(Uploading) \in Nat
      /\ Cardinality(Hooks) \in Nat
  BY RecordingsAssumption, FS_Subset, FS_CardinalityType DEF Rows, Uploading
<1>2. /\ Cardinality(Rows') <= Cardinality(Rows) /\ Cardinality(Rows') \in Nat
      /\ Cardinality(Uploading') <= Cardinality(Uploading) /\ Cardinality(Uploading') \in Nat
  BY <1>1, FS_Subset, FS_CardinalityType
<1> QED
  BY <1>1, <1>2, RecordingsAssumption DEF QuotaNearlyKept

\* A callback that finds room is one of those the quota may be passed by.
LEMMA QuotaAdmits ==
  ASSUME TypeOK, NEW h \in Hooks, HookQuota(h), Allowed
  PROVE  QuotaNearlyKept'
<1>1. /\ Cardinality(Rows) \in Nat /\ Cardinality(Hooks) \in Nat
      /\ Cardinality(Uploading') \in Nat /\ Cardinality(Uploading') <= Cardinality(Hooks)
  BY RecordingsAssumption, FS_Subset, FS_CardinalityType DEF Rows, Uploading
<1>2. Rows' = Rows
  BY DEF HookQuota, Rows, segVars
<1>3. Limit > 0 => Cardinality(Rows) < Limit
  BY <1>1, RecordingsAssumption DEF Allowed
<1> QED
  BY <1>1, <1>2, <1>3, RecordingsAssumption DEF QuotaNearlyKept

\* The row takes the place of the upload.
LEMMA QuotaMoves ==
  ASSUME TypeOK, QuotaNearlyKept, HooksApart, NEW h \in Hooks, HookRow(h), Exists(hrec[h])
  PROVE  QuotaNearlyKept'
<1>1. hpc[h] = "row" /\ hseg[h] \in Segments /\ hrec[h] # None /\ row[hseg[h]] = None
  BY RecordingsAssumption DEF HookRow, HooksApart, Archiving
<1>2. Rows' = Rows \cup {hseg[h]} /\ hseg[h] \notin Rows
  BY <1>1 DEF HookRow, Rows, TypeOK
<1>3. Uploading' = Uploading \ {h} /\ h \in Uploading
  BY <1>1 DEF HookRow, Hook, Uploading, TypeOK
<1>4. /\ IsFiniteSet(Rows) /\ Cardinality(Rows) \in Nat
      /\ IsFiniteSet(Uploading) /\ Cardinality(Uploading) \in Nat
      /\ Cardinality(Hooks) \in Nat
  BY RecordingsAssumption, FS_Subset, FS_CardinalityType DEF Rows, Uploading
<1>5. Cardinality(Rows') = Cardinality(Rows) + 1
  BY <1>2, <1>4, FS_AddElement
<1>6. Cardinality(Uploading') = Cardinality(Uploading) - 1
  BY <1>3, <1>4, FS_RemoveElement
<1> QED
  BY <1>4, <1>5, <1>6, RecordingsAssumption DEF QuotaNearlyKept

LEMMA QuotaPreserved ==
  ASSUME TypeOK, QuotaNearlyKept, HooksApart, Next
  PROVE  QuotaNearlyKept'
<1>1. CASE \E s \in Segments : Age(s)
  <2>1. Rows' = Rows /\ Uploading' = Uploading
    BY <1>1 DEF Age, Rows, Uploading, hookVars
  <2> QED
    BY <2>1, QuotaShrinks
<1>2. CASE CallersMove \/ RetentionMoves
  <2>1. Removal
    BY <1>2, CallersRemove, RetentionRemoves
  <2>2. Rows' \subseteq Rows /\ Uploading' = Uploading
    BY <2>1, RecordingsAssumption DEF Removal, Rows, Uploading, hookVars
  <2> QED
    BY <2>2, QuotaShrinks
<1>3. ASSUME NEW h \in Hooks, NEW c \in Cameras, NEW s \in Segments, HookRead(h, c, s)
      PROVE  QuotaNearlyKept'
  <2>1. Rows' = Rows /\ Uploading' \subseteq Uploading
    BY <1>3 DEF HookRead, Hook, Rows, Uploading, TypeOK
  <2> QED
    BY <2>1, QuotaShrinks
<1>4. ASSUME NEW h \in Hooks, HookStep(h) \/ HookThrows(h)
      PROVE  QuotaNearlyKept'
  <2>1. CASE HookQuota(h) /\ Allowed
    BY <2>1, QuotaAdmits
  <2>2. CASE HookRow(h) /\ Exists(hrec[h])
    BY <2>2, QuotaMoves
  <2>3. CASE \/ HookQuota(h) /\ ~Allowed
             \/ HookRow(h) /\ ~Exists(hrec[h])
             \/ HookUpload(h) \/ HookTotal(h) \/ HookThrows(h)
    <3>1. Rows' = Rows /\ Uploading' \subseteq Uploading
      BY <2>3 DEF HookQuota, HookRow, HookUpload, HookTotal, HookThrows, Hook, HookReturn,
                  Rows, Uploading, TypeOK, segVars
    <3> QED
      BY <3>1, QuotaShrinks
  <2> QED
    BY <1>4, <2>1, <2>2, <2>3 DEF HookStep
<1> QED
  BY <1>1, <1>2, <1>3, <1>4, NextSplits DEF HooksMove

-----------------------------------------------------------------------------
(* Who may touch what *)

\* Retention lists nothing that is not old.
LEMMA RetentionApartPreserved ==
  ASSUME TypeOK, RetentionApart, Next
  PROVE  RetentionApart'
<1> USE DEF RetentionApart
<1>1. CASE (\E s \in Segments : Age(s)) \/ CallersMove \/ HooksMove
  <2>1. UNCHANGED expired
    BY <1>1 DEF Age, CallersMove, CallerStep, CallerThrows, Request, ScheduleCheck, DeleteRead,
                StartRead, StartQuota, StartCreate, StartFlag, StopRead, StopRow, StopFlag,
                DeleteObjects, DeleteRow, HooksMove, HookStep, HookRead, HookQuota, HookUpload,
                HookRow, HookTotal, HookThrows, retVars
  <2>2. old \subseteq old'
    <3>1. CASE \E s \in Segments : Age(s)
      BY <3>1 DEF Age
    <3>2. CASE CallersMove
      BY <3>2, CallersRemove DEF Removal
    <3>3. CASE HooksMove
      BY <3>3 DEF HooksMove, HookStep, HookRead, HookQuota, HookUpload, HookRow, HookTotal,
                  HookThrows, segVars
    <3> QED
      BY <1>1, <3>1, <3>2, <3>3
  <2> QED
    BY <2>1, <2>2
<1>2. CASE RetentionMoves
  <2>1. old' = old
    BY <1>2, RetentionRemoves DEF Removal
  <2>2. expired' \subseteq expired \/ expired' \subseteq old
    BY <1>2 DEF RetentionMoves, RetentionStep, RetentionRun, RetentionFind, RetentionObjects,
                RetentionSkips, RetentionRows, RetentionCount, RetentionApply, RetentionThrows,
                NextCamera, Retention, Expired
  <2> QED
    BY <2>1, <2>2
<1> QED
  BY <1>1, <1>2, NextSplits

\* What is taken away is nothing a callback is archiving.
LEMMA RemovalSparesHooks ==
  ASSUME TypeOK, HooksApart, DeletionsApart, RetentionApart, Removal,
         NEW h \in Hooks, NEW s \in Segments, Archiving(h, s), s \in objects
  PROVE  s \in objects'
<1>1. CASE objects \ objects' \subseteq expired
  BY <1>1 DEF HooksApart, RetentionApart
<1>2. ASSUME NEW k \in Callers, objects \ objects' \subseteq clist[k]
      PROVE  s \in objects'
  BY <1>2 DEF DeletionsApart
<1> QED
  BY <1>1, <1>2 DEF Removal

LEMMA HooksApartPreserved ==
  ASSUME TypeOK, HooksApart, DeletionsApart, RetentionApart, Next
  PROVE  HooksApart'
<1> USE RecordingsAssumption DEF TypeOK
<1>1. ASSUME NEW s \in Segments, Age(s) PROVE HooksApart'
  BY <1>1 DEF Age, HooksApart, Archiving, Rows, hookVars
<1>2. CASE CallersMove \/ RetentionMoves
  <2>1. Removal
    BY <1>2, CallersRemove, RetentionRemoves
  <2>2. UNCHANGED <<hpc, hrec, hseg, old, taken>> /\ Rows' \subseteq Rows
    BY <2>1 DEF Removal, Rows, hookVars
  <2>3. \A h \in Hooks, s \in Segments : Archiving(h, s)' <=> Archiving(h, s)
    BY <2>2 DEF Archiving
  <2>4. \A h \in Hooks : \A s \in Segments : Archiving(h, s) => row'[s] = None
    BY <2>1 DEF Removal, HooksApart
  <2>5. \A h \in Hooks : hpc[h] = "row" => hseg[h] \in objects'
    BY <2>1, RemovalSparesHooks DEF HooksApart, Archiving
  <2> QED
    BY <2>2, <2>3, <2>4, <2>5 DEF HooksApart
<1>3. ASSUME NEW h \in Hooks, NEW c \in Cameras, NEW s \in Segments, HookRead(h, c, s)
      PROVE  HooksApart'
  <2>1. /\ s \notin taken /\ taken' = taken \cup {s} /\ UNCHANGED <<row, old, objects>>
        /\ hpc' = [hpc EXCEPT ![h] = "quota"] /\ hseg' = [hseg EXCEPT ![h] = s]
        /\ \E r \in Recs : hrec' = [hrec EXCEPT ![h] = r]
    BY <1>3 DEF HookRead, Hook, Active
  <2>2. \A g \in Hooks, u \in Segments :
          Archiving(g, u)' <=> (g # h /\ Archiving(g, u)) \/ (g = h /\ u = s)
    BY <2>1 DEF Archiving
  <2>3. row[s] = None /\ s \notin old
    BY <2>1 DEF HooksApart, Rows
  <2>4. Rows' = Rows
    BY <2>1 DEF Rows
  <2> QED
    BY <2>1, <2>2, <2>3, <2>4 DEF HooksApart
<1>4. ASSUME NEW h \in Hooks, HookQuota(h) \/ HookUpload(h) PROVE HooksApart'
  <2>1. /\ UNCHANGED <<row, old, taken>> /\ objects \subseteq objects'
        /\ \A g \in Hooks \ {h} : hpc'[g] = hpc[g] /\ hrec'[g] = hrec[g] /\ hseg'[g] = hseg[g]
        /\ \/ hpc'[h] = "idle"
           \/ /\ hpc[h] \in {"quota", "upload"} /\ hpc'[h] \in {"upload", "row"}
              /\ hseg'[h] = hseg[h] /\ hrec'[h] = hrec[h]
              /\ hpc'[h] = "row" => hseg[h] \in objects'
    BY <1>4 DEF HookQuota, HookUpload, Hook, HookReturn, segVars
  <2>2. \A g \in Hooks, u \in Segments : Archiving(g, u)' => Archiving(g, u)
    BY <2>1 DEF Archiving
  <2>3. Rows' = Rows
    BY <2>1 DEF Rows
  <2>4. \A g \in Hooks : hpc'[g] = "row" => hseg'[g] \in objects'
    BY <2>1 DEF HooksApart
  <2>5. \A g \in Hooks : hpc'[g] # "idle" => hrec'[g] \in Recs /\ hseg'[g] \in Segments
    BY <2>1 DEF HooksApart
  <2> QED
    BY <2>1, <2>2, <2>3, <2>4, <2>5 DEF HooksApart
<1>5. ASSUME NEW h \in Hooks, HookRow(h) \/ HookTotal(h) \/ HookThrows(h) PROVE HooksApart'
  <2>1. /\ UNCHANGED <<objects, old, taken>>
        /\ \A g \in Hooks \ {h} : hpc'[g] = hpc[g] /\ hrec'[g] = hrec[g] /\ hseg'[g] = hseg[g]
        /\ hpc'[h] \in {"idle", "total"}
        /\ hpc'[h] = "total" => hpc[h] = "row" /\ hrec'[h] = hrec[h] /\ hseg'[h] = hseg[h]
    BY <1>5 DEF HookRow, HookTotal, HookThrows, Hook, HookReturn, segVars
  <2>2. \A s \in Segments : row'[s] = row[s] \/ Archiving(h, s)
    BY <1>5 DEF HookRow, HookTotal, HookThrows, Archiving, segVars
  <2>3. \A g \in Hooks, u \in Segments : Archiving(g, u)' => g # h /\ Archiving(g, u)
    BY <2>1 DEF Archiving
  <2>4. \A g \in Hooks : \A u \in Segments : Archiving(g, u)' => row'[u] = None
    BY <2>2, <2>3 DEF HooksApart
  <2>5. Rows' \subseteq taken'
    BY <2>1, <2>2 DEF Rows, HooksApart
  <2>6. \A g \in Hooks : hpc'[g] = "row" => hseg'[g] \in objects'
    BY <2>1 DEF HooksApart
  <2>7. \A g \in Hooks : hpc'[g] # "idle" => hrec'[g] \in Recs /\ hseg'[g] \in Segments
    BY <2>1 DEF HooksApart
  <2> QED
    BY <2>1, <2>3, <2>4, <2>5, <2>6, <2>7 DEF HooksApart
<1> QED
  BY <1>1, <1>2, <1>3, <1>4, <1>5, NextSplits DEF HooksMove, HookStep

\* A deletion lists segments of its own recording, and its list only shrinks.
LEMMA CallersLists ==
  ASSUME TypeOK, CallersMove, NEW k \in Callers, clist'[k] # {}
  PROVE  \/ clist'[k] = clist[k] /\ crec'[k] = crec[k]
         \/ /\ clist'[k] = RowsOf(crec'[k]) /\ crec'[k] \in asked' /\ crec'[k] \in Recs
            /\ row' = row
<1> USE DEF TypeOK, Call, Return
<1>1. ASSUME NEW j \in Callers, NEW r \in Recs, DeleteRead(j, r)
      PROVE  \/ clist'[k] = clist[k] /\ crec'[k] = crec[k]
             \/ /\ clist'[k] = RowsOf(crec'[k]) /\ crec'[k] \in asked' /\ crec'[k] \in Recs
                /\ row' = row
  BY <1>1 DEF DeleteRead, segVars
<1>2. ASSUME NEW j \in Callers, NEW c \in Cameras, Request(j, c) \/ ScheduleCheck(j, c)
      PROVE  clist'[k] = clist[k] /\ crec'[k] = crec[k]
  BY <1>2 DEF Request, ScheduleCheck
<1>3. ASSUME NEW j \in Callers, CallerStep(j) \/ CallerThrows(j)
      PROVE  clist'[k] = clist[k] /\ crec'[k] = crec[k]
  <2>1. CASE StartRead(j) \/ StartQuota(j) \/ StartFlag(j) \/ \E r \in Recs : StartCreate(j, r)
    BY <2>1 DEF StartRead, StartQuota, StartFlag, StartCreate
  <2>2. CASE StopRead(j) \/ StopRow(j) \/ StopFlag(j)
    BY <2>2 DEF StopRead, StopRow, StopFlag
  <2>3. CASE DeleteObjects(j) \/ DeleteRow(j) \/ CallerThrows(j)
    BY <2>3 DEF DeleteObjects, DeleteRow, CallerThrows
  <2> QED
    BY <1>3, <2>1, <2>2, <2>3 DEF CallerStep
<1> QED
  BY <1>1, <1>2, <1>3 DEF CallersMove

LEMMA DeletionsApartPreserved ==
  ASSUME TypeOK, HooksApart, DeletionsApart, Next
  PROVE  DeletionsApart'
<1> USE RecordingsAssumption DEF TypeOK
<1>1. ASSUME NEW s \in Segments, Age(s) PROVE DeletionsApart'
  BY <1>1 DEF Age, DeletionsApart, Archiving, callVars, hookVars
<1>2. CASE CallersMove \/ RetentionMoves
  <2>1. Removal
    BY <1>2, CallersRemove, RetentionRemoves
  <2>2. SUFFICES ASSUME NEW k \in Callers, NEW s \in clist'[k]
                 PROVE  /\ crec'[k] \in asked' /\ row'[s] \in {None, crec'[k]} /\ s \in taken'
                        /\ \A h \in Hooks : ~Archiving(h, s)'
    BY DEF DeletionsApart
  <2>3. \A h \in Hooks, u \in Segments : Archiving(h, u)' <=> Archiving(h, u)
    BY <2>1 DEF Removal, Archiving, hookVars
  <2>4. CASE clist'[k] = clist[k] /\ crec'[k] = crec[k]
    BY <2>1, <2>3, <2>4 DEF Removal, DeletionsApart
  <2>5. CASE /\ clist'[k] = RowsOf(crec'[k]) /\ crec'[k] \in asked' /\ crec'[k] \in Recs
             /\ row' = row
    <3>1. s \in Segments /\ row[s] = crec'[k] /\ row[s] # None
      BY <2>5 DEF RowsOf
    <3>2. s \in taken /\ \A h \in Hooks : ~Archiving(h, s)
      BY <3>1 DEF HooksApart, Rows
    <3> QED
      BY <2>1, <2>3, <2>5, <3>1, <3>2 DEF Removal
  <2>6. CASE RetentionMoves
    BY <2>4, <2>6, RetentionRemoves DEF callVars
  <2> QED
    BY <1>2, <2>4, <2>5, <2>6, CallersLists
<1>3. CASE HooksMove
  <2>1. UNCHANGED <<clist, crec, asked>> /\ taken \subseteq taken'
    BY <1>3 DEF HooksMove, HookStep, HookRead, HookQuota, HookUpload, HookRow, HookTotal,
                HookThrows, segVars, callVars
  <2>2. \A s \in Segments : row'[s] = row[s] \/ \E h \in Hooks : Archiving(h, s)
    BY <1>3 DEF HooksMove, HookStep, HookRead, HookQuota, HookUpload, HookRow, HookTotal,
                HookThrows, segVars, Archiving
  <2>3. \A s \in taken, g \in Hooks : Archiving(g, s)' => Archiving(g, s)
    BY <1>3 DEF HooksMove, HookStep, HookRead, HookQuota, HookUpload, HookRow, HookTotal,
                HookThrows, Hook, HookReturn, Archiving
  <2> QED
    BY <2>1, <2>2, <2>3 DEF DeletionsApart
<1> QED
  BY <1>1, <1>2, <1>3, NextSplits

LEMMA ObjectsKeptPreserved ==
  ASSUME TypeOK, ObjectsKept, HooksApart, DeletionsApart, RetentionApart, Next
  PROVE  ObjectsKept'
<1> USE RecordingsAssumption DEF TypeOK
<1>1. ASSUME NEW s \in Segments, Age(s) PROVE ObjectsKept'
  BY <1>1 DEF Age, ObjectsKept, Rows
<1>2. CASE CallersMove \/ RetentionMoves
  <2>1. Removal
    BY <1>2, CallersRemove, RetentionRemoves
  <2>2. SUFFICES ASSUME NEW s \in Rows'
                 PROVE  s \in objects' \/ s \in old' \/ row'[s] \in asked'
    BY DEF ObjectsKept
  <2>3. s \in Rows /\ row'[s] = row[s]
    BY <2>1 DEF Removal, Rows
  <2>4. CASE s \in objects \ objects'
    <3>1. CASE s \in expired
      BY <2>1, <3>1 DEF RetentionApart, Removal
    <3>2. ASSUME NEW k \in Callers, s \in clist[k] PROVE row'[s] \in asked'
      BY <2>1, <2>3, <3>2 DEF DeletionsApart, Rows, Removal
    <3> QED
      BY <2>1, <2>4, <3>1, <3>2 DEF Removal
  <2> QED
    BY <2>1, <2>3, <2>4 DEF ObjectsKept, Removal
<1>3. CASE HooksMove
  <2>1. UNCHANGED <<old, asked>> /\ objects \subseteq objects'
    BY <1>3 DEF HooksMove, HookStep, HookRead, HookQuota, HookUpload, HookRow, HookTotal,
                HookThrows, segVars
  <2>2. \A s \in Segments :
          row'[s] = row[s] \/ \E h \in Hooks : hpc[h] = "row" /\ hseg[h] = s
    BY <1>3 DEF HooksMove, HookStep, HookRead, HookQuota, HookUpload, HookRow, HookTotal,
                HookThrows, segVars
  <2> QED
    BY <2>1, <2>2 DEF ObjectsKept, HooksApart, Rows
<1> QED
  BY <1>1, <1>2, <1>3, NextSplits

-----------------------------------------------------------------------------
(* The theorems *)

LEMMA InitIInv ==
  ASSUME Init
  PROVE  IInv
<1> USE RecordingsAssumption DEF Init
<1>1. TypeOK
  BY DEF TypeOK, CallerPc, HookPc, RetentionPc
<1>2. Rows = {} /\ Uploading = {}
  BY DEF Rows, Uploading
<1>3. QuotaNearlyKept
  <2>1. Cardinality(Hooks) \in Nat /\ Cardinality(Hooks) # 0
    BY FS_CardinalityType, FS_EmptySet
  <2> QED
    BY <1>2, <2>1, FS_EmptySet DEF QuotaNearlyKept
<1>4. ObjectsKept /\ HooksApart /\ DeletionsApart /\ RetentionApart
  BY <1>2 DEF ObjectsKept, HooksApart, Archiving, DeletionsApart, RetentionApart
<1> QED
  BY <1>1, <1>3, <1>4 DEF IInv

LEMMA StutterIInv ==
  ASSUME IInv, UNCHANGED vars
  PROVE  IInv'
<1>1. TypeOK'
  BY DEF IInv, TypeOK, vars, recVars, segVars, callVars, hookVars, retVars
<1>2. Rows' = Rows /\ Uploading' = Uploading
  BY DEF vars, segVars, hookVars, Rows, Uploading
<1>3. ObjectsKept' /\ QuotaNearlyKept'
  BY <1>2 DEF IInv, ObjectsKept, QuotaNearlyKept, vars, segVars
<1>4. HooksApart' /\ DeletionsApart' /\ RetentionApart'
  BY <1>2 DEF IInv, HooksApart, DeletionsApart, RetentionApart, Archiving,
              vars, segVars, callVars, hookVars, retVars
<1> QED
  BY <1>1, <1>3, <1>4 DEF IInv

\* The inductive invariant: types, the quota, the objects of the rows, and who may
\* touch which segment (recordings.service.ts, on_hls, retention.processor.ts).
THEOREM Inductive == Spec => []IInv
<1>1. Init => IInv
  BY InitIInv
<1>2. IInv /\ [Next]_vars => IInv'
  <2>1. CASE IInv /\ Next
    <3>1. TypeOK'
      BY <2>1, NextSplits, CallerTypes, HookTypes, RetentionTypes, AgeTypes DEF IInv
    <3> QED
      BY <2>1, <3>1, QuotaPreserved, ObjectsKeptPreserved, HooksApartPreserved,
         DeletionsApartPreserved, RetentionApartPreserved DEF IInv
  <2>2. CASE IInv /\ UNCHANGED vars
    BY <2>2, StutterIInv
  <2> QED
    BY <2>1, <2>2
<1> QED
  BY <1>1, <1>2, PTL DEF Spec

\* Type correctness of rows, objects, callers, callbacks and the retention run.
THEOREM TypeCorrect == Spec => []TypeOK
BY Inductive, PTL DEF IInv

\* An archived segment keeps its object until retention or a deletion may have it,
\* however archive, deletions and retention interleave and fail.
THEOREM ObjectsAlwaysKept == Spec => []ObjectsKept
BY Inductive, PTL DEF IInv

\* checkStorageQuota before each upload keeps the store within the quota plus the
\* callbacks that are in progress.
THEOREM QuotaAlwaysNearlyKept == Spec => []QuotaNearlyKept
BY Inductive, PTL DEF IInv

-----------------------------------------------------------------------------
(* The flag and the active recording *)

\* What the flag depends on.
flagView == <<isRecording, rec, recCam, cpc, ccam, crec>>

\* Callbacks, time and retention leave it alone, but for a recording that goes.
LEMMA OthersLeaveFlag ==
  ASSUME TypeOK, (\E s \in Segments : Age(s)) \/ HooksMove \/ RetentionMoves
  PROVE  \/ UNCHANGED flagView
         \/ /\ UNCHANGED <<isRecording, recCam, cpc, ccam, crec>>
            /\ \E r \in Recs : rec' = [rec EXCEPT ![r] = "gone"] /\ Exists(r)
<1> USE DEF flagView, recVars, callVars
<1>1. CASE \E s \in Segments : Age(s)
  BY <1>1 DEF Age
<1>2. CASE HooksMove
  BY <1>2 DEF HooksMove, HookStep, HookRead, HookQuota, HookUpload, HookRow, HookTotal, HookThrows
<1>3. CASE RetentionMoves
  <2>1. CASE RetentionApply
    BY <2>1 DEF RetentionApply, Drop, Exists, TypeOK
  <2> QED
    BY <1>3, <2>1
    DEF RetentionMoves, RetentionStep, RetentionRun, RetentionFind, RetentionObjects,
        RetentionSkips, RetentionRows, RetentionCount, RetentionThrows
<1> QED
  BY <1>1, <1>2, <1>3

\* Whoever stops has a recording of its camera, and keeps it.
LEMMA StopsOwnPreserved ==
  ASSUME TypeOK, StopsOwn, Next
  PROVE  StopsOwn'
<1> USE DEF TypeOK, StopsOwn, recVars, Call, Return
<1>1. CASE ~CallersMove
  <2>1. \/ UNCHANGED flagView
        \/ /\ UNCHANGED <<isRecording, recCam, cpc, ccam, crec>>
           /\ \E r \in Recs : rec' = [rec EXCEPT ![r] = "gone"] /\ Exists(r)
    BY <1>1, NextSplits, OthersLeaveFlag
  <2> QED
    BY <2>1 DEF flagView
<1>2. ASSUME NEW k \in Callers, NEW c \in Cameras, Request(k, c) \/ ScheduleCheck(k, c)
      PROVE  StopsOwn'
  BY <1>2 DEF Request, ScheduleCheck
<1>3. ASSUME NEW k \in Callers, NEW r \in Recs, DeleteRead(k, r) PROVE StopsOwn'
  BY <1>3 DEF DeleteRead
<1>4. ASSUME NEW k \in Callers, CallerStep(k) \/ CallerThrows(k) PROVE StopsOwn'
  <2>1. CASE StartRead(k) \/ StartQuota(k) \/ StartFlag(k)
    BY <2>1 DEF StartRead, StartQuota, StartFlag
  <2>2. ASSUME NEW r \in Recs, StartCreate(k, r) PROVE StopsOwn'
    BY <2>2 DEF StartCreate
  <2>3. CASE StopRead(k)
    BY <2>3 DEF StopRead, Active
  <2>4. CASE StopRow(k) \/ StopFlag(k)
    BY <2>4 DEF StopRow, StopFlag, Exists
  <2>5. CASE DeleteObjects(k) \/ DeleteRow(k) \/ CallerThrows(k)
    BY <2>5 DEF DeleteObjects, DeleteRow, CallerThrows, Drop
  <2> QED
    BY <1>4, <2>1, <2>2, <2>3, <2>4, <2>5 DEF CallerStep
<1> QED
  BY <1>1, <1>2, <1>3, <1>4 DEF CallersMove

\* A camera that nobody crosses stays sound.
LEMMA SoundPreserved ==
  ASSUME TypeOK, StopsOwn, Next, NEW c \in Cameras, Sound(c), ~Crosses(c)
  PROVE  Sound(c)'
<1>0. /\ \A k, l \in Inside(c)' : k = l
      /\ \A k \in Inside(c) : ~Dies(k)
      /\ \A r \in Active(c) : rec'[r] # "gone"
  BY DEF Crosses
<1> USE DEF TypeOK, recVars, Call, Return, Sound, Inside, Between, Agrees, OneActive, PlaceTells, Active
<1>1. CASE ~CallersMove
  <2>1. \/ UNCHANGED flagView
        \/ /\ UNCHANGED <<isRecording, recCam, cpc, ccam, crec>>
           /\ \E r \in Recs : rec' = [rec EXCEPT ![r] = "gone"] /\ Exists(r)
    BY <1>1, NextSplits, OthersLeaveFlag
  <2>2. Active(c)' = Active(c)
    BY <2>1, <1>0 DEF flagView
  <2>3. Inside(c)' = Inside(c) /\ UNCHANGED <<isRecording, cpc, crec>>
    BY <2>1 DEF flagView
  <2> QED
    BY <2>2, <2>3
<1>2. ASSUME NEW k \in Callers, NEW d \in Cameras, Request(k, d) \/ ScheduleCheck(k, d)
      PROVE  Sound(c)'
  BY <1>2, <1>0 DEF Request, ScheduleCheck
<1>3. ASSUME NEW k \in Callers, NEW r \in Recs, DeleteRead(k, r) PROVE Sound(c)'
  BY <1>3, <1>0 DEF DeleteRead
<1>4. ASSUME NEW k \in Callers, CallerStep(k) \/ CallerThrows(k) PROVE Sound(c)'
  <2>1. CASE StartRead(k)
    BY <2>1, <1>0 DEF StartRead
  <2>2. CASE StartQuota(k)
    BY <2>2, <1>0 DEF StartQuota
  <2>3. ASSUME NEW r \in Recs, StartCreate(k, r) PROVE Sound(c)'
    BY <2>3, <1>0 DEF StartCreate
  <2>4. CASE StartFlag(k)
    BY <2>4, <1>0 DEF StartFlag
  <2>5. CASE StopRead(k)
    BY <2>5, <1>0 DEF StopRead
  <2>6. CASE StopRow(k)
    BY <2>6, <1>0 DEF StopRow, StopsOwn, Exists
  <2>7. CASE StopFlag(k)
    BY <2>7, <1>0 DEF StopFlag
  <2>8. CASE DeleteObjects(k)
    BY <2>8, <1>0 DEF DeleteObjects
  <2>9. CASE DeleteRow(k)
    BY <2>9, <1>0 DEF DeleteRow, Drop
  <2>10. CASE CallerThrows(k)
    BY <2>10, <1>0 DEF CallerThrows, Dies
  <2> QED
    BY <1>4, <2>1, <2>2, <2>3, <2>4, <2>5, <2>6, <2>7, <2>8, <2>9, <2>10 DEF CallerStep
<1> QED
  BY <1>1, <1>2, <1>3, <1>4 DEF CallersMove

\* One that comes right again is sound at once.
LEMMA HealsSound ==
  ASSUME NEW c \in Cameras, Heals(c)
  PROVE  Sound(c)'
BY DEF Heals, Sound, Agrees

LEMMA InitStartsInv ==
  ASSUME StartsInit
  PROVE  StartsInv
<1>1. TypeOK
  BY InitIInv DEF StartsInit, IInv
<1>2. StopsOwn /\ \A c \in Cameras : Inside(c) = {} /\ Active(c) = {} /\ ~isRecording[c]
  BY <1>1 DEF StartsInit, Init, StopsOwn, Inside, Between, Active, TypeOK
<1> QED
  BY <1>1, <1>2 DEF StartsInv, Sound, Agrees, OneActive

\* The inductive invariant of the flag: a camera on its way is flagged exactly while it
\* has an active recording, but for the one call that is about to see to it
\* (startRecording and stopRecording, recordings.service.ts).
THEOREM StartsSound == StartsSpec => []StartsInv
<1>1. StartsSpec => []IInv
  <2>1. StartsInit => Init
    BY DEF StartsInit
  <2>2. [StartsNext]_startsVars => [Next]_vars
    BY DEF StartsNext, startsVars
  <2> QED
    BY <2>1, <2>2, Inductive, PTL DEF StartsSpec, Spec
<1>2. StartsInit => StartsInv
  BY InitStartsInv
<1>3. IInv' /\ StartsInv /\ [StartsNext]_startsVars => StartsInv'
  <2>1. CASE IInv' /\ StartsInv /\ StartsNext
    <3>1. TypeOK' /\ StopsOwn'
      BY <2>1, StopsOwnPreserved DEF StartsInv, StartsNext, IInv
    <3>2. ASSUME NEW c \in Cameras, c \notin astray' PROVE Sound(c)'
      <4>1. ~Crosses(c) /\ (c \in astray => Heals(c))
        BY <2>1, <3>2 DEF StartsNext, StartsStep
      <4> QED
        BY <2>1, <4>1, SoundPreserved, HealsSound DEF StartsInv, StartsNext
    <3> QED
      BY <3>1, <3>2 DEF StartsInv
  <2>2. CASE StartsInv /\ UNCHANGED startsVars
    BY <2>2 DEF StartsInv, startsVars, vars, recVars, segVars, callVars, hookVars, retVars, TypeOK,
                StopsOwn, Sound, Inside, Agrees, OneActive, PlaceTells, Active
  <2> QED
    BY <2>1, <2>2
<1> QED
  BY <1>1, <1>2, <1>3, PTL DEF StartsSpec

\* The flag tells unless calls met, one died between its writes or the active recording
\* was deleted, for any cameras, recordings and callers
\* (RecordingsService.startRecording and stopRecording).
THEOREM FlagAlwaysTells == StartsSpec => []FlagTellsUnlessCrossed
<1>1. StartsInv => FlagTellsUnlessCrossed
  BY DEF StartsInv, Sound, FlagTellsUnlessCrossed
<1> QED
  BY <1>1, StartsSound, PTL

(***************************************************************************)
(* QuotaAlerts.  A call that nothing excuses is the only one, and whoever  *)
(* was told within the last hour was told by it.                           *)
(***************************************************************************)
Alone(k) ==
  alarm[k].at # "idle" /\ ~alarm[k].excused =>
    /\ \A j \in Alarms \ {k} : alarm[j].at = "idle"
    /\ \A r \in OfLastHour(told) : alarm[k].at = "tell" /\ r.to \notin alarm[k].todo

AlertInv ==
  /\ AlertTypeOK
  /\ told = alerts \cup wiped
  /\ \A k \in Alarms : Alone(k)

LEMMA InitAlerts == AlertInit => AlertInv
  BY AlertAssumption DEF AlertInit, AlertInv, AlertTypeOK, Alone, NoAlarm, Hours

LEMMA AlarmLooksStep ==
  ASSUME AlertInv, NEW k \in Alarms, AlarmLooks(k)
  PROVE  AlertInv'
<1> DEFINE others == {j \in Alarms \ {k} : alarm[j].at # "idle"}
<1>1. /\ ~SentRecently(alerts) /\ UNCHANGED <<clock, alerts, told, wiped>>
      /\ alarm' = [j \in Alarms |->
           IF j = k THEN [at |-> "members", todo |-> {}, excused |-> others # {} \/ OfLastHour(wiped) # {}]
           ELSE IF j \in others THEN [alarm[j] EXCEPT !.excused = TRUE] ELSE alarm[j]]
  BY DEF AlarmLooks
<1>2. AlertTypeOK'
  BY <1>1 DEF AlertInv, AlertTypeOK
<1>3. ASSUME NEW j \in Alarms PROVE Alone(j)'
  <2>1. CASE j \in others
    BY <1>1, <2>1 DEF Alone, AlertInv, AlertTypeOK
  <2>2. CASE j # k /\ j \notin others
    BY <1>1, <2>2 DEF Alone
  <2>3. CASE j = k /\ ~alarm'[k].excused
    <3>1. others = {} /\ OfLastHour(wiped) = {} /\ OfLastHour(alerts) = {}
      BY <1>1, <2>3 DEF SentRecently
    <3>2. OfLastHour(told)' = {}
      BY <1>1, <3>1 DEF OfLastHour, AlertInv
    <3>3. \A i \in Alarms \ {k} : alarm'[i].at = "idle"
      BY <1>1, <3>1
    <3>4. QED
      BY <2>3, <3>2, <3>3 DEF Alone
  <2>4. CASE j = k /\ alarm'[k].excused
    BY <2>4 DEF Alone
  <2>5. QED
    BY <2>1, <2>2, <2>3, <2>4
<1>4. QED
  BY <1>1, <1>2, <1>3 DEF AlertInv

LEMMA TellStep ==
  ASSUME AlertInv, NEW k \in Alarms, NEW o \in Owners, Tell(k, o)
  PROVE  AlertInv'
<1> DEFINE mail == [to |-> o, when |-> clock]
            next == IF alarm[k].todo = {o} THEN NoAlarm ELSE [alarm[k] EXCEPT !.todo = @ \ {o}]
<1>1. /\ alarm[k].at = "tell" /\ o \in alarm[k].todo /\ clock' = clock
      /\ alerts' = alerts \cup {mail} /\ told' = told \cup {mail} /\ wiped' = wiped \ {mail}
      /\ alarm' = [alarm EXCEPT ![k] = next]
  BY DEF Tell
<1>2. /\ next \in [at : {"idle", "members", "tell"}, todo : SUBSET Owners, excused : BOOLEAN]
      /\ mail \in [to : Owners, when : Hours]
  BY DEF AlertInv, AlertTypeOK, NoAlarm
<1> HIDE DEF next
<1>3. AlertTypeOK' /\ (told = alerts \cup wiped)'
  <2>1. alarm' \in [Alarms -> [at : {"idle", "members", "tell"}, todo : SUBSET Owners, excused : BOOLEAN]]
    BY <1>1, <1>2 DEF AlertInv, AlertTypeOK
  <2>2. QED
    BY <1>1, <1>2, <2>1 DEF AlertInv, AlertTypeOK
<1>4. OfLastHour(told)' \subseteq OfLastHour(told) \cup {mail}
  BY <1>1 DEF OfLastHour
<1>5. ASSUME NEW j \in Alarms PROVE Alone(j)'
  <2>1. CASE j # k
    <3>1. alarm'[j] = alarm[j]
      BY <1>1, <2>1 DEF AlertInv, AlertTypeOK
    <3>2. alarm[j].at # "idle" => alarm[j].excused
      BY <1>1, <2>1 DEF AlertInv, Alone
    <3>3. QED
      BY <3>1, <3>2 DEF Alone
  <2>2. CASE j = k /\ alarm[k].todo = {o}
    BY <1>1, <2>2 DEF Alone, AlertInv, AlertTypeOK, NoAlarm, next
  <2>3. CASE j = k /\ alarm[k].todo # {o}
    <3>1. alarm'[k] = [alarm[k] EXCEPT !.todo = @ \ {o}]
      BY <1>1, <2>3 DEF AlertInv, AlertTypeOK, next
    <3>2. /\ alarm'[k].at = "tell" /\ alarm'[k].excused = alarm[k].excused
          /\ alarm'[k].todo = alarm[k].todo \ {o}
      BY <1>1, <3>1 DEF AlertInv, AlertTypeOK
    <3>3. \A i \in Alarms \ {k} : alarm'[i] = alarm[i]
      BY <1>1 DEF AlertInv, AlertTypeOK
    <3>4. Alone(k) /\ mail.to = o
      BY DEF AlertInv
    <3>5. QED
      BY <1>1, <1>4, <2>3, <3>2, <3>3, <3>4 DEF Alone
  <2>4. QED
    BY <2>1, <2>2, <2>3
<1>6. QED
  BY <1>3, <1>5 DEF AlertInv

\* The rest: the members are read, a call ends, one owner's alerts are deleted, time goes on.
LEMMA OtherAlertStep ==
  ASSUME AlertInv,
         \/ \E k \in Alarms : AlarmReads(k) \/ AlarmDies(k)
         \/ \E o \in Owners : ClearAll(o)
         \/ HourGoesOn
  PROVE  AlertInv'
<1> USE DEF AlertInv, AlertTypeOK
<1>1. ASSUME NEW k \in Alarms, AlarmReads(k) PROVE AlertInv'
  <2>1. AlertTypeOK' /\ (told = alerts \cup wiped)'
    BY <1>1 DEF AlarmReads
  <2>2. ASSUME NEW j \in Alarms PROVE Alone(j)'
    BY <1>1 DEF AlarmReads, Alone, OfLastHour
  <2>3. QED
    BY <2>1, <2>2
<1>2. ASSUME NEW k \in Alarms, AlarmDies(k) PROVE AlertInv'
  <2>1. AlertTypeOK' /\ (told = alerts \cup wiped)'
    BY <1>2 DEF AlarmDies, NoAlarm
  <2>2. ASSUME NEW j \in Alarms PROVE Alone(j)'
    BY <1>2 DEF AlarmDies, Alone, OfLastHour, NoAlarm
  <2>3. QED
    BY <2>1, <2>2
<1>3. ASSUME NEW o \in Owners, ClearAll(o) PROVE AlertInv'
  <2>1. AlertTypeOK' /\ (told = alerts \cup wiped)'
    <3> DEFINE his == {r \in alerts : r.to = o}
    <3>1. alerts' = alerts \ his /\ wiped' = wiped \cup his /\ UNCHANGED <<clock, alarm, told>>
      BY <1>3 DEF ClearAll
    <3>2. told' = alerts' \cup wiped'
      BY <3>1
    <3>3. QED
      BY <3>1, <3>2
  <2>2. ASSUME NEW j \in Alarms PROVE Alone(j)'
    BY <1>3 DEF ClearAll, Alone, OfLastHour
  <2>3. QED
    BY <2>1, <2>2
<1>4. CASE HourGoesOn
  <2>1. AlertTypeOK' /\ UNCHANGED <<alerts, alarm, told, wiped>> /\ clock' = clock + 1
    BY <1>4, AlertAssumption DEF HourGoesOn, Hours
  <2>2. OfLastHour(told)' \subseteq OfLastHour(told)
    <3>1. \A r \in told : r.when \in Nat /\ clock \in Nat
      BY AlertAssumption DEF Hours
    <3>2. QED
      BY <2>1, <3>1, AlertAssumption DEF OfLastHour
  <2>3. QED
    BY <2>1, <2>2 DEF Alone
<1>5. QED
  BY <1>1, <1>2, <1>3, <1>4

LEMMA AlertStep == AlertInv /\ [AlertNext]_alertVars => AlertInv'
<1>1. ASSUME AlertInv, UNCHANGED alertVars PROVE AlertInv'
  BY <1>1 DEF AlertInv, AlertTypeOK, Alone, OfLastHour, alertVars
<1>2. QED
  BY <1>1, AlarmLooksStep, TellStep, OtherAlertStep DEF AlertNext

\* A call that nothing excuses is the only one, and those told within the hour were told
\* by it.  (RecordingsService.checkAndAlertStorageQuota, recordings.service.ts:37)
THEOREM AlertInvHolds == AlertSpec => []AlertInv
  BY InitAlerts, AlertStep, PTL DEF AlertSpec

\* Whoever was told within the hour is told again only by a call that another one
\* overlapped or that found every alert deleted.
\* (RecordingsService.checkAndAlertStorageQuota, recordings.service.ts:37)
THEOREM AlertsSpacedHolds == AlertSpec => AlertsSpaced
<1> DEFINE Spaced == \A k \in Alarms, o \in Owners :
      Tell(k, o) /\ (\E r \in OfLastHour(told) : r.to = o) => alarm[k].excused
<1>1. AlertInv => Spaced
  BY DEF AlertInv, Alone, Tell
<1>2. QED
  BY <1>1, AlertInvHolds, PTL DEF AlertsSpaced

(***************************************************************************)
(* RecordingSchedules. A check that nobody disturbs is one of the very     *)
(* minute it began in, with enabled schedules left to go through; and once *)
(* it has gone through one of the schedules that agree, the camera does    *)
(* what they say or is about to.                                           *)
(***************************************************************************)

\* What is left of a division is smaller than the divisor.
LEMMA Remainder == ASSUME NEW a \in Nat, NEW n \in Nat \ {0} PROVE a % n \in 0..n - 1
BY SMT

\* ShouldBeRecording (schedule.processor.ts:36) of the minute itself, not of the one a
\* check began in.
ShouldNow(s) ==
  IF plan[s].start > plan[s].end
  THEN time >= plan[s].start \/ time < plan[s].end
  ELSE time >= plan[s].start /\ time < plan[s].end

\* Every enabled schedule lists the day, and all say the same of the minute.
AllSay(v) == \A s \in Enabled : day \in plan[s].days /\ (ShouldNow(s) <=> v)

\* A check in progress that nobody disturbed is one of this very minute, and has rows of
\* enabled schedules left.
SweepFresh ==
  /\ sweep.at = "idle" => sweep.left = {}
  /\ calm => ~due
  /\ calm /\ sweep.at # "idle" => sweep.day = day /\ sweep.time = time /\ sweep.left \subseteq Enabled

\* Once one of the schedules that agree has been gone through, the camera does what they
\* say or is about to.
SweepObeys ==
  /\ calm /\ AllSay(TRUE) /\ online =>
       sweep.at # "stop" /\ (Enabled # sweep.left => recording \/ sweep.at = "start")
  /\ calm /\ AllSay(FALSE) =>
       sweep.at # "start" /\ (Enabled # sweep.left => ~recording \/ sweep.at = "stop")

ScheduleInv == ScheduleTypeOK /\ SweepFresh /\ SweepObeys

-----------------------------------------------------------------------------
LEMMA ScheduleInitInv == ScheduleInit => ScheduleInv
<1> SUFFICES ASSUME ScheduleInit PROVE ScheduleInv
  OBVIOUS
<1> USE ScheduleAssumption DEF ScheduleInit, NoSweep
<1>1. 0 \in WeekDays /\ 0 \in Times /\ 0 \in 0..MaxPlanEdits
  BY DEF WeekDays, Times
<1>2. plan \in [Schedules -> [enabled : BOOLEAN, start : Times, end : Times, days : SUBSET WeekDays]]
  <2>1. [enabled : {TRUE}, start : Times, end : Times, days : (SUBSET WeekDays) \ {{}}]
          \subseteq [enabled : BOOLEAN, start : Times, end : Times, days : SUBSET WeekDays]
    OBVIOUS
  <2> QED
    BY <2>1
<1>3. ScheduleTypeOK
  BY <1>1, <1>2 DEF ScheduleTypeOK
<1>4. SweepFresh /\ SweepObeys
  BY DEF SweepFresh, SweepObeys
<1> QED
  BY <1>3, <1>4 DEF ScheduleInv

LEMMA MinuteInv == ScheduleInv /\ Minute => ScheduleInv'
<1> SUFFICES ASSUME ScheduleInv, Minute PROVE ScheduleInv'
  OBVIOUS
<1> USE DEF ScheduleInv, Minute
<1>1. time \in Nat /\ day \in Nat /\ time + 1 \in Nat /\ day + 1 \in Nat
  BY ScheduleAssumption DEF ScheduleTypeOK, Times, WeekDays
<1>2. time' \in Times /\ day' \in WeekDays
  BY <1>1, Remainder, ScheduleAssumption DEF Times, WeekDays, ScheduleTypeOK
<1>3. ScheduleTypeOK'
  BY <1>2 DEF ScheduleTypeOK
<1>4. SweepFresh' /\ SweepObeys'
  BY DEF SweepFresh, SweepObeys
<1> QED
  BY <1>3, <1>4

LEMMA SweepBeginInv == ScheduleInv /\ SweepBegin => ScheduleInv'
<1> SUFFICES ASSUME ScheduleInv, SweepBegin PROVE ScheduleInv'
  OBVIOUS
<1> USE DEF ScheduleInv, SweepBegin, NoSweep
<1>1. Enabled \subseteq Schedules
  BY DEF Enabled
<1>2. sweep' = [at |-> "next", left |-> Enabled, acting |-> {}, day |-> day, time |-> time]
  OBVIOUS
<1>3. ScheduleTypeOK'
  BY <1>1, <1>2 DEF ScheduleTypeOK
<1>4. Enabled' = Enabled
  BY DEF Enabled
<1>5. SweepFresh' /\ SweepObeys'
  BY <1>2, <1>4 DEF SweepFresh, SweepObeys
<1> QED
  BY <1>3, <1>5

LEMMA SweepReadInv == ASSUME NEW s \in Schedules, ScheduleInv, SweepRead(s) PROVE ScheduleInv'
<1>1. /\ sweep.at = "next" /\ s \in sweep.left
      /\ UNCHANGED <<plan, day, time, due, recording, online, calm, planEdits>>
  BY DEF SweepRead
<1>2. PICK place \in {"start", "stop", "next"} :
        /\ sweep' = [sweep EXCEPT !.at = place, !.left = @ \ {s}, !.acting = {s}]
        /\ place = IF Listed(s) /\ ShouldBeRecording(s) /\ ~recording /\ online THEN "start"
                   ELSE IF Listed(s) /\ ~ShouldBeRecording(s) /\ recording THEN "stop" ELSE "next"
  BY DEF SweepRead, Then
<1>3. sweep' = [at |-> place, left |-> sweep.left \ {s}, acting |-> {s},
                day |-> sweep.day, time |-> sweep.time]
  BY <1>2 DEF ScheduleInv, ScheduleTypeOK
<1>4. ScheduleTypeOK'
  <2>1. sweep' \in [at : {"idle", "next", "start", "stop"}, left : SUBSET Schedules,
                    acting : SUBSET Schedules, day : WeekDays, time : Times]
    BY <1>3 DEF ScheduleInv, ScheduleTypeOK
  <2> QED
    BY <1>1, <2>1 DEF ScheduleInv, ScheduleTypeOK
<1>5. Enabled' = Enabled /\ (AllSay(TRUE)' <=> AllSay(TRUE)) /\ (AllSay(FALSE)' <=> AllSay(FALSE))
  BY <1>1 DEF Enabled, AllSay, ShouldNow
<1>6. SweepFresh'
  BY <1>1, <1>3, <1>5 DEF ScheduleInv, SweepFresh
<1>7. calm => /\ s \in Enabled /\ (Listed(s) <=> day \in plan[s].days)
              /\ (ShouldBeRecording(s) <=> ShouldNow(s))
  BY <1>1 DEF ScheduleInv, SweepFresh, Listed, ShouldBeRecording, ShouldNow
<1>8. calm /\ AllSay(TRUE) /\ online => place # "stop" /\ (recording \/ place = "start")
  BY <1>2, <1>7 DEF AllSay
<1>9. calm /\ AllSay(FALSE) => place # "start" /\ (~recording \/ place = "stop")
  BY <1>2, <1>7 DEF AllSay
<1>10. SweepObeys'
  BY <1>1, <1>3, <1>5, <1>8, <1>9 DEF SweepObeys
<1> QED
  BY <1>4, <1>6, <1>10 DEF ScheduleInv

LEMMA SweepActInv == ScheduleInv /\ SweepAct => ScheduleInv'
<1> SUFFICES ASSUME ScheduleInv, SweepAct PROVE ScheduleInv'
  OBVIOUS
<1> USE DEF ScheduleInv, SweepAct
<1>1. /\ sweep'.at = "next" /\ sweep'.left = sweep.left
      /\ sweep'.day = sweep.day /\ sweep'.time = sweep.time
  BY DEF ScheduleTypeOK
<1>2. recording' \in BOOLEAN /\ calm' \in BOOLEAN
  BY DEF ScheduleTypeOK
<1>3. ScheduleTypeOK'
  BY <1>2 DEF ScheduleTypeOK
<1>4. Enabled' = Enabled /\ (AllSay(TRUE)' <=> AllSay(TRUE)) /\ (AllSay(FALSE)' <=> AllSay(FALSE))
  BY DEF Enabled, AllSay, ShouldNow
<1>5. SweepFresh'
  BY <1>1, <1>4 DEF SweepFresh
<1>6. calm' => calm /\ (recording' <=> sweep.at = "start")
  OBVIOUS
<1>7. SweepObeys'
  BY <1>1, <1>4, <1>6 DEF SweepObeys
<1> QED
  BY <1>3, <1>5, <1>7

LEMMA SweepEndInv == ScheduleInv /\ SweepEnd => ScheduleInv'
<1> SUFFICES ASSUME ScheduleInv, SweepEnd PROVE ScheduleInv'
  OBVIOUS
<1> USE DEF ScheduleInv, SweepEnd
<1>1. 0 \in WeekDays /\ 0 \in Times
  BY ScheduleAssumption DEF WeekDays, Times
<1>2. ScheduleTypeOK'
  BY <1>1 DEF ScheduleTypeOK, NoSweep
<1>3. Enabled' = Enabled /\ (AllSay(TRUE)' <=> AllSay(TRUE)) /\ (AllSay(FALSE)' <=> AllSay(FALSE))
  BY DEF Enabled, AllSay, ShouldNow
<1>4. SweepFresh' /\ SweepObeys'
  BY <1>3 DEF SweepFresh, SweepObeys, NoSweep
<1> QED
  BY <1>2, <1>4

\* Whatever else happens, the check that was begun no longer counts.
LEMMA UnsettledInv == ScheduleInv /\ (SweepDies \/ ByHand \/ Flicker) => ScheduleInv'
<1> SUFFICES ASSUME ScheduleInv, SweepDies \/ ByHand \/ Flicker PROVE ScheduleInv'
  OBVIOUS
<1> USE DEF ScheduleInv
<1>1. 0 \in WeekDays /\ 0 \in Times
  BY ScheduleAssumption DEF WeekDays, Times
<1>2. ~calm' /\ (sweep'.at = "idle" => sweep'.left = {})
  BY DEF SweepDies, ByHand, Flicker, SweepFresh, NoSweep
<1>3. SweepFresh' /\ SweepObeys'
  BY <1>2 DEF SweepFresh, SweepObeys
<1>4. CASE SweepDies
  BY <1>1, <1>3, <1>4 DEF ScheduleTypeOK, SweepDies, NoSweep
<1>5. CASE ByHand
  BY <1>3, <1>5 DEF ScheduleTypeOK, ByHand
<1>6. CASE Flicker
  BY <1>3, <1>6 DEF ScheduleTypeOK, Flicker
<1> QED
  BY <1>4, <1>5, <1>6

LEMMA EditScheduleInv == ASSUME NEW s \in Schedules, ScheduleInv, EditSchedule(s) PROVE ScheduleInv'
<1> USE DEF ScheduleInv, EditSchedule
<1>1. plan' \in [Schedules -> [enabled : BOOLEAN, start : Times, end : Times, days : SUBSET WeekDays]]
  BY DEF ScheduleTypeOK
<1>2. planEdits' \in 0..MaxPlanEdits
  BY ScheduleAssumption DEF ScheduleTypeOK
<1>3. ScheduleTypeOK'
  BY <1>1, <1>2 DEF ScheduleTypeOK
<1>4. SweepFresh' /\ SweepObeys'
  BY DEF SweepFresh, SweepObeys
<1> QED
  BY <1>3, <1>4

LEMMA ScheduleStepInv == ScheduleInv /\ [ScheduleNext]_scheduleVars => ScheduleInv'
<1> SUFFICES ASSUME ScheduleInv, [ScheduleNext]_scheduleVars PROVE ScheduleInv'
  OBVIOUS
<1>1. CASE UNCHANGED scheduleVars
  BY <1>1 DEF ScheduleInv, scheduleVars, ScheduleTypeOK, SweepFresh, SweepObeys, AllSay, ShouldNow, Enabled
<1>2. CASE Minute
  BY <1>2, MinuteInv
<1>3. CASE SweepBegin
  BY <1>3, SweepBeginInv
<1>4. CASE SweepAct
  BY <1>4, SweepActInv
<1>5. CASE SweepEnd
  BY <1>5, SweepEndInv
<1>6. CASE SweepDies \/ ByHand \/ Flicker
  BY <1>6, UnsettledInv
<1>7. ASSUME NEW s \in Schedules, SweepRead(s) PROVE ScheduleInv'
  BY <1>7, SweepReadInv
<1>8. ASSUME NEW s \in Schedules, EditSchedule(s) PROVE ScheduleInv'
  BY <1>8, EditScheduleInv
<1> QED
  BY <1>1, <1>2, <1>3, <1>4, <1>5, <1>6, <1>7, <1>8 DEF ScheduleNext

\* Every reachable state is well typed, and a check nobody disturbs is one of its minute
\* that obeys the schedules it has gone through.  (ScheduleProcessor.process,
\* schedule.processor.ts:45)
THEOREM ScheduleInvHolds == ScheduleSpec => []ScheduleInv
  BY ScheduleInitInv, ScheduleStepInv, PTL DEF ScheduleSpec

\* What schedules that list the day mean by the moment is what the check computes, but for
\* the small hours.
LEMMA WindowIsShould ==
  ASSUME ScheduleTypeOK, NEW s \in Schedules, day \in plan[s].days
  PROVE  /\ WindowOpen(s) => ShouldNow(s)
         /\ ~WindowOpen(s) /\ ~SmallHours(s) => ~ShouldNow(s)
<1>1. plan[s].start \in Times /\ plan[s].end \in Times /\ time \in Times
  <2>1. plan[s] \in [enabled : BOOLEAN, start : Times, end : Times, days : SUBSET WeekDays]
    BY DEF ScheduleTypeOK
  <2> QED
    BY <2>1 DEF ScheduleTypeOK
<1>2. WindowOpen(s) <=>
        IF plan[s].start <= plan[s].end THEN day \in plan[s].days /\ time \in plan[s].start..plan[s].end - 1
        ELSE (day \in plan[s].days /\ time >= plan[s].start) \/ (Eve \in plan[s].days /\ time < plan[s].end)
  BY DEF WindowOpen
<1>3. plan[s].start \in Nat /\ plan[s].end \in Nat /\ time \in Nat
  <2>1. DayLength \in Nat
    BY ScheduleAssumption
  <2>2. \A t \in Times : t \in Nat
    BY <2>1 DEF Times
  <2> QED
    BY <1>1, <2>2
<1> QED
  BY <1>2, <1>3 DEF ShouldNow, SmallHours

\* After a check nobody disturbed, a camera whose schedules agree records exactly when they
\* say, but for the small hours.  (ScheduleProcessor.process, schedule.processor.ts:45)
THEOREM AgreedDaysFollowHolds == ScheduleSpec => []AgreedDaysFollow
<1>1. ScheduleInv => AgreedDaysFollow
  <2> SUFFICES ASSUME ScheduleInv, Checked, Enabled # {}, \A s \in Enabled : day \in plan[s].days
               PROVE  /\ (\A s \in Enabled : WindowOpen(s)) /\ online => recording
                      /\ (\A s \in Enabled : ~WindowOpen(s) /\ ~SmallHours(s)) => ~recording
    BY DEF AgreedDaysFollow
  <2> USE DEF ScheduleInv
  <2>1. Enabled \subseteq Schedules
    BY DEF Enabled
  <2>2. calm /\ sweep.at = "idle" /\ Enabled # sweep.left
    BY DEF Checked, SweepFresh
  <2>3. ASSUME \A s \in Enabled : WindowOpen(s), online PROVE recording
    <3>1. AllSay(TRUE)
      BY <2>1, <2>3, WindowIsShould DEF AllSay
    <3> QED
      BY <2>2, <2>3, <3>1 DEF SweepObeys
  <2>4. ASSUME \A s \in Enabled : ~WindowOpen(s) /\ ~SmallHours(s) PROVE ~recording
    <3>1. AllSay(FALSE)
      BY <2>1, <2>4, WindowIsShould DEF AllSay
    <3> QED
      BY <2>2, <3>1 DEF SweepObeys
  <2> QED
    BY <2>3, <2>4
<1> QED
  BY <1>1, ScheduleInvHolds, PTL
=============================================================================
