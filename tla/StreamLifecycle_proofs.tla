----------------------- MODULE StreamLifecycle_proofs -----------------------
(***************************************************************************)
(* Proofs about StreamLifecycle, for any number of cameras, requests and   *)
(* profiles and any limits.                                                *)
(*                                                                         *)
(* First the inductive invariant IInv: types, then the stage of each       *)
(* camera, one lemma per component, one step per action. TypeOK is not     *)
(* inductive on its own: that attempts stay below their limit needs the    *)
(* stage of the worker that counts them. Then the theorems: the safety     *)
(* properties that follow from IInv, the circuit breaker, the slot each    *)
(* camera's job goes through, and the silence of a camera nobody asks for. *)
(***************************************************************************)
EXTENDS StreamLifecycle, TLAPS

\* No step of the worker takes a variable out of its type.
LEMMA WorkerKeepsTypes ==
  ASSUME IInv, WorkerNext
  PROVE  TypeOK'
<1> USE StreamAssumption DEF TypeOK, IInv
<1>1. ASSUME NEW c \in Cameras, Pick(c) PROVE TypeOK'
  <2>1. JobType'
    BY <1>1 DEF Pick, JobType, JobSlot
  <2>2. WorkType'
    BY <1>1 DEF Pick, WorkType, WorkerPc, JobType, JobSlot
  <2>3. DbType' /\ FfType' /\ SrsType' /\ HealthType' /\ TickType' /\ ReqType' /\ ApiType'
    BY <1>1 DEF Pick, DbType, FfType, SrsType, HealthType, TickType, ReqType, ApiType, dbVars,
           ffVars, srsVars, healthVars, tickVars, reqVars, apiVars
  <2> QED BY <2>1, <2>2, <2>3
<1>2. ASSUME NEW c \in Cameras, GuardRefuse(c) PROVE TypeOK'
  <2>1. DbType'
    BY <1>2 DEF GuardRefuse, DbType, Status, Transition
  <2>2. WorkType'
    BY <1>2 DEF GuardRefuse, WorkType, WorkerPc
  <2>3. HealthType'
    BY <1>2 DEF GuardRefuse, HealthType, Transition
  <2>4. JobType' /\ FfType' /\ SrsType' /\ TickType' /\ ReqType' /\ ApiType'
    BY <1>2 DEF GuardRefuse, JobType, FfType, SrsType, TickType, ReqType, ApiType, ffVars,
           srsVars, tickVars, reqVars, apiVars
  <2> QED BY <2>1, <2>2, <2>3, <2>4
<1>3. ASSUME NEW c \in Cameras, GuardPass(c) PROVE TypeOK'
  <2>1. WorkType'
    BY <1>3 DEF GuardPass, WorkType, WorkerPc
  <2>2. DbType' /\ JobType' /\ FfType' /\ SrsType' /\ HealthType' /\ TickType' /\ ReqType' /\ ApiType'
    BY <1>3 DEF GuardPass, DbType, JobType, FfType, SrsType, HealthType, TickType, ReqType,
           ApiType, dbVars, ffVars, srsVars, healthVars, tickVars, reqVars, apiVars
  <2> QED BY <2>1, <2>2
<1>4. ASSUME NEW c \in Cameras, SafetyNet(c) PROVE TypeOK'
  <2>1. WorkType'
    BY <1>4 DEF SafetyNet, WorkType, WorkerPc
  <2>2. FfType'
    BY <1>4 DEF SafetyNet, FfType, AfterKill
  <2>3. DbType' /\ JobType' /\ SrsType' /\ HealthType' /\ TickType' /\ ReqType' /\ ApiType'
    BY <1>4 DEF SafetyNet, DbType, JobType, SrsType, HealthType, TickType, ReqType, ApiType,
           dbVars, srsVars, healthVars, tickVars, reqVars, apiVars
  <2> QED BY <2>1, <2>2, <2>3
<1>5. ASSUME NEW c \in Cameras, Branch(c) PROVE TypeOK'
  <2>1. DbType'
    BY <1>5 DEF Branch, DbType, Status, Transition
  <2>2. WorkType'
    BY <1>5 DEF Branch, WorkType, WorkerPc
  <2>3. FfType'
    BY <1>5 DEF Branch, FfType, AfterKill
  <2>4. HealthType'
    BY <1>5 DEF Branch, HealthType, Transition
  <2>5. JobType' /\ SrsType' /\ TickType' /\ ReqType' /\ ApiType'
    BY <1>5 DEF Branch, JobType, SrsType, TickType, ReqType, ApiType, srsVars, tickVars,
           reqVars, apiVars
  <2> QED BY <2>1, <2>2, <2>3, <2>4, <2>5
<1>6. ASSUME NEW c \in Cameras, Spawn(c) PROVE TypeOK'
  <2>1. WorkType'
    BY <1>6 DEF Spawn, WorkType, WorkerPc
  <2>2. FfType'
    BY <1>6 DEF Spawn, FfType, WorkType, ffVars
  <2>3. SrsType'
    BY <1>6 DEF Spawn, SrsType, AfterKick
  <2>4. DbType' /\ JobType' /\ HealthType' /\ TickType' /\ ReqType' /\ ApiType'
    BY <1>6 DEF Spawn, DbType, JobType, HealthType, TickType, ReqType, ApiType, dbVars,
           healthVars, tickVars, reqVars, apiVars
  <2> QED BY <2>1, <2>2, <2>3, <2>4
<1>7. ASSUME NEW c \in Cameras, OpenBreaker(c) PROVE TypeOK'
  <2>1. WorkType'
    BY <1>7 DEF OpenBreaker, WorkType, WorkerPc
  <2>2. HealthType'
    BY <1>7 DEF OpenBreaker, HealthType
  <2>3. DbType' /\ JobType' /\ FfType' /\ SrsType' /\ TickType' /\ ReqType' /\ ApiType'
    BY <1>7 DEF OpenBreaker, DbType, JobType, FfType, SrsType, TickType, ReqType, ApiType,
           dbVars, ffVars, srsVars, tickVars, reqVars, apiVars
  <2> QED BY <2>1, <2>2, <2>3
<1>8. ASSUME NEW c \in Cameras, TellDegraded(c) PROVE TypeOK'
  <2>1. DbType'
    BY <1>8 DEF TellDegraded, DbType, Status, Transition, CleanUp
  <2>2. WorkType'
    BY <1>8 DEF TellDegraded, WorkType, WorkerPc, CleanUp
  <2>3. SrsType'
    BY <1>8 DEF TellDegraded, SrsType, CleanUp, AfterKick
  <2>4. HealthType'
    BY <1>8 DEF TellDegraded, HealthType, Transition, CleanUp
  <2>5. JobType' /\ FfType' /\ TickType' /\ ReqType' /\ ApiType'
    BY <1>8 DEF TellDegraded, CleanUp, JobType, FfType, TickType, ReqType, ApiType, ffVars,
           tickVars, reqVars, apiVars
  <2> QED BY <2>1, <2>2, <2>3, <2>4, <2>5
<1>9. ASSUME NEW c \in Cameras, Rejected(c) PROVE TypeOK'
  <2>1. DbType'
    BY <1>9 DEF Rejected, DbType, Status, CleanUp
  <2>2. WorkType'
    BY <1>9 DEF Rejected, WorkType, WorkerPc, CleanUp
  <2>3. SrsType'
    BY <1>9 DEF Rejected, SrsType, CleanUp, AfterKick
  <2>4. HealthType'
    BY <1>9 DEF Rejected, HealthType, CleanUp
  <2>5. JobType' /\ FfType' /\ TickType' /\ ReqType' /\ ApiType'
    BY <1>9 DEF Rejected, CleanUp, JobType, FfType, TickType, ReqType, ApiType, ffVars,
           tickVars, reqVars, apiVars
  <2> QED BY <2>1, <2>2, <2>3, <2>4, <2>5
<1>10. ASSUME NEW c \in Cameras, Fail(c) PROVE TypeOK'
  <2>1. JobType'
    BY <1>10 DEF Fail, JobType, JobSlot, Stage
  <2>2. WorkType'
    BY <1>10 DEF Fail, WorkType, WorkerPc
  <2>3. DbType' /\ FfType' /\ SrsType' /\ HealthType' /\ TickType' /\ ReqType' /\ ApiType'
    BY <1>10 DEF Fail, DbType, FfType, SrsType, HealthType, TickType, ReqType, ApiType, dbVars,
           ffVars, srsVars, healthVars, tickVars, reqVars, apiVars
  <2> QED BY <2>1, <2>2, <2>3
<1>11. ASSUME NEW c \in Cameras, Finish(c) PROVE TypeOK'
  <2>1. JobType'
    BY <1>11 DEF Finish, JobType, JobSlot, NoJob
  <2>2. WorkType'
    BY <1>11 DEF Finish, WorkType, WorkerPc
  <2>3. DbType' /\ FfType' /\ SrsType' /\ HealthType' /\ TickType' /\ ReqType' /\ ApiType'
    BY <1>11 DEF Finish, DbType, FfType, SrsType, HealthType, TickType, ReqType, ApiType,
           dbVars, ffVars, srsVars, healthVars, tickVars, reqVars, apiVars
  <2> QED BY <2>1, <2>2, <2>3
<1>12. ASSUME NEW c \in Cameras, Stalled(c) PROVE TypeOK'
  <2>1. JobType'
    BY <1>12 DEF Stalled, JobType, JobSlot
  <2>2. DbType' /\ WorkType' /\ FfType' /\ SrsType' /\ HealthType' /\ TickType' /\ ReqType' /\ ApiType'
    BY <1>12 DEF Stalled, DbType, WorkType, FfType, SrsType, HealthType, TickType, ReqType,
           ApiType, dbVars, workVars, ffVars, srsVars, healthVars, tickVars, reqVars, apiVars
  <2> QED BY <2>1, <2>2
<1> HIDE DEF TypeOK
<1> QED
  BY <1>1, <1>2, <1>3, <1>4, <1>5, <1>6, <1>7, <1>8, <1>9, <1>10, <1>11, <1>12 DEF WorkerNext

\* No step of FFmpeg and SRS takes a variable out of its type.
LEMMA ChildKeepsTypes ==
  ASSUME TypeOK, ChildNext
  PROVE  TypeOK'
<1> USE StreamAssumption DEF TypeOK
<1>1. ASSUME NEW c \in Cameras, Publish(c) PROVE TypeOK'
  <2>1. FfType'
    BY <1>1 DEF Publish, FfType
  <2>2. SrsType'
    BY <1>1 DEF Publish, SrsType
  <2>3. DbType' /\ JobType' /\ WorkType' /\ HealthType' /\ TickType' /\ ReqType' /\ ApiType'
    BY <1>1 DEF Publish, DbType, JobType, WorkType, HealthType, TickType, ReqType, ApiType,
           dbVars, workVars, healthVars, tickVars, reqVars, apiVars
  <2> QED BY <2>1, <2>2, <2>3
<1>2. ASSUME NEW c \in Cameras, Crash(c) PROVE TypeOK'
  <2>1. WorkType'
    BY <1>2 DEF Crash, WorkType, WorkerPc
  <2>2. FfType'
    BY <1>2 DEF Crash, FfType, Gone
  <2>3. SrsType'
    BY <1>2 DEF Crash, SrsType, Gone, AfterExit
  <2>4. HealthType'
    BY <1>2 DEF Crash, HealthType, AfterCrash
  <2>5. DbType' /\ JobType' /\ TickType' /\ ReqType' /\ ApiType'
    BY <1>2 DEF Crash, DbType, JobType, TickType, ReqType, ApiType, dbVars, tickVars, reqVars,
           apiVars
  <2> QED BY <2>1, <2>2, <2>3, <2>4, <2>5
<1>3. ASSUME NEW c \in Cameras, End(c) PROVE TypeOK'
  <2>1. WorkType'
    BY <1>3 DEF End, WorkType, WorkerPc
  <2>2. FfType'
    BY <1>3 DEF End, FfType, Gone
  <2>3. SrsType'
    BY <1>3 DEF End, SrsType, Gone, AfterExit
  <2>4. DbType' /\ JobType' /\ HealthType' /\ TickType' /\ ReqType' /\ ApiType'
    BY <1>3 DEF End, DbType, JobType, HealthType, TickType, ReqType, ApiType, dbVars,
           healthVars, tickVars, reqVars, apiVars
  <2> QED BY <2>1, <2>2, <2>3, <2>4
<1>4. ASSUME NEW c \in Cameras, Stopped(c) PROVE TypeOK'
  <2>1. WorkType'
    BY <1>4 DEF Stopped, WorkType, WorkerPc
  <2>2. FfType'
    BY <1>4 DEF Stopped, FfType, Gone
  <2>3. SrsType'
    BY <1>4 DEF Stopped, SrsType, Gone, AfterExit
  <2>4. DbType' /\ JobType' /\ HealthType' /\ TickType' /\ ReqType' /\ ApiType'
    BY <1>4 DEF Stopped, DbType, JobType, HealthType, TickType, ReqType, ApiType, dbVars,
           healthVars, tickVars, reqVars, apiVars
  <2> QED BY <2>1, <2>2, <2>3, <2>4
<1>5. ASSUME NEW c \in Cameras, OnPublish(c) PROVE TypeOK'
  <2>1. DbType'
    BY <1>5 DEF OnPublish, DbType, Status, Transition
  <2>2. SrsType'
    BY <1>5 DEF OnPublish, SrsType
  <2>3. HealthType'
    BY <1>5 DEF OnPublish, HealthType, Transition
  <2>4. JobType' /\ WorkType' /\ FfType' /\ TickType' /\ ReqType' /\ ApiType'
    BY <1>5 DEF OnPublish, JobType, WorkType, FfType, TickType, ReqType, ApiType, workVars,
           ffVars, tickVars, reqVars, apiVars
  <2> QED BY <2>1, <2>2, <2>3, <2>4
<1>6. ASSUME NEW c \in Cameras, EncoderPublish(c) PROVE TypeOK'
  <2>1. SrsType'
    BY <1>6 DEF EncoderPublish, SrsType
  <2>2. DbType' /\ JobType' /\ WorkType' /\ FfType' /\ HealthType' /\ TickType' /\ ReqType' /\ ApiType'
    BY <1>6 DEF EncoderPublish, DbType, JobType, WorkType, FfType, HealthType, TickType,
           ReqType, ApiType, dbVars, workVars, ffVars, healthVars, tickVars, reqVars, apiVars
  <2> QED BY <2>1, <2>2
<1>7. ASSUME NEW c \in Cameras, EncoderGone(c) PROVE TypeOK'
  <2>1. SrsType'
    BY <1>7 DEF EncoderGone, SrsType
  <2>2. DbType' /\ JobType' /\ WorkType' /\ FfType' /\ HealthType' /\ TickType' /\ ReqType' /\ ApiType'
    BY <1>7 DEF EncoderGone, DbType, JobType, WorkType, FfType, HealthType, TickType, ReqType,
           ApiType, dbVars, workVars, ffVars, healthVars, tickVars, reqVars, apiVars
  <2> QED BY <2>1, <2>2
<1>8. ASSUME NEW c \in Cameras, PhantomExpires(c) PROVE TypeOK'
  <2>1. SrsType'
    BY <1>8 DEF PhantomExpires, SrsType
  <2>2. DbType' /\ JobType' /\ WorkType' /\ FfType' /\ HealthType' /\ TickType' /\ ReqType' /\ ApiType'
    BY <1>8 DEF PhantomExpires, DbType, JobType, WorkType, FfType, HealthType, TickType,
           ReqType, ApiType, dbVars, workVars, ffVars, healthVars, tickVars, reqVars, apiVars
  <2> QED BY <2>1, <2>2
<1>9. ASSUME SrsRestart PROVE TypeOK'
  <2>1. SrsType'
    BY <1>9 DEF SrsRestart, SrsType
  <2>2. TickType'
    BY <1>9 DEF SrsRestart, TickType, TickPc
  <2>3. DbType' /\ JobType' /\ WorkType' /\ FfType' /\ HealthType' /\ ReqType' /\ ApiType'
    BY <1>9 DEF SrsRestart, DbType, JobType, WorkType, FfType, HealthType, ReqType, ApiType,
           dbVars, workVars, ffVars, healthVars, reqVars, apiVars
  <2> QED BY <2>1, <2>2, <2>3
<1> HIDE DEF TypeOK
<1> QED
  BY <1>1, <1>2, <1>3, <1>4, <1>5, <1>6, <1>7, <1>8, <1>9 DEF ChildNext

\* No step of a request takes a variable out of its type.
LEMMA RequestKeepsTypes ==
  ASSUME TypeOK, RequestNext
  PROVE  TypeOK'
<1> USE StreamAssumption DEF TypeOK
<1>1. ASSUME NEW r \in Requests, NEW c \in Cameras, StartStream(r, c) PROVE TypeOK'
  <2>1. ReqType'
    BY <1>1 DEF StartStream, ReqType, RequestPc, StartPc, StopPc, MaintPc, ReloadPc, Begin,
           DbType
  <2>2. DbType' /\ JobType' /\ WorkType' /\ FfType' /\ SrsType' /\ HealthType' /\ TickType' /\ ApiType'
    BY <1>1 DEF StartStream, DbType, JobType, WorkType, FfType, SrsType, HealthType, TickType,
           ApiType, dbVars, workVars, ffVars, srsVars, healthVars, tickVars, apiVars
  <2> QED BY <2>1, <2>2
<1>2. ASSUME NEW r \in Requests, NEW c \in Cameras, OnPublishPush(r, c) PROVE TypeOK'
  <2>1. DbType'
    BY <1>2 DEF OnPublishPush, DbType, Status, Transition
  <2>2. HealthType'
    BY <1>2 DEF OnPublishPush, HealthType, Transition
  <2>3. ReqType'
    BY <1>2 DEF OnPublishPush, ReqType, RequestPc, StartPc, StopPc, MaintPc, ReloadPc, Begin
  <2>4. JobType' /\ WorkType' /\ FfType' /\ SrsType' /\ TickType' /\ ApiType'
    BY <1>2 DEF OnPublishPush, JobType, WorkType, FfType, SrsType, TickType, ApiType, workVars,
           ffVars, srsVars, tickVars, apiVars
  <2> QED BY <2>1, <2>2, <2>3, <2>4
<1>3. ASSUME NEW r \in Requests, StartRead(r) PROVE TypeOK'
  <2>1. ReqType'
    BY <1>3 DEF StartRead, ReqType, RequestPc, StartPc, StopPc, MaintPc, ReloadPc, Goto, DbType
  <2>2. DbType' /\ JobType' /\ WorkType' /\ FfType' /\ SrsType' /\ HealthType' /\ TickType' /\ ApiType'
    BY <1>3 DEF StartRead, DbType, JobType, WorkType, FfType, SrsType, HealthType, TickType,
           ApiType, dbVars, workVars, ffVars, srsVars, healthVars, tickVars, apiVars
  <2> QED BY <2>1, <2>2
<1>4. ASSUME NEW r \in Requests, StartRemove(r) PROVE TypeOK'
  <2>1. JobType'
    BY <1>4 DEF StartRemove, JobType, JobSlot, Remove, AfterRemove, NoJob, ReqType
  <2>2. ReqType'
    BY <1>4 DEF StartRemove, ReqType, RequestPc, StartPc, StopPc, MaintPc, ReloadPc, Goto
  <2>3. DbType' /\ WorkType' /\ FfType' /\ SrsType' /\ HealthType' /\ TickType' /\ ApiType'
    BY <1>4 DEF StartRemove, DbType, WorkType, FfType, SrsType, HealthType, TickType, ApiType,
           dbVars, workVars, ffVars, srsVars, healthVars, tickVars, apiVars
  <2> QED BY <2>1, <2>2, <2>3
<1>5. ASSUME NEW r \in Requests, StartAdd(r) PROVE TypeOK'
  <2>1. JobType'
    BY <1>5 DEF StartAdd, JobType, JobSlot, AfterAdd, ReqType
  <2>2. ReqType'
    BY <1>5 DEF StartAdd, ReqType, RequestPc, StartPc, StopPc, MaintPc, ReloadPc, End_
  <2>3. DbType' /\ WorkType' /\ FfType' /\ SrsType' /\ HealthType' /\ TickType' /\ ApiType'
    BY <1>5 DEF StartAdd, DbType, WorkType, FfType, SrsType, HealthType, TickType, ApiType,
           dbVars, workVars, ffVars, srsVars, healthVars, tickVars, apiVars
  <2> QED BY <2>1, <2>2, <2>3
<1>6. ASSUME NEW r \in Requests, NEW c \in Cameras, StopStream(r, c) PROVE TypeOK'
  <2>1. FfType'
    BY <1>6 DEF StopStream, FfType, AfterKill
  <2>2. ReqType'
    BY <1>6 DEF StopStream, ReqType, RequestPc, StartPc, StopPc, MaintPc, ReloadPc, Begin
  <2>3. DbType' /\ JobType' /\ WorkType' /\ SrsType' /\ HealthType' /\ TickType' /\ ApiType'
    BY <1>6 DEF StopStream, DbType, JobType, WorkType, SrsType, HealthType, TickType, ApiType,
           dbVars, workVars, srsVars, healthVars, tickVars, apiVars
  <2> QED BY <2>1, <2>2, <2>3
<1>7. ASSUME NEW r \in Requests, NEW c \in Cameras, EnterMaintenance(r, c) PROVE TypeOK'
  <2>1. DbType'
    BY <1>7 DEF EnterMaintenance, DbType, Status
  <2>2. ReqType'
    BY <1>7 DEF EnterMaintenance, ReqType, RequestPc, StartPc, StopPc, MaintPc, ReloadPc, Begin
  <2>3. JobType' /\ WorkType' /\ FfType' /\ SrsType' /\ HealthType' /\ TickType' /\ ApiType'
    BY <1>7 DEF EnterMaintenance, JobType, WorkType, FfType, SrsType, HealthType, TickType,
           ApiType, workVars, ffVars, srsVars, healthVars, tickVars, apiVars
  <2> QED BY <2>1, <2>2, <2>3
<1>8. ASSUME NEW r \in Requests, MaintKill(r) PROVE TypeOK'
  <2>1. FfType'
    BY <1>8 DEF MaintKill, FfType, AfterKill, ReqType
  <2>2. ReqType'
    BY <1>8 DEF MaintKill, ReqType, RequestPc, StartPc, StopPc, MaintPc, ReloadPc, Goto
  <2>3. DbType' /\ JobType' /\ WorkType' /\ SrsType' /\ HealthType' /\ TickType' /\ ApiType'
    BY <1>8 DEF MaintKill, DbType, JobType, WorkType, SrsType, HealthType, TickType, ApiType,
           dbVars, workVars, srsVars, healthVars, tickVars, apiVars
  <2> QED BY <2>1, <2>2, <2>3
<1>9. ASSUME NEW r \in Requests, StopRemove(r) PROVE TypeOK'
  <2>1. JobType'
    BY <1>9 DEF StopRemove, JobType, JobSlot, Remove, AfterRemove, NoJob, ReqType
  <2>2. ReqType'
    BY <1>9 DEF StopRemove, ReqType, RequestPc, StartPc, StopPc, MaintPc, ReloadPc, Goto
  <2>3. DbType' /\ WorkType' /\ FfType' /\ SrsType' /\ HealthType' /\ TickType' /\ ApiType'
    BY <1>9 DEF StopRemove, DbType, WorkType, FfType, SrsType, HealthType, TickType, ApiType,
           dbVars, workVars, ffVars, srsVars, healthVars, tickVars, apiVars
  <2> QED BY <2>1, <2>2, <2>3
<1>10. ASSUME NEW r \in Requests, StopOffline(r) PROVE TypeOK'
  <2>1. DbType'
    BY <1>10 DEF StopOffline, DbType, Status, Transition, ReqType
  <2>2. HealthType'
    BY <1>10 DEF StopOffline, HealthType, Transition, ReqType
  <2>3. ReqType'
    BY <1>10 DEF StopOffline, ReqType, RequestPc, StartPc, StopPc, MaintPc, ReloadPc, Goto
  <2>4. JobType' /\ WorkType' /\ FfType' /\ SrsType' /\ TickType' /\ ApiType'
    BY <1>10 DEF StopOffline, JobType, WorkType, FfType, SrsType, TickType, ApiType, workVars,
           ffVars, srsVars, tickVars, apiVars
  <2> QED BY <2>1, <2>2, <2>3, <2>4
<1>11. ASSUME NEW r \in Requests, ForceOffline(r) PROVE TypeOK'
  <2>1. DbType'
    BY <1>11 DEF ForceOffline, DbType, Status, ReqType
  <2>2. ReqType'
    BY <1>11 DEF ForceOffline, ReqType, RequestPc, StartPc, StopPc, MaintPc, ReloadPc, Goto
  <2>3. JobType' /\ WorkType' /\ FfType' /\ SrsType' /\ HealthType' /\ TickType' /\ ApiType'
    BY <1>11 DEF ForceOffline, JobType, WorkType, FfType, SrsType, HealthType, TickType,
           ApiType, workVars, ffVars, srsVars, healthVars, tickVars, apiVars
  <2> QED BY <2>1, <2>2, <2>3
<1>12. ASSUME NEW c \in Cameras, ExitMaintenance(c) PROVE TypeOK'
  <2>1. DbType'
    BY <1>12 DEF ExitMaintenance, DbType, Status
  <2>2. JobType' /\ WorkType' /\ FfType' /\ SrsType' /\ HealthType' /\ TickType' /\ ReqType' /\ ApiType'
    BY <1>12 DEF ExitMaintenance, JobType, WorkType, FfType, SrsType, HealthType, TickType,
           ReqType, ApiType, workVars, ffVars, srsVars, healthVars, tickVars, reqVars, apiVars
  <2> QED BY <2>1, <2>2
<1>13. ASSUME NEW r \in Requests, NEW c \in Cameras, NEW p \in Profiles, EditProfile(r, c, p) PROVE TypeOK'
  <2>1. DbType'
    BY <1>13 DEF EditProfile, DbType, Status
  <2>2. ReqType'
    BY <1>13 DEF EditProfile, ReqType, RequestPc, StartPc, StopPc, MaintPc, ReloadPc, Begin
  <2>3. JobType' /\ WorkType' /\ FfType' /\ SrsType' /\ HealthType' /\ TickType' /\ ApiType'
    BY <1>13 DEF EditProfile, JobType, WorkType, FfType, SrsType, HealthType, TickType, ApiType,
           workVars, ffVars, srsVars, healthVars, tickVars, apiVars
  <2> QED BY <2>1, <2>2, <2>3
<1>14. ASSUME NEW r \in Requests, ReloadList(r) PROVE TypeOK'
  <2>1. ReqType'
    BY <1>14 DEF ReloadList, ReqType, RequestPc, StartPc, StopPc, MaintPc, ReloadPc, Goto
  <2>2. DbType' /\ JobType' /\ WorkType' /\ FfType' /\ SrsType' /\ HealthType' /\ TickType' /\ ApiType'
    BY <1>14 DEF ReloadList, DbType, JobType, WorkType, FfType, SrsType, HealthType, TickType,
           ApiType, dbVars, workVars, ffVars, srsVars, healthVars, tickVars, apiVars
  <2> QED BY <2>1, <2>2
<1>15. ASSUME NEW r \in Requests, ReloadCheck(r) PROVE TypeOK'
  <2>1. ReqType'
    BY <1>15 DEF ReloadCheck, ReqType, RequestPc, StartPc, StopPc, MaintPc, ReloadPc, Goto,
           DbType
  <2>2. DbType' /\ JobType' /\ WorkType' /\ FfType' /\ SrsType' /\ HealthType' /\ TickType' /\ ApiType'
    BY <1>15 DEF ReloadCheck, DbType, JobType, WorkType, FfType, SrsType, HealthType, TickType,
           ApiType, dbVars, workVars, ffVars, srsVars, healthVars, tickVars, apiVars
  <2> QED BY <2>1, <2>2
<1>16. ASSUME NEW r \in Requests, ReloadSignal(r) PROVE TypeOK'
  <2>1. WorkType'
    BY <1>16 DEF ReloadSignal, WorkType, WorkerPc, ReqType
  <2>2. FfType'
    BY <1>16 DEF ReloadSignal, FfType, AfterKill, ReqType
  <2>3. ReqType'
    BY <1>16 DEF ReloadSignal, ReqType, RequestPc, StartPc, StopPc, MaintPc, ReloadPc, End_
  <2>4. DbType' /\ JobType' /\ SrsType' /\ HealthType' /\ TickType' /\ ApiType'
    BY <1>16 DEF ReloadSignal, DbType, JobType, SrsType, HealthType, TickType, ApiType, dbVars,
           srsVars, healthVars, tickVars, apiVars
  <2> QED BY <2>1, <2>2, <2>3, <2>4
<1>17. ASSUME NEW r \in Requests, ReloadRemove(r) PROVE TypeOK'
  <2>1. JobType'
    BY <1>17 DEF ReloadRemove, JobType, JobSlot, Remove, AfterRemove, NoJob, ReqType
  <2>2. ReqType'
    BY <1>17 DEF ReloadRemove, ReqType, RequestPc, StartPc, StopPc, MaintPc, ReloadPc, Goto
  <2>3. DbType' /\ WorkType' /\ FfType' /\ SrsType' /\ HealthType' /\ TickType' /\ ApiType'
    BY <1>17 DEF ReloadRemove, DbType, WorkType, FfType, SrsType, HealthType, TickType, ApiType,
           dbVars, workVars, ffVars, srsVars, healthVars, tickVars, apiVars
  <2> QED BY <2>1, <2>2, <2>3
<1>18. ASSUME NEW r \in Requests, ReloadAdd(r) PROVE TypeOK'
  <2>1. JobType'
    BY <1>18 DEF ReloadAdd, JobType, JobSlot, AfterAdd, ReqType
  <2>2. ReqType'
    BY <1>18 DEF ReloadAdd, ReqType, RequestPc, StartPc, StopPc, MaintPc, ReloadPc, End_
  <2>3. DbType' /\ WorkType' /\ FfType' /\ SrsType' /\ HealthType' /\ TickType' /\ ApiType'
    BY <1>18 DEF ReloadAdd, DbType, WorkType, FfType, SrsType, HealthType, TickType, ApiType,
           dbVars, workVars, ffVars, srsVars, healthVars, tickVars, apiVars
  <2> QED BY <2>1, <2>2, <2>3
<1> HIDE DEF TypeOK
<1> QED
  BY <1>1, <1>2, <1>3, <1>4, <1>5, <1>6, <1>7, <1>8, <1>9, <1>10, <1>11, <1>12, <1>13, <1>14,
         <1>15, <1>16, <1>17, <1>18 DEF RequestNext, RequestStep

\* No step of the health tick takes a variable out of its type.
LEMMA TickKeepsTypes ==
  ASSUME TypeOK, TickNext
  PROVE  TypeOK'
<1> USE StreamAssumption DEF TypeOK
<1>1. ASSUME DetectRestart PROVE TypeOK'
  <2>1. TickType'
    BY <1>1 DEF DetectRestart, TickType, TickPc, Rows, NoRow, Desired, DbType
  <2>2. DbType' /\ JobType' /\ WorkType' /\ FfType' /\ SrsType' /\ HealthType' /\ ReqType' /\ ApiType'
    BY <1>1 DEF DetectRestart, DbType, JobType, WorkType, FfType, SrsType, HealthType, ReqType,
           ApiType, dbVars, workVars, ffVars, srsVars, healthVars, reqVars, apiVars
  <2> QED BY <2>1, <2>2
<1>2. ASSUME NEW c \in Cameras, Requeue(c) PROVE TypeOK'
  <2>1. JobType'
    BY <1>2 DEF Requeue, JobType, JobSlot, AfterAdd, TickType
  <2>2. FfType'
    BY <1>2 DEF Requeue, FfType, AfterKill
  <2>3. TickType'
    BY <1>2 DEF Requeue, TickType, TickPc, NextCamera, NoRow
  <2>4. DbType' /\ WorkType' /\ SrsType' /\ HealthType' /\ ReqType' /\ ApiType'
    BY <1>2 DEF Requeue, DbType, WorkType, SrsType, HealthType, ReqType, ApiType, dbVars,
           workVars, srsVars, healthVars, reqVars, apiVars
  <2> QED BY <2>1, <2>2, <2>3, <2>4
<1>3. ASSUME List PROVE TypeOK'
  <2>1. TickType'
    BY <1>3 DEF List, TickType, TickPc, Rows, NoRow, Desired, DbType
  <2>2. DbType' /\ JobType' /\ WorkType' /\ FfType' /\ SrsType' /\ HealthType' /\ ReqType' /\ ApiType'
    BY <1>3 DEF List, DbType, JobType, WorkType, FfType, SrsType, HealthType, ReqType, ApiType,
           dbVars, workVars, ffVars, srsVars, healthVars, reqVars, apiVars
  <2> QED BY <2>1, <2>2
<1>4. ASSUME ProbeAnswers PROVE TypeOK'
  <2>1. TickType'
    BY <1>4 DEF ProbeAnswers, TickType, TickPc, AfterProbe
  <2>2. DbType' /\ JobType' /\ WorkType' /\ FfType' /\ SrsType' /\ HealthType' /\ ReqType' /\ ApiType'
    BY <1>4 DEF ProbeAnswers, DbType, JobType, WorkType, FfType, SrsType, HealthType, ReqType,
           ApiType, dbVars, workVars, ffVars, srsVars, healthVars, reqVars, apiVars
  <2> QED BY <2>1, <2>2
<1>5. ASSUME ProbeCached PROVE TypeOK'
  <2>1. TickType'
    BY <1>5 DEF ProbeCached, TickType, TickPc, AfterProbe
  <2>2. DbType' /\ JobType' /\ WorkType' /\ FfType' /\ SrsType' /\ HealthType' /\ ReqType' /\ ApiType'
    BY <1>5 DEF ProbeCached, DbType, JobType, WorkType, FfType, SrsType, HealthType, ReqType,
           ApiType, dbVars, workVars, ffVars, srsVars, healthVars, reqVars, apiVars
  <2> QED BY <2>1, <2>2
<1>6. ASSUME ProbeSkipped PROVE TypeOK'
  <2>1. TickType'
    BY <1>6 DEF ProbeSkipped, TickType, TickPc, Rows, NoRow
  <2>2. DbType' /\ JobType' /\ WorkType' /\ FfType' /\ SrsType' /\ HealthType' /\ ReqType' /\ ApiType'
    BY <1>6 DEF ProbeSkipped, DbType, JobType, WorkType, FfType, SrsType, HealthType, ReqType,
           ApiType, dbVars, workVars, ffVars, srsVars, healthVars, reqVars, apiVars
  <2> QED BY <2>1, <2>2
<1>7. ASSUME NEW c \in Cameras, ScanDegraded(c) PROVE TypeOK'
  <2>1. TickType'
    BY <1>7 DEF ScanDegraded, TickType, TickPc, NextCamera, NoRow
  <2>2. DbType' /\ JobType' /\ WorkType' /\ FfType' /\ SrsType' /\ HealthType' /\ ReqType' /\ ApiType'
    BY <1>7 DEF ScanDegraded, DbType, JobType, WorkType, FfType, SrsType, HealthType, ReqType,
           ApiType, dbVars, workVars, ffVars, srsVars, healthVars, reqVars, apiVars
  <2> QED BY <2>1, <2>2
<1>8. ASSUME NEW c \in Cameras, ScanAlive(c) PROVE TypeOK'
  <2>1. HealthType'
    BY <1>8 DEF ScanAlive, HealthType, Tolerances
  <2>2. TickType'
    BY <1>8 DEF ScanAlive, TickType, TickPc, NextCamera, NoRow, Counted, Missed
  <2>3. DbType' /\ JobType' /\ WorkType' /\ FfType' /\ SrsType' /\ ReqType' /\ ApiType'
    BY <1>8 DEF ScanAlive, DbType, JobType, WorkType, FfType, SrsType, ReqType, ApiType, dbVars,
           workVars, ffVars, srsVars, reqVars, apiVars
  <2> QED BY <2>1, <2>2, <2>3
<1>9. ASSUME NEW c \in Cameras, ScanEncoderGone(c) PROVE TypeOK'
  <2>1. DbType'
    BY <1>9 DEF ScanEncoderGone, DbType, Status, Transition
  <2>2. HealthType'
    BY <1>9 DEF ScanEncoderGone, HealthType, Tolerances, Bumped, Transition
  <2>3. TickType'
    BY <1>9 DEF ScanEncoderGone, TickType, TickPc, NextCamera, NoRow, Counted, Missed
  <2>4. JobType' /\ WorkType' /\ FfType' /\ SrsType' /\ ReqType' /\ ApiType'
    BY <1>9 DEF ScanEncoderGone, JobType, WorkType, FfType, SrsType, ReqType, ApiType, workVars,
           ffVars, srsVars, reqVars, apiVars
  <2> QED BY <2>1, <2>2, <2>3, <2>4
<1>10. ASSUME NEW c \in Cameras, ScanDead(c) PROVE TypeOK'
  <2>1. FfType'
    BY <1>10 DEF ScanDead, FfType, AfterKill
  <2>2. HealthType'
    BY <1>10 DEF ScanDead, HealthType, Tolerances, Bumped
  <2>3. TickType'
    BY <1>10 DEF ScanDead, TickType, TickPc, Counted, Missed, Scanning
  <2>4. DbType' /\ JobType' /\ WorkType' /\ SrsType' /\ ReqType' /\ ApiType'
    BY <1>10 DEF ScanDead, DbType, JobType, WorkType, SrsType, ReqType, ApiType, dbVars,
           workVars, srsVars, reqVars, apiVars
  <2> QED BY <2>1, <2>2, <2>3, <2>4
<1>11. ASSUME NEW c \in Cameras, Reconnect(c) PROVE TypeOK'
  <2>1. DbType'
    BY <1>11 DEF Reconnect, DbType, Status, Transition
  <2>2. HealthType'
    BY <1>11 DEF Reconnect, HealthType, Transition
  <2>3. TickType'
    BY <1>11 DEF Reconnect, TickType, TickPc
  <2>4. JobType' /\ WorkType' /\ FfType' /\ SrsType' /\ ReqType' /\ ApiType'
    BY <1>11 DEF Reconnect, JobType, WorkType, FfType, SrsType, ReqType, ApiType, workVars,
           ffVars, srsVars, reqVars, apiVars
  <2> QED BY <2>1, <2>2, <2>3, <2>4
<1>12. ASSUME NEW c \in Cameras, KeepRestart(c) PROVE TypeOK'
  <2>1. TickType'
    BY <1>12 DEF KeepRestart, TickType, TickPc, NextCamera, NoRow
  <2>2. DbType' /\ JobType' /\ WorkType' /\ FfType' /\ SrsType' /\ HealthType' /\ ReqType' /\ ApiType'
    BY <1>12 DEF KeepRestart, DbType, JobType, WorkType, FfType, SrsType, HealthType, ReqType,
           ApiType, dbVars, workVars, ffVars, srsVars, healthVars, reqVars, apiVars
  <2> QED BY <2>1, <2>2
<1>13. ASSUME NEW c \in Cameras, CheckJob(c) PROVE TypeOK'
  <2>1. TickType'
    BY <1>13 DEF CheckJob, TickType, TickPc
  <2>2. DbType' /\ JobType' /\ WorkType' /\ FfType' /\ SrsType' /\ HealthType' /\ ReqType' /\ ApiType'
    BY <1>13 DEF CheckJob, DbType, JobType, WorkType, FfType, SrsType, HealthType, ReqType,
           ApiType, dbVars, workVars, ffVars, srsVars, healthVars, reqVars, apiVars
  <2> QED BY <2>1, <2>2
<1>14. ASSUME NEW c \in Cameras, RemoveStuck(c) PROVE TypeOK'
  <2>1. JobType'
    BY <1>14 DEF RemoveStuck, JobType, JobSlot, AfterRemove, NoJob
  <2>2. TickType'
    BY <1>14 DEF RemoveStuck, TickType, TickPc
  <2>3. DbType' /\ WorkType' /\ FfType' /\ SrsType' /\ HealthType' /\ ReqType' /\ ApiType'
    BY <1>14 DEF RemoveStuck, DbType, WorkType, FfType, SrsType, HealthType, ReqType, ApiType,
           dbVars, workVars, ffVars, srsVars, healthVars, reqVars, apiVars
  <2> QED BY <2>1, <2>2, <2>3
<1>15. ASSUME NEW c \in Cameras, EnqueueStart(c) PROVE TypeOK'
  <2>1. JobType'
    BY <1>15 DEF EnqueueStart, JobType, JobSlot, AfterAdd, TickType
  <2>2. TickType'
    BY <1>15 DEF EnqueueStart, TickType, TickPc, NextCamera, NoRow
  <2>3. DbType' /\ WorkType' /\ FfType' /\ SrsType' /\ HealthType' /\ ReqType' /\ ApiType'
    BY <1>15 DEF EnqueueStart, DbType, WorkType, FfType, SrsType, HealthType, ReqType, ApiType,
           dbVars, workVars, ffVars, srsVars, healthVars, reqVars, apiVars
  <2> QED BY <2>1, <2>2, <2>3
<1> HIDE DEF TypeOK
<1> QED
  BY <1>1, <1>2, <1>3, <1>4, <1>5, <1>6, <1>7, <1>8, <1>9, <1>10, <1>11, <1>12, <1>13, <1>14,
         <1>15 DEF TickNext, ScanStep

\* No step of the API process takes a variable out of its type.
LEMMA ApiKeepsTypes ==
  ASSUME TypeOK, ApiNext
  PROVE  TypeOK'
<1> USE StreamAssumption DEF TypeOK
<1>1. ASSUME PowerLoss PROVE TypeOK'
  <2>1. WorkType'
    BY <1>1 DEF PowerLoss, WorkType, WorkerPc, Die
  <2>2. FfType'
    BY <1>1 DEF PowerLoss, FfType, Die
  <2>3. SrsType'
    BY <1>1 DEF PowerLoss, SrsType, Die
  <2>4. HealthType'
    BY <1>1 DEF PowerLoss, HealthType, Die
  <2>5. TickType'
    BY <1>1 DEF PowerLoss, TickType, TickPc, Die
  <2>6. ReqType'
    BY <1>1 DEF PowerLoss, ReqType, RequestPc, StartPc, StopPc, MaintPc, ReloadPc, Die
  <2>7. ApiType'
    BY <1>1 DEF PowerLoss, ApiType, Die
  <2>8. DbType' /\ JobType'
    BY <1>1 DEF PowerLoss, Die, DbType, JobType, dbVars
  <2> QED BY <2>1, <2>2, <2>3, <2>4, <2>5, <2>6, <2>7, <2>8
<1>2. ASSUME Shutdown PROVE TypeOK'
  <2>1. FfType'
    BY <1>2 DEF Shutdown, FfType, AfterKill
  <2>2. ApiType'
    BY <1>2 DEF Shutdown, ApiType
  <2>3. DbType' /\ JobType' /\ WorkType' /\ SrsType' /\ HealthType' /\ TickType' /\ ReqType'
    BY <1>2 DEF Shutdown, DbType, JobType, WorkType, SrsType, HealthType, TickType, ReqType,
           dbVars, workVars, srsVars, healthVars, tickVars, reqVars
  <2> QED BY <2>1, <2>2, <2>3
<1>3. ASSUME Exit PROVE TypeOK'
  <2>1. WorkType'
    BY <1>3 DEF Exit, WorkType, WorkerPc, Die
  <2>2. FfType'
    BY <1>3 DEF Exit, FfType, Die
  <2>3. SrsType'
    BY <1>3 DEF Exit, SrsType, Die
  <2>4. HealthType'
    BY <1>3 DEF Exit, HealthType, Die
  <2>5. TickType'
    BY <1>3 DEF Exit, TickType, TickPc, Die
  <2>6. ReqType'
    BY <1>3 DEF Exit, ReqType, RequestPc, StartPc, StopPc, MaintPc, ReloadPc, Die
  <2>7. ApiType'
    BY <1>3 DEF Exit, ApiType, Die
  <2>8. DbType' /\ JobType'
    BY <1>3 DEF Exit, Die, DbType, JobType, dbVars
  <2> QED BY <2>1, <2>2, <2>3, <2>4, <2>5, <2>6, <2>7, <2>8
<1>4. ASSUME Boot PROVE TypeOK'
  <2>1. SrsType'
    BY <1>4 DEF Boot, SrsType
  <2>2. ApiType'
    BY <1>4 DEF Boot, ApiType, Desired
  <2>3. DbType' /\ JobType' /\ WorkType' /\ FfType' /\ HealthType' /\ TickType' /\ ReqType'
    BY <1>4 DEF Boot, DbType, JobType, WorkType, FfType, HealthType, TickType, ReqType, dbVars,
           workVars, ffVars, healthVars, tickVars, reqVars
  <2> QED BY <2>1, <2>2, <2>3
<1>5. ASSUME NEW c \in Cameras, BootEnqueue(c) PROVE TypeOK'
  <2>1. JobType'
    BY <1>5 DEF BootEnqueue, JobType, JobSlot, AfterAdd, DbType
  <2>2. ApiType'
    BY <1>5 DEF BootEnqueue, ApiType
  <2>3. DbType' /\ WorkType' /\ FfType' /\ SrsType' /\ HealthType' /\ TickType' /\ ReqType'
    BY <1>5 DEF BootEnqueue, DbType, WorkType, FfType, SrsType, HealthType, TickType, ReqType,
           dbVars, workVars, ffVars, srsVars, healthVars, tickVars, reqVars
  <2> QED BY <2>1, <2>2, <2>3
<1>6. ASSUME Listen PROVE TypeOK'
  <2>1. ApiType'
    BY <1>6 DEF Listen, ApiType
  <2>2. DbType' /\ JobType' /\ WorkType' /\ FfType' /\ SrsType' /\ HealthType' /\ TickType' /\ ReqType'
    BY <1>6 DEF Listen, DbType, JobType, WorkType, FfType, SrsType, HealthType, TickType,
           ReqType, dbVars, workVars, ffVars, srsVars, healthVars, tickVars, reqVars
  <2> QED BY <2>1, <2>2
<1> HIDE DEF TypeOK
<1> QED
  BY <1>1, <1>2, <1>3, <1>4, <1>5, <1>6 DEF ApiNext
-----------------------------------------------------------------------------
(* The stage of each camera *)

\* No step of the worker breaks the stage of any camera d.
LEMMA WorkerKeepsStage ==
  ASSUME IInv, WorkerNext, NEW d \in Cameras
  PROVE  Stage(d)'
<1> USE StreamAssumption DEF IInv, TypeOK, Stage, PassThrough
<1>1. ASSUME NEW c \in Cameras, Pick(c) PROVE Stage(d)'
  BY <1>1 DEF Pick, JobType, WorkType, dbVars, ffVars, healthVars
<1>2. ASSUME NEW c \in Cameras, GuardRefuse(c) PROVE Stage(d)'
  BY <1>2 DEF GuardRefuse, Refused, Transition, Accepts, Status, DbType, WorkType, HealthType,
         dbVars, ffVars, healthVars
<1>3. ASSUME NEW c \in Cameras, GuardPass(c) PROVE Stage(d)'
  BY <1>3 DEF GuardPass, Refused, WorkType, dbVars, ffVars, healthVars
<1>4. ASSUME NEW c \in Cameras, SafetyNet(c) PROVE Stage(d)'
  BY <1>4 DEF SafetyNet, AfterKill, WorkType, FfType, dbVars, healthVars
<1>5. ASSUME NEW c \in Cameras, Branch(c) PROVE Stage(d)'
  BY <1>5 DEF Branch, Transition, Accepts, AfterKill, DbType, WorkType, FfType, HealthType,
         dbVars, healthVars
<1>6. ASSUME NEW c \in Cameras, Spawn(c) PROVE Stage(d)'
  BY <1>6 DEF Spawn, WorkType, FfType, dbVars, healthVars, ffVars
<1>7. ASSUME NEW c \in Cameras, OpenBreaker(c) PROVE Stage(d)'
  BY <1>7 DEF OpenBreaker, WorkType, HealthType, dbVars, ffVars, healthVars
<1>8. ASSUME NEW c \in Cameras, TellDegraded(c) PROVE Stage(d)'
  BY <1>8 DEF TellDegraded, Transition, Accepts, ValidTransitions, CleanUp, Status, DbType,
         WorkType, HealthType, dbVars, ffVars, healthVars
<1>9. ASSUME NEW c \in Cameras, Rejected(c) PROVE Stage(d)'
  BY <1>9 DEF Rejected, CleanUp, DbType, WorkType, HealthType, dbVars, ffVars, healthVars
<1>10. ASSUME NEW c \in Cameras, Fail(c) PROVE Stage(d)'
  BY <1>10 DEF Fail, JobType, WorkType, JobSlot, dbVars, ffVars, healthVars
<1>11. ASSUME NEW c \in Cameras, Finish(c) PROVE Stage(d)'
  BY <1>11 DEF Finish, NoJob, JobType, WorkType, dbVars, ffVars, healthVars
<1>12. ASSUME NEW c \in Cameras, Stalled(c) PROVE Stage(d)'
  BY <1>12 DEF Stalled, JobType, JobSlot, dbVars, workVars, ffVars, healthVars
<1> HIDE DEF IInv, TypeOK, Stage
<1> QED
  BY <1>1, <1>2, <1>3, <1>4, <1>5, <1>6, <1>7, <1>8, <1>9, <1>10, <1>11, <1>12 DEF WorkerNext

\* No step of FFmpeg and SRS breaks the stage of any camera d.
LEMMA ChildKeepsStage ==
  ASSUME IInv, ChildNext, NEW d \in Cameras
  PROVE  Stage(d)'
<1> USE StreamAssumption DEF IInv, TypeOK, Stage, PassThrough
<1>1. ASSUME NEW c \in Cameras, Publish(c) PROVE Stage(d)'
  BY <1>1 DEF Publish, FfType, dbVars, workVars, healthVars
<1>2. ASSUME NEW c \in Cameras, Crash(c) PROVE Stage(d)'
  BY <1>2 DEF Crash, Gone, WorkType, FfType, HealthType, dbVars, healthVars
<1>3. ASSUME NEW c \in Cameras, End(c) PROVE Stage(d)'
  BY <1>3 DEF End, Gone, WorkType, FfType, dbVars, healthVars
<1>4. ASSUME NEW c \in Cameras, Stopped(c) PROVE Stage(d)'
  BY <1>4 DEF Stopped, Gone, WorkType, FfType, dbVars, healthVars
<1>5. ASSUME NEW c \in Cameras, OnPublish(c) PROVE Stage(d)'
  BY <1>5 DEF OnPublish, Transition, Accepts, DbType, HealthType, dbVars, workVars, ffVars,
         healthVars
<1>6. ASSUME NEW c \in Cameras, EncoderPublish(c) PROVE Stage(d)'
  BY <1>6 DEF EncoderPublish, dbVars, workVars, ffVars, healthVars
<1>7. ASSUME NEW c \in Cameras, EncoderGone(c) PROVE Stage(d)'
  BY <1>7 DEF EncoderGone, dbVars, workVars, ffVars, healthVars
<1>8. ASSUME NEW c \in Cameras, PhantomExpires(c) PROVE Stage(d)'
  BY <1>8 DEF PhantomExpires, dbVars, workVars, ffVars, healthVars
<1>9. ASSUME SrsRestart PROVE Stage(d)'
  BY <1>9 DEF SrsRestart, dbVars, workVars, ffVars, healthVars
<1> HIDE DEF IInv, TypeOK, Stage
<1> QED
  BY <1>1, <1>2, <1>3, <1>4, <1>5, <1>6, <1>7, <1>8, <1>9 DEF ChildNext

\* No step of a request breaks the stage of any camera d.
LEMMA RequestKeepsStage ==
  ASSUME IInv, RequestNext, NEW d \in Cameras
  PROVE  Stage(d)'
<1> USE StreamAssumption DEF IInv, TypeOK, Stage, PassThrough
<1>1. ASSUME NEW r \in Requests, NEW c \in Cameras, StartStream(r, c) PROVE Stage(d)'
  BY <1>1 DEF StartStream, dbVars, workVars, ffVars, healthVars
<1>2. ASSUME NEW r \in Requests, NEW c \in Cameras, OnPublishPush(r, c) PROVE Stage(d)'
  BY <1>2 DEF OnPublishPush, Transition, Accepts, Begin, DbType, HealthType, dbVars, workVars,
         ffVars, healthVars
<1>3. ASSUME NEW r \in Requests, StartRead(r) PROVE Stage(d)'
  BY <1>3 DEF StartRead, dbVars, workVars, ffVars, healthVars
<1>4. ASSUME NEW r \in Requests, StartRemove(r) PROVE Stage(d)'
  BY <1>4 DEF StartRemove, Remove, AfterRemove, NoJob, JobType, ReqType, dbVars, workVars,
         ffVars, healthVars
<1>5. ASSUME NEW r \in Requests, StartAdd(r) PROVE Stage(d)'
  BY <1>5 DEF StartAdd, AfterAdd, JobType, ReqType, JobSlot, dbVars, workVars, ffVars,
         healthVars
<1>6. ASSUME NEW r \in Requests, NEW c \in Cameras, StopStream(r, c) PROVE Stage(d)'
  BY <1>6 DEF StopStream, AfterKill, Begin, FfType, dbVars, workVars, healthVars
<1>7. ASSUME NEW r \in Requests, NEW c \in Cameras, EnterMaintenance(r, c) PROVE Stage(d)'
  BY <1>7 DEF EnterMaintenance, DbType, dbVars, workVars, ffVars, healthVars
<1>8. ASSUME NEW r \in Requests, MaintKill(r) PROVE Stage(d)'
  BY <1>8 DEF MaintKill, AfterKill, FfType, ReqType, dbVars, workVars, healthVars
<1>9. ASSUME NEW r \in Requests, StopRemove(r) PROVE Stage(d)'
  BY <1>9 DEF StopRemove, Remove, AfterRemove, NoJob, JobType, ReqType, dbVars, workVars,
         ffVars, healthVars
<1>10. ASSUME NEW r \in Requests, StopOffline(r) PROVE Stage(d)'
  BY <1>10 DEF StopOffline, Transition, Accepts, DbType, HealthType, ReqType, dbVars, workVars,
         ffVars, healthVars
<1>11. ASSUME NEW r \in Requests, ForceOffline(r) PROVE Stage(d)'
  BY <1>11 DEF ForceOffline, DbType, ReqType, dbVars, workVars, ffVars, healthVars
<1>12. ASSUME NEW c \in Cameras, ExitMaintenance(c) PROVE Stage(d)'
  BY <1>12 DEF ExitMaintenance, DbType, dbVars, workVars, ffVars, healthVars
<1>13. ASSUME NEW r \in Requests, NEW c \in Cameras, NEW p \in Profiles, EditProfile(r, c, p) PROVE Stage(d)'
  BY <1>13 DEF EditProfile, DbType, dbVars, workVars, ffVars, healthVars
<1>14. ASSUME NEW r \in Requests, ReloadList(r) PROVE Stage(d)'
  BY <1>14 DEF ReloadList, dbVars, workVars, ffVars, healthVars
<1>15. ASSUME NEW r \in Requests, ReloadCheck(r) PROVE Stage(d)'
  BY <1>15 DEF ReloadCheck, dbVars, workVars, ffVars, healthVars
<1>16. ASSUME NEW r \in Requests, ReloadSignal(r) PROVE Stage(d)'
  BY <1>16 DEF ReloadSignal, AfterKill, WorkType, FfType, ReqType, dbVars, healthVars
<1>17. ASSUME NEW r \in Requests, ReloadRemove(r) PROVE Stage(d)'
  BY <1>17 DEF ReloadRemove, Remove, AfterRemove, NoJob, JobType, ReqType, dbVars, workVars,
         ffVars, healthVars
<1>18. ASSUME NEW r \in Requests, ReloadAdd(r) PROVE Stage(d)'
  BY <1>18 DEF ReloadAdd, AfterAdd, JobType, ReqType, dbVars, workVars, ffVars, healthVars
<1> HIDE DEF IInv, TypeOK, Stage
<1> QED
  BY <1>1, <1>2, <1>3, <1>4, <1>5, <1>6, <1>7, <1>8, <1>9, <1>10, <1>11, <1>12, <1>13, <1>14,
         <1>15, <1>16, <1>17, <1>18 DEF RequestNext, RequestStep

\* No step of the health tick breaks the stage of any camera d.
LEMMA TickKeepsStage ==
  ASSUME IInv, TickNext, NEW d \in Cameras
  PROVE  Stage(d)'
<1> USE StreamAssumption DEF IInv, TypeOK, Stage, PassThrough
<1>1. ASSUME DetectRestart PROVE Stage(d)'
  BY <1>1 DEF DetectRestart, dbVars, workVars, ffVars, healthVars
<1>2. ASSUME NEW c \in Cameras, Requeue(c) PROVE Stage(d)'
  BY <1>2 DEF Requeue, AfterAdd, AfterKill, JobType, FfType, dbVars, workVars, healthVars
<1>3. ASSUME List PROVE Stage(d)'
  BY <1>3 DEF List, dbVars, workVars, ffVars, healthVars
<1>4. ASSUME ProbeAnswers PROVE Stage(d)'
  BY <1>4 DEF ProbeAnswers, dbVars, workVars, ffVars, healthVars
<1>5. ASSUME ProbeCached PROVE Stage(d)'
  BY <1>5 DEF ProbeCached, dbVars, workVars, ffVars, healthVars
<1>6. ASSUME ProbeSkipped PROVE Stage(d)'
  BY <1>6 DEF ProbeSkipped, dbVars, workVars, ffVars, healthVars
<1>7. ASSUME NEW c \in Cameras, ScanDegraded(c) PROVE Stage(d)'
  BY <1>7 DEF ScanDegraded, dbVars, workVars, ffVars, healthVars
<1>8. ASSUME NEW c \in Cameras, ScanAlive(c) PROVE Stage(d)'
  BY <1>8 DEF ScanAlive, HealthType, dbVars, workVars, ffVars, healthVars
<1>9. ASSUME NEW c \in Cameras, ScanEncoderGone(c) PROVE Stage(d)'
  BY <1>9 DEF ScanEncoderGone, Transition, Accepts, DbType, HealthType, dbVars, workVars,
         ffVars, healthVars
<1>10. ASSUME NEW c \in Cameras, ScanDead(c) PROVE Stage(d)'
  BY <1>10 DEF ScanDead, AfterKill, FfType, HealthType, dbVars, workVars, healthVars
<1>11. ASSUME NEW c \in Cameras, Reconnect(c) PROVE Stage(d)'
  BY <1>11 DEF Reconnect, Transition, Accepts, DbType, HealthType, dbVars, workVars, ffVars,
         healthVars
<1>12. ASSUME NEW c \in Cameras, KeepRestart(c) PROVE Stage(d)'
  BY <1>12 DEF KeepRestart, dbVars, workVars, ffVars, healthVars
<1>13. ASSUME NEW c \in Cameras, CheckJob(c) PROVE Stage(d)'
  BY <1>13 DEF CheckJob, dbVars, workVars, ffVars, healthVars
<1>14. ASSUME NEW c \in Cameras, RemoveStuck(c) PROVE Stage(d)'
  BY <1>14 DEF RemoveStuck, AfterRemove, NoJob, JobType, dbVars, workVars, ffVars, healthVars
<1>15. ASSUME NEW c \in Cameras, EnqueueStart(c) PROVE Stage(d)'
  BY <1>15 DEF EnqueueStart, AfterAdd, JobType, dbVars, workVars, ffVars, healthVars
<1> HIDE DEF IInv, TypeOK, Stage
<1> QED
  BY <1>1, <1>2, <1>3, <1>4, <1>5, <1>6, <1>7, <1>8, <1>9, <1>10, <1>11, <1>12, <1>13, <1>14,
         <1>15 DEF TickNext, ScanStep

\* No step of the API process breaks the stage of any camera d.
LEMMA ApiKeepsStage ==
  ASSUME IInv, ApiNext, NEW d \in Cameras
  PROVE  Stage(d)'
<1> USE StreamAssumption DEF IInv, TypeOK, Stage, PassThrough
<1>1. ASSUME PowerLoss PROVE Stage(d)'
  BY <1>1 DEF PowerLoss, Die, WorkType, FfType, HealthType, dbVars, healthVars
<1>2. ASSUME Shutdown PROVE Stage(d)'
  BY <1>2 DEF Shutdown, AfterKill, FfType, dbVars, workVars, healthVars
<1>3. ASSUME Exit PROVE Stage(d)'
  BY <1>3 DEF Exit, Die, WorkType, FfType, HealthType, dbVars, healthVars
<1>4. ASSUME Boot PROVE Stage(d)'
  BY <1>4 DEF Boot, dbVars, workVars, ffVars, healthVars
<1>5. ASSUME NEW c \in Cameras, BootEnqueue(c) PROVE Stage(d)'
  BY <1>5 DEF BootEnqueue, AfterAdd, JobType, JobSlot, dbVars, workVars, ffVars, healthVars
<1>6. ASSUME Listen PROVE Stage(d)'
  BY <1>6 DEF Listen, dbVars, workVars, ffVars, healthVars
<1> HIDE DEF IInv, TypeOK, Stage
<1> QED
  BY <1>1, <1>2, <1>3, <1>4, <1>5, <1>6 DEF ApiNext
-----------------------------------------------------------------------------
\* IInv holds when the API boots, whatever rows and jobs it finds.
LEMMA InitIInv == Init => IInv
<1> SUFFICES ASSUME Init PROVE IInv OBVIOUS
<1> USE StreamAssumption
<1>1. DbType /\ WorkType /\ FfType /\ SrsType /\ HealthType
  BY DEF Init, DbType, WorkType, WorkerPc, FfType, SrsType, HealthType
<1>2. JobType
  BY DEF Init, JobType, JobSlot, Leftover, NoJob
<1>3. TickType /\ ReqType /\ ApiType
  BY DEF Init, TickType, TickPc, Rows, NoRow, NoCache, ReqType, RequestPc, ApiType, Desired
<1>4. \A c \in Cameras : Stage(c)
  BY DEF Init, Stage, Leftover, NoJob
<1> QED BY <1>1, <1>2, <1>3, <1>4 DEF IInv, TypeOK

\* and every step keeps it.
LEMMA NextIInv == IInv /\ [Next]_vars => IInv'
<1> SUFFICES ASSUME IInv, [Next]_vars PROVE IInv' OBVIOUS
<1>1. TypeOK BY DEF IInv
<1>2. CASE WorkerNext
  BY <1>2, WorkerKeepsTypes, WorkerKeepsStage DEF IInv
<1>3. CASE ChildNext
  BY <1>1, <1>3, ChildKeepsTypes, ChildKeepsStage DEF IInv
<1>4. CASE RequestNext
  BY <1>1, <1>4, RequestKeepsTypes, RequestKeepsStage DEF IInv
<1>5. CASE TickNext
  BY <1>1, <1>5, TickKeepsTypes, TickKeepsStage DEF IInv
<1>6. CASE ApiNext
  BY <1>1, <1>6, ApiKeepsTypes, ApiKeepsStage DEF IInv
<1>7. CASE UNCHANGED vars
  <2>1. TypeOK'
    BY <1>1, <1>7 DEF vars, TypeOK, DbType, JobType, WorkType, FfType, SrsType, HealthType, TickType,
           ReqType, ApiType, dbVars, workVars, ffVars, srsVars, healthVars, tickVars, reqVars, apiVars
  <2>2. \A c \in Cameras : Stage(c)'
    BY <1>7 DEF IInv, Stage, PassThrough, vars, dbVars, workVars, ffVars, healthVars
  <2> QED BY <2>1, <2>2 DEF IInv
<1> QED BY <1>2, <1>3, <1>4, <1>5, <1>6, <1>7 DEF Next

\* So it holds in every state of every behaviour.
THEOREM Inductive == Spec => []IInv
BY InitIInv, NextIInv, PTL DEF Spec

\* Every variable stays in its type, and attempts, fast exits, tolerances and
\* misses stay within the limits the code sets them.
THEOREM TypeCorrect == Spec => []TypeOK
BY Inductive, PTL DEF IInv

\* A child always has the worker that awaits it, and that worker the active job:
\* to kill the child is to release the job.
THEOREM KillAlwaysReleases == Spec => []KillReleasesJob
<1>1. IInv => KillReleasesJob BY DEF IInv, Stage, KillReleasesJob
<1> QED BY <1>1, Inductive, PTL

\* An open breaker shows in the camera's row.
THEOREM BreakerAlwaysShows == Spec => []BreakerShows
<1>1. IInv => BreakerShows BY DEF IInv, Stage, BreakerShows
<1> QED BY <1>1, Inductive, PTL

\* FFmpeg never runs for a camera that SRS forwards.
THEOREM PassThroughAlwaysSpared == Spec => []PassThroughSpared
<1>1. IInv => PassThroughSpared BY DEF IInv, Stage, PassThroughSpared
<1> QED BY <1>1, Inductive, PTL

-----------------------------------------------------------------------------
(* The circuit breaker *)

BreakerKept(d) ==
  /\ ~(ff[d] = "none" /\ ff'[d] = "starting")
  /\ degraded'[d] \/ pc'[d] = pc[d] \/ api' = "down"

\* No step of the worker spawns for a camera d whose breaker is open, and none that
\* moves d's worker closes it.
LEMMA WorkerKeepsBreaker ==
  ASSUME IInv, NEW d \in Cameras, degraded[d], WorkerNext
  PROVE  BreakerKept(d)
<1> USE StreamAssumption DEF IInv, TypeOK, WorkType, FfType, HealthType, DbType, Stage, BreakerKept
<1>1. ASSUME NEW c \in Cameras, Pick(c) PROVE BreakerKept(d)
  BY <1>1 DEF Pick, workVars, ffVars, healthVars
<1>2. ASSUME NEW c \in Cameras, GuardRefuse(c) PROVE BreakerKept(d)
  BY <1>2 DEF GuardRefuse, Refused, Transition, Accepts, Status, workVars, ffVars, healthVars
<1>3. ASSUME NEW c \in Cameras, GuardPass(c) PROVE BreakerKept(d)
  BY <1>3 DEF GuardPass, Refused, workVars, ffVars, healthVars
<1>4. ASSUME NEW c \in Cameras, SafetyNet(c) PROVE BreakerKept(d)
  BY <1>4 DEF SafetyNet, AfterKill, workVars, ffVars, healthVars
<1>5. ASSUME NEW c \in Cameras, Branch(c) PROVE BreakerKept(d)
  BY <1>5 DEF Branch, Transition, Accepts, AfterKill, workVars, ffVars, healthVars
<1>6. ASSUME NEW c \in Cameras, Spawn(c) PROVE BreakerKept(d)
  BY <1>6 DEF Spawn, workVars, ffVars, healthVars
<1>7. ASSUME NEW c \in Cameras, OpenBreaker(c) PROVE BreakerKept(d)
  BY <1>7 DEF OpenBreaker, workVars, ffVars, healthVars
<1>8. ASSUME NEW c \in Cameras, TellDegraded(c) PROVE BreakerKept(d)
  BY <1>8 DEF TellDegraded, Transition, Accepts, ValidTransitions, CleanUp, Status, workVars,
         ffVars, healthVars
<1>9. ASSUME NEW c \in Cameras, Rejected(c) PROVE BreakerKept(d)
  BY <1>9 DEF Rejected, CleanUp, workVars, ffVars, healthVars
<1>10. ASSUME NEW c \in Cameras, Fail(c) PROVE BreakerKept(d)
  BY <1>10 DEF Fail, workVars, ffVars, healthVars
<1>11. ASSUME NEW c \in Cameras, Finish(c) PROVE BreakerKept(d)
  BY <1>11 DEF Finish, NoJob, workVars, ffVars, healthVars
<1>12. ASSUME \E c \in Cameras : Stalled(c)
    PROVE BreakerKept(d)
  BY <1>12 DEF Stalled, workVars, ffVars, healthVars
<1> HIDE DEF IInv, TypeOK, Stage, BreakerKept
<1> QED
  BY <1>1, <1>2, <1>3, <1>4, <1>5, <1>6, <1>7, <1>8, <1>9, <1>10, <1>11, <1>12 DEF WorkerNext

\* No step of FFmpeg and SRS spawns for a camera d whose breaker is open, and none that
\* moves d's worker closes it.
LEMMA ChildKeepsBreaker ==
  ASSUME IInv, NEW d \in Cameras, degraded[d], ChildNext
  PROVE  BreakerKept(d)
<1> USE StreamAssumption DEF IInv, TypeOK, WorkType, FfType, HealthType, DbType, Stage, BreakerKept
<1>1. ASSUME NEW c \in Cameras, Publish(c) PROVE BreakerKept(d)
  BY <1>1 DEF Publish, workVars, ffVars, healthVars
<1>2. ASSUME NEW c \in Cameras, Crash(c) PROVE BreakerKept(d)
  BY <1>2 DEF Crash, Gone, workVars, ffVars, healthVars
<1>3. ASSUME NEW c \in Cameras, End(c) PROVE BreakerKept(d)
  BY <1>3 DEF End, Gone, workVars, ffVars, healthVars
<1>4. ASSUME NEW c \in Cameras, Stopped(c) PROVE BreakerKept(d)
  BY <1>4 DEF Stopped, Gone, workVars, ffVars, healthVars
<1>5. ASSUME NEW c \in Cameras, OnPublish(c) PROVE BreakerKept(d)
  BY <1>5 DEF OnPublish, Transition, Accepts, workVars, ffVars, healthVars
<1>6. ASSUME
      \/ \E c \in Cameras : EncoderPublish(c)
      \/ \E c \in Cameras : EncoderGone(c)
      \/ \E c \in Cameras : PhantomExpires(c)
      \/ SrsRestart
    PROVE BreakerKept(d)
  BY <1>6 DEF EncoderPublish, EncoderGone, PhantomExpires, SrsRestart, workVars, ffVars,
         healthVars
<1> HIDE DEF IInv, TypeOK, Stage, BreakerKept
<1> QED
  BY <1>1, <1>2, <1>3, <1>4, <1>5, <1>6 DEF ChildNext

\* No step of a request spawns for a camera d whose breaker is open, and none that
\* moves d's worker closes it.
LEMMA RequestKeepsBreaker ==
  ASSUME IInv, NEW d \in Cameras, degraded[d], RequestNext
  PROVE  BreakerKept(d)
<1> USE StreamAssumption DEF IInv, TypeOK, WorkType, FfType, HealthType, DbType, Stage, BreakerKept
<1>1. ASSUME NEW r \in Requests, NEW c \in Cameras, OnPublishPush(r, c) PROVE BreakerKept(d)
  BY <1>1 DEF OnPublishPush, Transition, Accepts, Begin, workVars, ffVars, healthVars
<1>2. ASSUME NEW r \in Requests, NEW c \in Cameras, StopStream(r, c) PROVE BreakerKept(d)
  BY <1>2 DEF StopStream, AfterKill, Begin, workVars, ffVars, healthVars
<1>3. ASSUME NEW r \in Requests, MaintKill(r) PROVE BreakerKept(d)
  BY <1>3 DEF MaintKill, AfterKill, ReqType, workVars, ffVars, healthVars
<1>4. ASSUME NEW r \in Requests, StopOffline(r) PROVE BreakerKept(d)
  BY <1>4 DEF StopOffline, Transition, Accepts, ReqType, workVars, ffVars, healthVars
<1>5. ASSUME NEW r \in Requests, ReloadSignal(r) PROVE BreakerKept(d)
  BY <1>5 DEF ReloadSignal, AfterKill, ReqType, workVars, ffVars, healthVars
<1>6. ASSUME
      \/ \E r \in Requests, c \in Cameras : StartStream(r, c)
      \/ \E r \in Requests : StartRead(r)
      \/ \E r \in Requests : StartRemove(r)
      \/ \E r \in Requests : StartAdd(r)
      \/ \E r \in Requests, c \in Cameras : EnterMaintenance(r, c)
      \/ \E r \in Requests : StopRemove(r)
      \/ \E r \in Requests : ForceOffline(r)
      \/ \E c \in Cameras : ExitMaintenance(c)
      \/ \E r \in Requests, c \in Cameras, p \in Profiles : EditProfile(r, c, p)
      \/ \E r \in Requests : ReloadList(r)
      \/ \E r \in Requests : ReloadCheck(r)
      \/ \E r \in Requests : ReloadRemove(r)
      \/ \E r \in Requests : ReloadAdd(r)
    PROVE BreakerKept(d)
  BY <1>6 DEF StartStream, StartRead, StartRemove, StartAdd, EnterMaintenance, StopRemove,
         ForceOffline, ExitMaintenance, EditProfile, ReloadList, ReloadCheck, ReloadRemove,
         ReloadAdd, workVars, ffVars, healthVars
<1> HIDE DEF IInv, TypeOK, Stage, BreakerKept
<1> QED
  BY <1>1, <1>2, <1>3, <1>4, <1>5, <1>6 DEF RequestNext, RequestStep

\* No step of the health tick spawns for a camera d whose breaker is open, and none that
\* moves d's worker closes it.
LEMMA TickKeepsBreaker ==
  ASSUME IInv, NEW d \in Cameras, degraded[d], TickNext
  PROVE  BreakerKept(d)
<1> USE StreamAssumption DEF IInv, TypeOK, WorkType, FfType, HealthType, DbType, Stage, BreakerKept
<1>1. ASSUME NEW c \in Cameras, Requeue(c) PROVE BreakerKept(d)
  BY <1>1 DEF Requeue, AfterAdd, AfterKill, workVars, ffVars, healthVars
<1>2. ASSUME NEW c \in Cameras, ScanAlive(c) PROVE BreakerKept(d)
  BY <1>2 DEF ScanAlive, workVars, ffVars, healthVars
<1>3. ASSUME NEW c \in Cameras, ScanEncoderGone(c) PROVE BreakerKept(d)
  BY <1>3 DEF ScanEncoderGone, Transition, Accepts, workVars, ffVars, healthVars
<1>4. ASSUME NEW c \in Cameras, ScanDead(c) PROVE BreakerKept(d)
  BY <1>4 DEF ScanDead, AfterKill, workVars, ffVars, healthVars
<1>5. ASSUME NEW c \in Cameras, Reconnect(c) PROVE BreakerKept(d)
  BY <1>5 DEF Reconnect, Transition, Accepts, workVars, ffVars, healthVars
<1>6. ASSUME
      \/ DetectRestart
      \/ List
      \/ ProbeAnswers
      \/ ProbeCached
      \/ ProbeSkipped
      \/ \E c \in Cameras : ScanDegraded(c)
      \/ \E c \in Cameras : KeepRestart(c)
      \/ \E c \in Cameras : CheckJob(c)
      \/ \E c \in Cameras : RemoveStuck(c)
      \/ \E c \in Cameras : EnqueueStart(c)
    PROVE BreakerKept(d)
  BY <1>6 DEF DetectRestart, List, ProbeAnswers, ProbeCached, ProbeSkipped, ScanDegraded,
         KeepRestart, CheckJob, RemoveStuck, EnqueueStart, workVars, ffVars, healthVars
<1> HIDE DEF IInv, TypeOK, Stage, BreakerKept
<1> QED
  BY <1>1, <1>2, <1>3, <1>4, <1>5, <1>6 DEF TickNext, ScanStep

\* No step of the API process spawns for a camera d whose breaker is open, and none that
\* moves d's worker closes it.
LEMMA ApiKeepsBreaker ==
  ASSUME IInv, NEW d \in Cameras, degraded[d], ApiNext
  PROVE  BreakerKept(d)
<1> USE StreamAssumption DEF IInv, TypeOK, WorkType, FfType, HealthType, DbType, Stage, BreakerKept
<1>1. ASSUME PowerLoss PROVE BreakerKept(d)
  BY <1>1 DEF PowerLoss, Die, workVars, ffVars, healthVars
<1>2. ASSUME Shutdown PROVE BreakerKept(d)
  BY <1>2 DEF Shutdown, AfterKill, workVars, ffVars, healthVars
<1>3. ASSUME Exit PROVE BreakerKept(d)
  BY <1>3 DEF Exit, Die, workVars, ffVars, healthVars
<1>4. ASSUME
      \/ Boot
      \/ \E c \in Cameras : BootEnqueue(c)
      \/ Listen
    PROVE BreakerKept(d)
  BY <1>4 DEF Boot, BootEnqueue, Listen, workVars, ffVars, healthVars
<1> HIDE DEF IInv, TypeOK, Stage, BreakerKept
<1> QED
  BY <1>1, <1>2, <1>3, <1>4 DEF ApiNext

\* No worker spawns past an open breaker, or closes it.
THEOREM BreakerAlwaysHolds == Spec => BreakerHolds
<1>1. ASSUME IInv, [Next]_vars, NEW d \in Cameras, degraded[d] PROVE BreakerKept(d)
  <2>1. CASE UNCHANGED vars
    BY <1>1, <2>1 DEF BreakerKept, vars, workVars, ffVars
  <2> QED
    BY <1>1, <2>1, WorkerKeepsBreaker, ChildKeepsBreaker, RequestKeepsBreaker, TickKeepsBreaker,
       ApiKeepsBreaker DEF Next
<1>2. IInv /\ [Next]_vars =>
        [\A c \in Cameras : degraded[c] =>
           /\ ~(ff[c] = "none" /\ ff'[c] = "starting")
           /\ degraded'[c] \/ pc'[c] = pc[c] \/ api' = "down"]_vars
  BY <1>1 DEF BreakerKept
<1> QED BY <1>2, Inductive, PTL DEF Spec, BreakerHolds

-----------------------------------------------------------------------------
(* The slot of a camera's job *)

\* A step moves the slot of one camera at most,
SlotStep(c) ==
  /\ SlotOf(c)' = SlotOf(c) \/ <<SlotOf(c), SlotOf(c)'>> \in Abstract!Steps
  /\ \A e \in Cameras \ {c} : SlotOf(e)' = SlotOf(e)

\* or none, or it ends every child.
SlotMoves ==
  \/ \A c \in Cameras : SlotOf(c)' = SlotOf(c)
  \/ \E c \in Cameras : SlotStep(c)
  \/ \A c \in Cameras : SlotOf(c)' = IF SlotOf(c) = "streaming" THEN "held" ELSE SlotOf(c)

\* A step of the worker moves the slots as CameraSlot allows.
LEMMA WorkerMovesSlot ==
  ASSUME IInv, WorkerNext
  PROVE  SlotMoves
<1> USE StreamAssumption DEF IInv, TypeOK, JobType, JobSlot, WorkType, FfType, Stage
<1>1. ASSUME NEW c \in Cameras, Pick(c) PROVE SlotMoves
  <2>1. SlotStep(c)
    BY <1>1 DEF Pick, ffVars, SlotStep, SlotOf, Abstract!Steps
  <2> QED BY <2>1 DEF SlotMoves
<1>2. ASSUME NEW c \in Cameras, SafetyNet(c) PROVE SlotMoves
  <2>1. SlotStep(c)
    BY <1>2 DEF SafetyNet, AfterKill, ffVars, SlotStep, SlotOf, Abstract!Steps
  <2> QED BY <2>1 DEF SlotMoves
<1>3. ASSUME NEW c \in Cameras, Branch(c) PROVE SlotMoves
  <2>1. SlotStep(c)
    BY <1>3 DEF Branch, AfterKill, ffVars, SlotStep, SlotOf, Abstract!Steps
  <2> QED BY <2>1 DEF SlotMoves
<1>4. ASSUME NEW c \in Cameras, Spawn(c) PROVE SlotMoves
  <2>1. SlotStep(c)
    BY <1>4 DEF Spawn, ffVars, SlotStep, SlotOf, Abstract!Steps
  <2> QED BY <2>1 DEF SlotMoves
<1>5. ASSUME NEW c \in Cameras, Fail(c) PROVE SlotMoves
  <2>1. SlotStep(c)
    BY <1>5 DEF Fail, ffVars, SlotStep, SlotOf, Abstract!Steps
  <2> QED BY <2>1 DEF SlotMoves
<1>6. ASSUME NEW c \in Cameras, Finish(c) PROVE SlotMoves
  <2>1. SlotStep(c)
    BY <1>6 DEF Finish, NoJob, ffVars, SlotStep, SlotOf, Abstract!Steps
  <2> QED BY <2>1 DEF SlotMoves
<1>7. ASSUME NEW c \in Cameras, Stalled(c) PROVE SlotMoves
  <2>1. SlotStep(c)
    BY <1>7 DEF Stalled, ffVars, SlotStep, SlotOf, Abstract!Steps
  <2> QED BY <2>1 DEF SlotMoves
<1>8. ASSUME
      \/ \E c \in Cameras : GuardRefuse(c)
      \/ \E c \in Cameras : GuardPass(c)
      \/ \E c \in Cameras : OpenBreaker(c)
      \/ \E c \in Cameras : TellDegraded(c)
      \/ \E c \in Cameras : Rejected(c)
    PROVE SlotMoves
  BY <1>8 DEF GuardRefuse, GuardPass, OpenBreaker, TellDegraded, Rejected, ffVars, SlotMoves,
         SlotOf, CleanUp
<1> HIDE DEF IInv, TypeOK, Stage
<1> QED
  BY <1>1, <1>2, <1>3, <1>4, <1>5, <1>6, <1>7, <1>8 DEF WorkerNext

\* A step of FFmpeg and SRS moves the slots as CameraSlot allows.
LEMMA ChildMovesSlot ==
  ASSUME IInv, ChildNext
  PROVE  SlotMoves
<1> USE StreamAssumption DEF IInv, TypeOK, JobType, JobSlot, WorkType, FfType, Stage
<1>1. ASSUME NEW c \in Cameras, Publish(c) PROVE SlotMoves
  <2>1. SlotStep(c)
    BY <1>1 DEF Publish, ffVars, SlotStep, SlotOf, Abstract!Steps
  <2> QED BY <2>1 DEF SlotMoves
<1>2. ASSUME NEW c \in Cameras, Crash(c) PROVE SlotMoves
  <2>1. SlotStep(c)
    BY <1>2 DEF Crash, Gone, ffVars, SlotStep, SlotOf, Abstract!Steps
  <2> QED BY <2>1 DEF SlotMoves
<1>3. ASSUME NEW c \in Cameras, End(c) PROVE SlotMoves
  <2>1. SlotStep(c)
    BY <1>3 DEF End, Gone, ffVars, SlotStep, SlotOf, Abstract!Steps
  <2> QED BY <2>1 DEF SlotMoves
<1>4. ASSUME NEW c \in Cameras, Stopped(c) PROVE SlotMoves
  <2>1. SlotStep(c)
    BY <1>4 DEF Stopped, Gone, ffVars, SlotStep, SlotOf, Abstract!Steps
  <2> QED BY <2>1 DEF SlotMoves
<1>5. ASSUME
      \/ \E c \in Cameras : OnPublish(c)
      \/ \E c \in Cameras : EncoderPublish(c)
      \/ \E c \in Cameras : EncoderGone(c)
      \/ \E c \in Cameras : PhantomExpires(c)
      \/ SrsRestart
    PROVE SlotMoves
  BY <1>5 DEF OnPublish, EncoderPublish, EncoderGone, PhantomExpires, SrsRestart, ffVars,
         SlotMoves, SlotOf
<1> HIDE DEF IInv, TypeOK, Stage
<1> QED
  BY <1>1, <1>2, <1>3, <1>4, <1>5 DEF ChildNext

\* A step of a request moves the slots as CameraSlot allows.
LEMMA RequestMovesSlot ==
  ASSUME IInv, RequestNext
  PROVE  SlotMoves
<1> USE StreamAssumption DEF IInv, TypeOK, JobType, JobSlot, WorkType, FfType, Stage
<1>1. ASSUME NEW r \in Requests, StartRemove(r) PROVE SlotMoves
  <2>1. PICK c \in Cameras : c = rcam[r]
    BY DEF ReqType
  <2>2. SlotStep(c)
    BY <1>1, <2>1 DEF StartRemove, Remove, AfterRemove, NoJob, ffVars, SlotStep, SlotOf,
           Abstract!Steps
  <2> QED BY <2>1, <2>2 DEF SlotMoves
<1>2. ASSUME NEW r \in Requests, StartAdd(r) PROVE SlotMoves
  <2>1. PICK c \in Cameras : c = rcam[r]
    BY DEF ReqType
  <2>2. SlotStep(c)
    BY <1>2, <2>1 DEF StartAdd, AfterAdd, ffVars, SlotStep, SlotOf, Abstract!Steps
  <2> QED BY <2>1, <2>2 DEF SlotMoves
<1>3. ASSUME NEW r \in Requests, NEW c \in Cameras, StopStream(r, c) PROVE SlotMoves
  <2>1. SlotStep(c)
    BY <1>3 DEF StopStream, AfterKill, ffVars, SlotStep, SlotOf, Abstract!Steps
  <2> QED BY <2>1 DEF SlotMoves
<1>4. ASSUME NEW r \in Requests, MaintKill(r) PROVE SlotMoves
  <2>1. PICK c \in Cameras : c = rcam[r]
    BY DEF ReqType
  <2>2. SlotStep(c)
    BY <1>4, <2>1 DEF MaintKill, AfterKill, ffVars, SlotStep, SlotOf, Abstract!Steps
  <2> QED BY <2>1, <2>2 DEF SlotMoves
<1>5. ASSUME NEW r \in Requests, StopRemove(r) PROVE SlotMoves
  <2>1. PICK c \in Cameras : c = rcam[r]
    BY DEF ReqType
  <2>2. SlotStep(c)
    BY <1>5, <2>1 DEF StopRemove, Remove, AfterRemove, NoJob, ffVars, SlotStep, SlotOf,
           Abstract!Steps
  <2> QED BY <2>1, <2>2 DEF SlotMoves
<1>6. ASSUME NEW r \in Requests, ReloadSignal(r) PROVE SlotMoves
  <2>1. PICK c \in Cameras : c = rcam[r]
    BY DEF ReqType
  <2>2. SlotStep(c)
    BY <1>6, <2>1 DEF ReloadSignal, AfterKill, ffVars, SlotStep, SlotOf, Abstract!Steps
  <2> QED BY <2>1, <2>2 DEF SlotMoves
<1>7. ASSUME NEW r \in Requests, ReloadRemove(r) PROVE SlotMoves
  <2>1. PICK c \in Cameras : c = rcam[r]
    BY DEF ReqType
  <2>2. SlotStep(c)
    BY <1>7, <2>1 DEF ReloadRemove, Remove, AfterRemove, NoJob, ffVars, SlotStep, SlotOf,
           Abstract!Steps
  <2> QED BY <2>1, <2>2 DEF SlotMoves
<1>8. ASSUME NEW r \in Requests, ReloadAdd(r) PROVE SlotMoves
  <2>1. PICK c \in Cameras : c = rcam[r]
    BY DEF ReqType
  <2>2. SlotStep(c)
    BY <1>8, <2>1 DEF ReloadAdd, AfterAdd, ffVars, SlotStep, SlotOf, Abstract!Steps
  <2> QED BY <2>1, <2>2 DEF SlotMoves
<1>9. ASSUME
      \/ \E r \in Requests, c \in Cameras : StartStream(r, c)
      \/ \E r \in Requests, c \in Cameras : OnPublishPush(r, c)
      \/ \E r \in Requests : StartRead(r)
      \/ \E r \in Requests, c \in Cameras : EnterMaintenance(r, c)
      \/ \E r \in Requests : StopOffline(r)
      \/ \E r \in Requests : ForceOffline(r)
      \/ \E c \in Cameras : ExitMaintenance(c)
      \/ \E r \in Requests, c \in Cameras, p \in Profiles : EditProfile(r, c, p)
      \/ \E r \in Requests : ReloadList(r)
      \/ \E r \in Requests : ReloadCheck(r)
    PROVE SlotMoves
  BY <1>9 DEF StartStream, OnPublishPush, StartRead, EnterMaintenance, StopOffline,
         ForceOffline, ExitMaintenance, EditProfile, ReloadList, ReloadCheck, ffVars, SlotMoves,
         SlotOf
<1> HIDE DEF IInv, TypeOK, Stage
<1> QED
  BY <1>1, <1>2, <1>3, <1>4, <1>5, <1>6, <1>7, <1>8, <1>9 DEF RequestNext, RequestStep

\* A step of the health tick moves the slots as CameraSlot allows.
LEMMA TickMovesSlot ==
  ASSUME IInv, TickNext
  PROVE  SlotMoves
<1> USE StreamAssumption DEF IInv, TypeOK, JobType, JobSlot, WorkType, FfType, Stage
<1>1. ASSUME NEW c \in Cameras, Requeue(c) PROVE SlotMoves
  <2>1. SlotStep(c)
    BY <1>1 DEF Requeue, AfterAdd, AfterKill, ffVars, SlotStep, SlotOf, Abstract!Steps
  <2> QED BY <2>1 DEF SlotMoves
<1>2. ASSUME NEW c \in Cameras, ScanDead(c) PROVE SlotMoves
  <2>1. SlotStep(c)
    BY <1>2 DEF ScanDead, AfterKill, ffVars, SlotStep, SlotOf, Abstract!Steps
  <2> QED BY <2>1 DEF SlotMoves
<1>3. ASSUME NEW c \in Cameras, RemoveStuck(c) PROVE SlotMoves
  <2>1. SlotStep(c)
    BY <1>3 DEF RemoveStuck, AfterRemove, NoJob, ffVars, SlotStep, SlotOf, Abstract!Steps
  <2> QED BY <2>1 DEF SlotMoves
<1>4. ASSUME NEW c \in Cameras, EnqueueStart(c) PROVE SlotMoves
  <2>1. SlotStep(c)
    BY <1>4 DEF EnqueueStart, AfterAdd, ffVars, SlotStep, SlotOf, Abstract!Steps
  <2> QED BY <2>1 DEF SlotMoves
<1>5. ASSUME
      \/ DetectRestart
      \/ List
      \/ ProbeAnswers
      \/ ProbeCached
      \/ ProbeSkipped
      \/ \E c \in Cameras : ScanDegraded(c)
      \/ \E c \in Cameras : ScanAlive(c)
      \/ \E c \in Cameras : ScanEncoderGone(c)
      \/ \E c \in Cameras : Reconnect(c)
      \/ \E c \in Cameras : KeepRestart(c)
      \/ \E c \in Cameras : CheckJob(c)
    PROVE SlotMoves
  BY <1>5 DEF DetectRestart, List, ProbeAnswers, ProbeCached, ProbeSkipped, ScanDegraded,
         ScanAlive, ScanEncoderGone, Reconnect, KeepRestart, CheckJob, ffVars, SlotMoves, SlotOf
<1> HIDE DEF IInv, TypeOK, Stage
<1> QED
  BY <1>1, <1>2, <1>3, <1>4, <1>5 DEF TickNext, ScanStep

\* A step of the API process moves the slots as CameraSlot allows.
LEMMA ApiMovesSlot ==
  ASSUME IInv, ApiNext
  PROVE  SlotMoves
<1> USE StreamAssumption DEF IInv, TypeOK, JobType, JobSlot, WorkType, FfType, Stage
<1>1. ASSUME PowerLoss PROVE SlotMoves
  BY <1>1 DEF PowerLoss, Die, SlotMoves, SlotOf
<1>2. ASSUME Shutdown PROVE SlotMoves
  BY <1>2 DEF Shutdown, AfterKill, SlotMoves, SlotOf
<1>3. ASSUME Exit PROVE SlotMoves
  BY <1>3 DEF Exit, Die, SlotMoves, SlotOf
<1>4. ASSUME NEW c \in Cameras, BootEnqueue(c) PROVE SlotMoves
  <2>1. SlotStep(c)
    BY <1>4 DEF BootEnqueue, AfterAdd, ffVars, SlotStep, SlotOf, Abstract!Steps
  <2> QED BY <2>1 DEF SlotMoves
<1>5. ASSUME
      \/ Boot
      \/ Listen
    PROVE SlotMoves
  BY <1>5 DEF Boot, Listen, ffVars, SlotMoves, SlotOf
<1> HIDE DEF IInv, TypeOK, Stage
<1> QED
  BY <1>1, <1>2, <1>3, <1>4, <1>5 DEF ApiNext

\* The job of each camera goes through the slot CameraSlot describes: in
\* particular nobody takes the job from under a running child.
THEOREM SlotImplemented == Spec => SlotSpec
<1>1. Init => Abstract!Init
  <2> SUFFICES ASSUME Init PROVE Abstract!Init OBVIOUS
  <2>1. \A c \in Cameras : SlotOf(c) \in {"free", "waiting", "held"}
    BY DEF Init, SlotOf
  <2> QED BY <2>1 DEF Abstract!Init, Abstract!Slot, SlotMap
<1>2. ASSUME SlotMoves PROVE [Abstract!Next]_SlotMap
  <2>1. CASE \A c \in Cameras : SlotOf(c)' = SlotOf(c)
    BY <2>1 DEF SlotMap
  <2>2. ASSUME NEW c \in Cameras, SlotStep(c) PROVE [Abstract!Next]_SlotMap
    <3>1. CASE SlotOf(c)' = SlotOf(c)
      BY <2>2, <3>1 DEF SlotStep, SlotMap
    <3>2. CASE <<SlotOf(c), SlotOf(c)'>> \in Abstract!Steps
      <4>1. SlotOf(c)' \in Abstract!Slot
        BY <3>2 DEF Abstract!Steps, Abstract!Slot
      <4>2. SlotMap' = [SlotMap EXCEPT ![c] = SlotOf(c)']
        BY <2>2 DEF SlotStep, SlotMap
      <4>3. Abstract!Move(c, SlotOf(c)')
        BY <3>2, <4>2 DEF Abstract!Move, SlotMap
      <4> QED BY <4>1, <4>3 DEF Abstract!Next
    <3> QED BY <2>2, <3>1, <3>2 DEF SlotStep
  <2>3. CASE \A c \in Cameras :
               SlotOf(c)' = IF SlotOf(c) = "streaming" THEN "held" ELSE SlotOf(c)
    BY <2>3 DEF SlotMap, Abstract!Next, Abstract!DropChildren
  <2> QED BY <1>2, <2>1, <2>2, <2>3 DEF SlotMoves
<1>3. ASSUME IInv, [Next]_vars PROVE [Abstract!Next]_SlotMap
  <2>1. CASE UNCHANGED vars
    <3>1. SlotMoves
      BY <2>1 DEF SlotMoves, SlotOf, vars, ffVars
    <3> QED BY <3>1, <1>2
  <2>2. CASE Next
    <3>1. SlotMoves
      BY <1>3, <2>2, WorkerMovesSlot, ChildMovesSlot, RequestMovesSlot, TickMovesSlot, ApiMovesSlot
         DEF Next
    <3> QED BY <3>1, <1>2
  <2> QED BY <1>3, <2>1, <2>2
<1> QED BY <1>1, <1>3, Inductive, PTL DEF Spec, SlotSpec, Abstract!Spec

-----------------------------------------------------------------------------
(* A camera nobody asks for *)

\* No step of the worker wakes a quiet camera d that nobody asks for.
LEMMA WorkerKeepsQuiet ==
  ASSUME IInv, NEW d \in Cameras, Quiet(d), WorkerNext
  PROVE  Quiet(d)' \/ Asked(d)
<1> USE StreamAssumption DEF IInv, TypeOK, DbType, JobType, WorkType, FfType, SrsType, TickType,
       ReqType, ApiType, Quiet, Asked, PassThrough
<1>1. ASSUME NEW c \in Cameras, Pick(c) PROVE Quiet(d)' \/ Asked(d)
  BY <1>1 DEF Pick, JobSlot, NoJob, dbVars, workVars, ffVars, srsVars, tickVars, reqVars,
         apiVars
<1>2. ASSUME NEW c \in Cameras, GuardRefuse(c) PROVE Quiet(d)' \/ Asked(d)
  BY <1>2 DEF GuardRefuse, Refused, Transition, Accepts, Status, dbVars, workVars, ffVars,
         srsVars, tickVars, reqVars, apiVars
<1>3. ASSUME NEW c \in Cameras, GuardPass(c) PROVE Quiet(d)' \/ Asked(d)
  BY <1>3 DEF GuardPass, Refused, dbVars, workVars, ffVars, srsVars, tickVars, reqVars, apiVars
<1>4. ASSUME NEW c \in Cameras, SafetyNet(c) PROVE Quiet(d)' \/ Asked(d)
  BY <1>4 DEF SafetyNet, AfterKill, dbVars, workVars, ffVars, srsVars, tickVars, reqVars,
         apiVars
<1>5. ASSUME NEW c \in Cameras, Branch(c) PROVE Quiet(d)' \/ Asked(d)
  BY <1>5 DEF Branch, Transition, Accepts, AfterKill, dbVars, workVars, ffVars, srsVars,
         tickVars, reqVars, apiVars
<1>6. ASSUME NEW c \in Cameras, Spawn(c) PROVE Quiet(d)' \/ Asked(d)
  BY <1>6 DEF Spawn, AfterKick, dbVars, workVars, ffVars, srsVars, tickVars, reqVars, apiVars
<1>7. ASSUME NEW c \in Cameras, OpenBreaker(c) PROVE Quiet(d)' \/ Asked(d)
  BY <1>7 DEF OpenBreaker, dbVars, workVars, ffVars, srsVars, tickVars, reqVars, apiVars
<1>8. ASSUME NEW c \in Cameras, TellDegraded(c) PROVE Quiet(d)' \/ Asked(d)
  BY <1>8 DEF TellDegraded, Transition, Accepts, ValidTransitions, CleanUp, Status, AfterKick,
         dbVars, workVars, ffVars, srsVars, tickVars, reqVars, apiVars
<1>9. ASSUME NEW c \in Cameras, Rejected(c) PROVE Quiet(d)' \/ Asked(d)
  BY <1>9 DEF Rejected, CleanUp, AfterKick, dbVars, workVars, ffVars, srsVars, tickVars,
         reqVars, apiVars
<1>10. ASSUME NEW c \in Cameras, Fail(c) PROVE Quiet(d)' \/ Asked(d)
  BY <1>10 DEF Fail, dbVars, workVars, ffVars, srsVars, tickVars, reqVars, apiVars
<1>11. ASSUME NEW c \in Cameras, Finish(c) PROVE Quiet(d)' \/ Asked(d)
  BY <1>11 DEF Finish, NoJob, dbVars, workVars, ffVars, srsVars, tickVars, reqVars, apiVars
<1>12. ASSUME NEW c \in Cameras, Stalled(c) PROVE Quiet(d)' \/ Asked(d)
  BY <1>12 DEF Stalled, NoJob, dbVars, workVars, ffVars, srsVars, tickVars, reqVars, apiVars
<1> HIDE DEF IInv, TypeOK, Quiet, Asked
<1> QED
  BY <1>1, <1>2, <1>3, <1>4, <1>5, <1>6, <1>7, <1>8, <1>9, <1>10, <1>11, <1>12 DEF WorkerNext

\* No step of FFmpeg and SRS wakes a quiet camera d that nobody asks for.
LEMMA ChildKeepsQuiet ==
  ASSUME IInv, NEW d \in Cameras, Quiet(d), ChildNext
  PROVE  Quiet(d)' \/ Asked(d)
<1> USE StreamAssumption DEF IInv, TypeOK, DbType, JobType, WorkType, FfType, SrsType, TickType,
       ReqType, ApiType, Quiet, Asked, PassThrough
<1>1. ASSUME NEW c \in Cameras, Publish(c) PROVE Quiet(d)' \/ Asked(d)
  BY <1>1 DEF Publish, dbVars, workVars, ffVars, srsVars, tickVars, reqVars, apiVars
<1>2. ASSUME NEW c \in Cameras, Crash(c) PROVE Quiet(d)' \/ Asked(d)
  BY <1>2 DEF Crash, Gone, AfterExit, AfterCrash, dbVars, workVars, ffVars, srsVars, tickVars,
         reqVars, apiVars
<1>3. ASSUME NEW c \in Cameras, End(c) PROVE Quiet(d)' \/ Asked(d)
  BY <1>3 DEF End, Gone, AfterExit, dbVars, workVars, ffVars, srsVars, tickVars, reqVars,
         apiVars
<1>4. ASSUME NEW c \in Cameras, Stopped(c) PROVE Quiet(d)' \/ Asked(d)
  BY <1>4 DEF Stopped, Gone, AfterExit, dbVars, workVars, ffVars, srsVars, tickVars, reqVars,
         apiVars
<1>5. ASSUME NEW c \in Cameras, OnPublish(c) PROVE Quiet(d)' \/ Asked(d)
  BY <1>5 DEF OnPublish, Transition, Accepts, dbVars, workVars, ffVars, srsVars, tickVars,
         reqVars, apiVars
<1>6. ASSUME NEW c \in Cameras, EncoderPublish(c) PROVE Quiet(d)' \/ Asked(d)
  BY <1>6 DEF EncoderPublish, dbVars, workVars, ffVars, srsVars, tickVars, reqVars, apiVars
<1>7. ASSUME NEW c \in Cameras, EncoderGone(c) PROVE Quiet(d)' \/ Asked(d)
  BY <1>7 DEF EncoderGone, dbVars, workVars, ffVars, srsVars, tickVars, reqVars, apiVars
<1>8. ASSUME NEW c \in Cameras, PhantomExpires(c) PROVE Quiet(d)' \/ Asked(d)
  BY <1>8 DEF PhantomExpires, dbVars, workVars, ffVars, srsVars, tickVars, reqVars, apiVars
<1>9. ASSUME SrsRestart PROVE Quiet(d)' \/ Asked(d)
  BY <1>9 DEF SrsRestart, dbVars, workVars, ffVars, srsVars, tickVars, reqVars, apiVars
<1> HIDE DEF IInv, TypeOK, Quiet, Asked
<1> QED
  BY <1>1, <1>2, <1>3, <1>4, <1>5, <1>6, <1>7, <1>8, <1>9 DEF ChildNext

\* No step of a request wakes a quiet camera d that nobody asks for.
LEMMA RequestKeepsQuiet ==
  ASSUME IInv, NEW d \in Cameras, Quiet(d), RequestNext
  PROVE  Quiet(d)' \/ Asked(d)
<1> USE StreamAssumption DEF IInv, TypeOK, DbType, JobType, WorkType, FfType, SrsType, TickType,
       ReqType, ApiType, Quiet, Asked, PassThrough
<1>1. ASSUME NEW r \in Requests, NEW c \in Cameras, StartStream(r, c) PROVE Quiet(d)' \/ Asked(d)
  BY <1>1 DEF StartStream, Begin, dbVars, workVars, ffVars, srsVars, tickVars, reqVars, apiVars
<1>2. ASSUME NEW r \in Requests, NEW c \in Cameras, OnPublishPush(r, c) PROVE Quiet(d)' \/ Asked(d)
  BY <1>2 DEF OnPublishPush, Transition, Accepts, Begin, dbVars, workVars, ffVars, srsVars,
         tickVars, reqVars, apiVars
<1>3. ASSUME NEW r \in Requests, StartRead(r) PROVE Quiet(d)' \/ Asked(d)
  BY <1>3 DEF StartRead, Goto, dbVars, workVars, ffVars, srsVars, tickVars, reqVars, apiVars
<1>4. ASSUME NEW r \in Requests, StartRemove(r) PROVE Quiet(d)' \/ Asked(d)
  BY <1>4 DEF StartRemove, Remove, AfterRemove, NoJob, Goto, dbVars, workVars, ffVars, srsVars,
         tickVars, reqVars, apiVars
<1>5. ASSUME NEW r \in Requests, StartAdd(r) PROVE Quiet(d)' \/ Asked(d)
  BY <1>5 DEF StartAdd, AfterAdd, End_, dbVars, workVars, ffVars, srsVars, tickVars, reqVars,
         apiVars
<1>6. ASSUME NEW r \in Requests, NEW c \in Cameras, StopStream(r, c) PROVE Quiet(d)' \/ Asked(d)
  BY <1>6 DEF StopStream, AfterKill, Begin, dbVars, workVars, ffVars, srsVars, tickVars,
         reqVars, apiVars
<1>7. ASSUME NEW r \in Requests, NEW c \in Cameras, EnterMaintenance(r, c) PROVE Quiet(d)' \/ Asked(d)
  BY <1>7 DEF EnterMaintenance, Begin, dbVars, workVars, ffVars, srsVars, tickVars, reqVars,
         apiVars
<1>8. ASSUME NEW r \in Requests, MaintKill(r) PROVE Quiet(d)' \/ Asked(d)
  BY <1>8 DEF MaintKill, AfterKill, Goto, dbVars, workVars, ffVars, srsVars, tickVars, reqVars,
         apiVars
<1>9. ASSUME NEW r \in Requests, StopRemove(r) PROVE Quiet(d)' \/ Asked(d)
  BY <1>9 DEF StopRemove, Remove, AfterRemove, NoJob, Goto, dbVars, workVars, ffVars, srsVars,
         tickVars, reqVars, apiVars
<1>10. ASSUME NEW r \in Requests, StopOffline(r) PROVE Quiet(d)' \/ Asked(d)
  BY <1>10 DEF StopOffline, Transition, Accepts, Goto, dbVars, workVars, ffVars, srsVars,
         tickVars, reqVars, apiVars
<1>11. ASSUME NEW r \in Requests, ForceOffline(r) PROVE Quiet(d)' \/ Asked(d)
  BY <1>11 DEF ForceOffline, Goto, dbVars, workVars, ffVars, srsVars, tickVars, reqVars, apiVars
<1>12. ASSUME NEW c \in Cameras, ExitMaintenance(c) PROVE Quiet(d)' \/ Asked(d)
  BY <1>12 DEF ExitMaintenance, dbVars, workVars, ffVars, srsVars, tickVars, reqVars, apiVars
<1>13. ASSUME NEW r \in Requests, NEW c \in Cameras, NEW p \in Profiles,
             EditProfile(r, c, p) PROVE Quiet(d)' \/ Asked(d)
  BY <1>13 DEF EditProfile, Begin, dbVars, workVars, ffVars, srsVars, tickVars, reqVars, apiVars
<1>14. ASSUME NEW r \in Requests, ReloadList(r) PROVE Quiet(d)' \/ Asked(d)
  BY <1>14 DEF ReloadList, Goto, dbVars, workVars, ffVars, srsVars, tickVars, reqVars, apiVars
<1>15. ASSUME NEW r \in Requests, ReloadCheck(r) PROVE Quiet(d)' \/ Asked(d)
  BY <1>15 DEF ReloadCheck, Goto, dbVars, workVars, ffVars, srsVars, tickVars, reqVars, apiVars
<1>16. ASSUME NEW r \in Requests, ReloadSignal(r) PROVE Quiet(d)' \/ Asked(d)
  BY <1>16 DEF ReloadSignal, AfterKill, End_, dbVars, workVars, ffVars, srsVars, tickVars,
         reqVars, apiVars
<1>17. ASSUME NEW r \in Requests, ReloadRemove(r) PROVE Quiet(d)' \/ Asked(d)
  BY <1>17 DEF ReloadRemove, Remove, AfterRemove, NoJob, Goto, dbVars, workVars, ffVars,
         srsVars, tickVars, reqVars, apiVars
<1>18. ASSUME NEW r \in Requests, ReloadAdd(r) PROVE Quiet(d)' \/ Asked(d)
  BY <1>18 DEF ReloadAdd, AfterAdd, End_, dbVars, workVars, ffVars, srsVars, tickVars, reqVars,
         apiVars
<1> HIDE DEF IInv, TypeOK, Quiet, Asked
<1> QED
  BY <1>1, <1>2, <1>3, <1>4, <1>5, <1>6, <1>7, <1>8, <1>9, <1>10, <1>11, <1>12, <1>13, <1>14,
         <1>15, <1>16, <1>17, <1>18 DEF RequestNext, RequestStep

\* No step of the health tick wakes a quiet camera d that nobody asks for.
LEMMA TickKeepsQuiet ==
  ASSUME IInv, NEW d \in Cameras, Quiet(d), TickNext
  PROVE  Quiet(d)' \/ Asked(d)
<1> USE StreamAssumption DEF IInv, TypeOK, DbType, JobType, WorkType, FfType, SrsType, TickType,
       ReqType, ApiType, Quiet, Asked, PassThrough
<1>1. ASSUME DetectRestart PROVE Quiet(d)' \/ Asked(d)
  BY <1>1 DEF DetectRestart, Rows, NoRow, Desired, Running, Status, dbVars, workVars, ffVars,
         srsVars, tickVars, reqVars, apiVars
<1>2. ASSUME NEW c \in Cameras, Requeue(c) PROVE Quiet(d)' \/ Asked(d)
  BY <1>2 DEF Requeue, AfterAdd, AfterKill, NextCamera, NoRow, dbVars, workVars, ffVars,
         srsVars, tickVars, reqVars, apiVars
<1>3. ASSUME List PROVE Quiet(d)' \/ Asked(d)
  BY <1>3 DEF List, Rows, NoRow, Desired, Running, Status, dbVars, workVars, ffVars, srsVars,
         tickVars, reqVars, apiVars
<1>4. ASSUME ProbeAnswers PROVE Quiet(d)' \/ Asked(d)
  BY <1>4 DEF ProbeAnswers, AfterProbe, dbVars, workVars, ffVars, srsVars, tickVars, reqVars,
         apiVars
<1>5. ASSUME ProbeCached PROVE Quiet(d)' \/ Asked(d)
  BY <1>5 DEF ProbeCached, AfterProbe, dbVars, workVars, ffVars, srsVars, tickVars, reqVars,
         apiVars
<1>6. ASSUME ProbeSkipped PROVE Quiet(d)' \/ Asked(d)
  BY <1>6 DEF ProbeSkipped, Rows, NoRow, Desired, dbVars, workVars, ffVars, srsVars, tickVars,
         reqVars, apiVars
<1>7. ASSUME NEW c \in Cameras, ScanDegraded(c) PROVE Quiet(d)' \/ Asked(d)
  BY <1>7 DEF ScanDegraded, NextCamera, NoRow, Scanning, dbVars, workVars, ffVars, srsVars,
         tickVars, reqVars, apiVars
<1>8. ASSUME NEW c \in Cameras, ScanAlive(c) PROVE Quiet(d)' \/ Asked(d)
  BY <1>8 DEF ScanAlive, NextCamera, NoRow, Counted, Missed, Tolerances, Scanning, dbVars,
         workVars, ffVars, srsVars, tickVars, reqVars, apiVars
<1>9. ASSUME NEW c \in Cameras, ScanEncoderGone(c) PROVE Quiet(d)' \/ Asked(d)
  BY <1>9 DEF ScanEncoderGone, Transition, Accepts, NextCamera, NoRow, Counted, Missed,
         Tolerances, Bumped, Scanning, dbVars, workVars, ffVars, srsVars, tickVars, reqVars,
         apiVars
<1>10. ASSUME NEW c \in Cameras, ScanDead(c) PROVE Quiet(d)' \/ Asked(d)
  BY <1>10 DEF ScanDead, AfterKill, Counted, Missed, Scanning, Tolerances, Bumped, dbVars,
         workVars, ffVars, srsVars, tickVars, reqVars, apiVars
<1>11. ASSUME NEW c \in Cameras, Reconnect(c) PROVE Quiet(d)' \/ Asked(d)
  BY <1>11 DEF Reconnect, Transition, Accepts, dbVars, workVars, ffVars, srsVars, tickVars,
         reqVars, apiVars
<1>12. ASSUME NEW c \in Cameras, KeepRestart(c) PROVE Quiet(d)' \/ Asked(d)
  BY <1>12 DEF KeepRestart, NextCamera, NoRow, dbVars, workVars, ffVars, srsVars, tickVars,
         reqVars, apiVars
<1>13. ASSUME NEW c \in Cameras, CheckJob(c) PROVE Quiet(d)' \/ Asked(d)
  BY <1>13 DEF CheckJob, dbVars, workVars, ffVars, srsVars, tickVars, reqVars, apiVars
<1>14. ASSUME NEW c \in Cameras, RemoveStuck(c) PROVE Quiet(d)' \/ Asked(d)
  BY <1>14 DEF RemoveStuck, AfterRemove, NoJob, dbVars, workVars, ffVars, srsVars, tickVars,
         reqVars, apiVars
<1>15. ASSUME NEW c \in Cameras, EnqueueStart(c) PROVE Quiet(d)' \/ Asked(d)
  BY <1>15 DEF EnqueueStart, AfterAdd, NextCamera, NoRow, dbVars, workVars, ffVars, srsVars,
         tickVars, reqVars, apiVars
<1> HIDE DEF IInv, TypeOK, Quiet, Asked
<1> QED
  BY <1>1, <1>2, <1>3, <1>4, <1>5, <1>6, <1>7, <1>8, <1>9, <1>10, <1>11, <1>12, <1>13, <1>14,
         <1>15 DEF TickNext, ScanStep

\* No step of the API process wakes a quiet camera d that nobody asks for.
LEMMA ApiKeepsQuiet ==
  ASSUME IInv, NEW d \in Cameras, Quiet(d), ApiNext
  PROVE  Quiet(d)' \/ Asked(d)
<1> USE StreamAssumption DEF IInv, TypeOK, DbType, JobType, WorkType, FfType, SrsType, TickType,
       ReqType, ApiType, Quiet, Asked, PassThrough
<1>1. ASSUME PowerLoss PROVE Quiet(d)' \/ Asked(d)
  BY <1>1 DEF PowerLoss, Die, dbVars, workVars, ffVars, srsVars, tickVars, reqVars, apiVars
<1>2. ASSUME Shutdown PROVE Quiet(d)' \/ Asked(d)
  BY <1>2 DEF Shutdown, AfterKill, dbVars, workVars, ffVars, srsVars, tickVars, reqVars, apiVars
<1>3. ASSUME Exit PROVE Quiet(d)' \/ Asked(d)
  BY <1>3 DEF Exit, Die, dbVars, workVars, ffVars, srsVars, tickVars, reqVars, apiVars
<1>4. ASSUME Boot PROVE Quiet(d)' \/ Asked(d)
  BY <1>4 DEF Boot, Desired, Running, Status, dbVars, workVars, ffVars, srsVars, tickVars,
         reqVars, apiVars
<1>5. ASSUME NEW c \in Cameras, BootEnqueue(c) PROVE Quiet(d)' \/ Asked(d)
  BY <1>5 DEF BootEnqueue, AfterAdd, dbVars, workVars, ffVars, srsVars, tickVars, reqVars,
         apiVars
<1>6. ASSUME Listen PROVE Quiet(d)' \/ Asked(d)
  BY <1>6 DEF Listen, dbVars, workVars, ffVars, srsVars, tickVars, reqVars, apiVars
<1> HIDE DEF IInv, TypeOK, Quiet, Asked
<1> QED
  BY <1>1, <1>2, <1>3, <1>4, <1>5, <1>6 DEF ApiNext

\* A camera nobody asks for stays alone.
THEOREM QuietAlwaysQuiet == Spec => QuietStaysQuiet
<1>1. ASSUME IInv, [Next]_vars, NEW d \in Cameras, Quiet(d) PROVE Quiet(d)' \/ Asked(d)
  <2>1. CASE UNCHANGED vars
    BY <1>1, <2>1 DEF Quiet, vars, dbVars, workVars, ffVars, srsVars, tickVars, reqVars, apiVars
  <2> QED
    BY <1>1, <2>1, WorkerKeepsQuiet, ChildKeepsQuiet, RequestKeepsQuiet, TickKeepsQuiet,
       ApiKeepsQuiet DEF Next
<1>2. IInv /\ [Next]_vars => [\A c \in Cameras : Quiet(c) => Quiet(c)' \/ Asked(c)]_vars
  BY <1>1
<1> QED BY <1>2, Inductive, PTL DEF Spec, QuietStaysQuiet
=============================================================================
