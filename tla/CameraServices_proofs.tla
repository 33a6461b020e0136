----------------------- MODULE CameraServices_proofs -----------------------
(***************************************************************************)
(* Proofs about the services around one camera: its stream key             *)
(* (StreamKeys) and its probes (StreamProbe), the tags and rows of cameras *)
(* (TagCache, CameraInventory), the profile it is streamed with            *)
(* (StreamProfiles) and the health of its stream (StreamHealth), for any   *)
(* keys, cameras, calls and faults.                                        *)
(***************************************************************************)
EXTENDS StreamKeys, StreamProbe, TagCache, CameraInventory, StreamProfiles, StreamHealth,
  FiniteSetTheorems, TLAPS

(***************************************************************************)
(* Stream keys.  A steady connection came on air while no call was in      *)
(* progress.  Until a write or SRS fails: a steady one has the camera's    *)
(* key, or a rotation is about to kick it (Strangers); as long as it has,  *)
(* every call under way has read that key, has found it if it has looked,  *)
(* and no deletion that kicked it is about to write (Watched).             *)
(***************************************************************************)
SteadyConn(i) == i \notin hasty /\ conn[i].at = "on"

OnWorn == \A i \in Clients : conn[i].at \in {"accepted", "on"} => conn[i].key \in worn
OneOnAir == \A i, j \in Clients : conn[i].at = "on" /\ conn[j].at = "on" /\ conn[i].key = conn[j].key => i = j
AcceptedKnown == \A i \in Clients \ hasty : conn[i].at = "accepted" => conn[i].key = streamKey

About(c, i) == kcall[c].kind = "rotate" /\ kcall[c].at = "kick" /\ kcall[c].client = i

Strangers ==
  \A i \in Clients : SteadyConn(i) => conn[i].key = streamKey \/ \E c \in KeyCalls : About(c, i)

Watched ==
  \A i \in Clients, c \in KeyCalls :
    SteadyConn(i) /\ conn[i].key = streamKey /\ kcall[c].at # "idle" =>
      /\ kcall[c].key = streamKey
      /\ kcall[c].kind = "rotate" => kcall[c].at # "kick"
      /\ kcall[c].kind = "rotate" /\ kcall[c].at = "write" => kcall[c].client = i
      /\ kcall[c].kind = "delete" /\ kcall[c].at = "kick" => kcall[c].client = i
      /\ kcall[c].kind = "delete" => kcall[c].at # "write"

KeyInv ==
  /\ KeyTypeOK /\ OnWorn /\ OneOnAir /\ AcceptedKnown
  /\ streamKey \in worn \cup {None}
  /\ ~srsFailed => Strangers /\ Watched

LEMMA KeyInitInv ==
  ASSUME KeyInit
  PROVE  KeyInv
  BY DEF KeyInit, KeyInv, KeyTypeOK, OnWorn, OneOnAir, AcceptedKnown, Strangers, Watched, SteadyConn,
         NoKeyCall

(***************************************************************************)
(* Encoders: a connection becomes steady only while no call is under way.  *)
(***************************************************************************)
LEMMA OnPublishStep ==
  ASSUME KeyInv, NEW i \in Clients, OnPublish(i)
  PROVE  KeyInv'
<1> USE DEF KeyInv, KeyTypeOK
<1>1. PICK k \in worn : k = streamKey /\ conn' = [conn EXCEPT ![i] = [at |-> "accepted", key |-> k]]
  BY DEF OnPublish, Known
<1>2. conn[i].at = "unused" /\ UNCHANGED <<streamKey, worn, kcall, srsFailed>>
  BY DEF OnPublish
<1>3. hasty \subseteq hasty' /\ hasty' \subseteq hasty \cup {i}
  BY DEF OnPublish, Note
<1>4. KeyTypeOK' /\ OnWorn' /\ OneOnAir' /\ AcceptedKnown'
  BY <1>1, <1>2, <1>3 DEF OnWorn, OneOnAir, AcceptedKnown
<1>5. \A j \in Clients : SteadyConn(j)' => SteadyConn(j) /\ conn'[j] = conn[j]
  BY <1>1, <1>2, <1>3 DEF SteadyConn
<1>6. ~srsFailed' => Strangers' /\ Watched'
  BY <1>2, <1>5 DEF Strangers, Watched, About
<1>7. QED
  BY <1>2, <1>4, <1>6

LEMMA PublishStep ==
  ASSUME KeyInv, NEW i \in Clients, Publish(i)
  PROVE  KeyInv'
<1> USE DEF KeyInv, KeyTypeOK
<1>1. /\ conn[i].at = "accepted" /\ UNCHANGED <<streamKey, worn, kcall, srsFailed>>
      /\ conn' = [conn EXCEPT ![i].at = IF Publishing(conn[i].key) = {} THEN "on" ELSE "closed"]
      /\ hasty' = IF KeyCallsIdle THEN hasty ELSE hasty \cup {i}
  BY DEF Publish, Note
<1>2. \A j \in Clients \ {i} : conn'[j] = conn[j]
  BY <1>1
<1>3. KeyTypeOK' /\ OnWorn' /\ AcceptedKnown'
  BY <1>1 DEF OnWorn, AcceptedKnown
<1>4. OneOnAir'
  <2>1. ASSUME NEW j \in Clients \ {i}, conn'[i].at = "on", conn[j].at = "on", conn[j].key = conn[i].key
        PROVE  FALSE
    <3>1. conn[j] = [at |-> "on", key |-> conn[i].key]
      BY <2>1
    <3>2. Publishing(conn[i].key) = {}
      BY <1>1, <2>1
    <3>3. QED
      BY <3>1, <3>2 DEF Publishing
  <2>2. conn'[i].key = conn[i].key
    BY <1>1
  <2>3. QED
    BY <1>1, <1>2, <2>1, <2>2 DEF OneOnAir
<1>5. SteadyConn(i)' => conn'[i].key = streamKey /\ KeyCallsIdle
  BY <1>1 DEF SteadyConn, AcceptedKnown
<1>6. \A j \in Clients \ {i} : SteadyConn(j)' => SteadyConn(j)
  BY <1>1, <1>2 DEF SteadyConn
<1>7. ~srsFailed' => Strangers' /\ Watched'
  BY <1>1, <1>2, <1>5, <1>6 DEF Strangers, Watched, About, KeyCallsIdle
<1>8. QED
  BY <1>1, <1>3, <1>4, <1>7

LEMMA UnpublishStep ==
  ASSUME KeyInv, NEW i \in Clients, Unpublish(i)
  PROVE  KeyInv'
<1> USE DEF KeyInv, KeyTypeOK
<1>1. /\ conn' = [conn EXCEPT ![i].at = "closed"]
      /\ UNCHANGED <<streamKey, worn, kcall, hasty, srsFailed>>
  BY DEF Unpublish
<1>2. \A j \in Clients : conn'[j].at # "closed" => conn'[j] = conn[j]
  BY <1>1
<1>3. KeyTypeOK' /\ OnWorn' /\ OneOnAir' /\ AcceptedKnown'
  BY <1>1, <1>2 DEF OnWorn, OneOnAir, AcceptedKnown
<1>4. ~srsFailed' => Strangers' /\ Watched'
  BY <1>1, <1>2 DEF Strangers, Watched, About, SteadyConn
<1>5. QED
  BY <1>1, <1>3, <1>4

(***************************************************************************)
(* Calls.                                                                  *)
(***************************************************************************)
LEMMA ReadStep ==
  ASSUME KeyInv, NEW c \in KeyCalls, KeyRead(c)
  PROVE  KeyInv'
<1> USE DEF KeyInv, KeyTypeOK
<1>1. PICK kind \in {"rotate", "delete"} :
        kcall' = [kcall EXCEPT ![c] = [kind |-> kind, at |-> "find", key |-> streamKey, client |-> None]]
  BY DEF KeyRead
<1>2. kcall[c].at = "idle" /\ UNCHANGED <<streamKey, worn, conn, hasty, srsFailed>>
  BY DEF KeyRead
<1>3. KeyTypeOK' /\ OnWorn' /\ OneOnAir' /\ AcceptedKnown'
  BY <1>1, <1>2 DEF OnWorn, OneOnAir, AcceptedKnown
<1>4. ~srsFailed' => Strangers' /\ Watched'
  BY <1>1, <1>2 DEF Strangers, Watched, About, SteadyConn
<1>5. QED
  BY <1>2, <1>3, <1>4

LEMMA FindStep ==
  ASSUME KeyInv, NEW c \in KeyCalls, KeyFind(c)
  PROVE  KeyInv'
<1> USE DEF KeyInv, KeyTypeOK
<1> DEFINE k == kcall[c]
           To == IF k.kind = "rotate" THEN "write" ELSE "kick"
<1>1. k.at = "find" /\ UNCHANGED <<streamKey, worn, conn, hasty>>
  BY DEF KeyFind
<1>2. PICK i \in Clients \cup {None} :
        /\ kcall' = [kcall EXCEPT ![c] = [k EXCEPT !.client = i, !.at = To]]
        /\ \/ i \in Publishing(k.key) /\ srsFailed' = srsFailed
           \/ Publishing(k.key) = {} /\ srsFailed' = srsFailed
           \/ srsFailed' = TRUE
  <2>1. CASE \E i \in Publishing(k.key) :
               kcall' = [kcall EXCEPT ![c] = [k EXCEPT !.client = i, !.at = To]] /\ srsFailed' = srsFailed
    BY <2>1 DEF Publishing
  <2>2. CASE /\ kcall' = [kcall EXCEPT ![c] = [k EXCEPT !.client = None, !.at = To]]
             /\ (Publishing(k.key) = {} /\ srsFailed' = srsFailed) \/ srsFailed' = TRUE
    BY <2>2
  <2>3. QED
    BY <2>1, <2>2 DEF KeyFind
<1>3. /\ kcall'[c] = [kind |-> k.kind, at |-> To, key |-> k.key, client |-> i]
      /\ \A d \in KeyCalls \ {c} : kcall'[d] = kcall[d]
  BY <1>2
<1>4. KeyTypeOK' /\ OnWorn' /\ OneOnAir' /\ AcceptedKnown'
  <2>1. kcall'[c] \in [kind : {"rotate", "delete"}, at : {"idle", "find", "write", "kick"},
                      key : Keys \cup {None}, client : Clients \cup {None}]
    BY <1>3
  <2>2. kcall' \in [KeyCalls -> [kind : {"rotate", "delete"}, at : {"idle", "find", "write", "kick"},
                                key : Keys \cup {None}, client : Clients \cup {None}]]
    BY <1>2, <2>1
  <2>3. KeyTypeOK'
    BY <1>1, <1>2, <2>2
  <2>4. QED
    BY <1>1, <2>3 DEF OnWorn, OneOnAir, AcceptedKnown
<1>5. ~srsFailed' => Strangers'
  BY <1>1, <1>2, <1>3 DEF Strangers, About, SteadyConn
<1>6. ASSUME ~srsFailed', NEW j \in Clients, SteadyConn(j), conn[j].key = streamKey
      PROVE  k.key = streamKey /\ i = j
  <2>1. k.key = streamKey /\ ~srsFailed
    BY <1>1, <1>2, <1>6 DEF Watched
  <2>2. j \in Publishing(k.key)
    BY <1>6, <2>1 DEF Publishing, SteadyConn
  <2>3. QED
    BY <1>2, <1>6, <2>1, <2>2 DEF Publishing, OneOnAir, SteadyConn
<1>7. ~srsFailed' => Watched'
  BY <1>1, <1>2, <1>3, <1>6 DEF Watched, SteadyConn
<1>8. QED
  BY <1>1, <1>4, <1>5, <1>7

LEMMA WriteStep ==
  ASSUME KeyInv, NEW c \in KeyCalls, KeyWrite(c)
  PROVE  KeyInv'
<1> USE DEF KeyInv, KeyTypeOK
<1> DEFINE k == kcall[c]
<1>1. /\ k.at = "write" /\ (k.kind = "rotate" => worn # Keys)
      /\ streamKey' = IF streamKey = None \/ k.kind = "delete" THEN None ELSE FreshKey
      /\ worn' = worn \cup ({streamKey'} \ {None})
      /\ kcall' = [kcall EXCEPT ![c] = IF streamKey' = None THEN NoKeyCall ELSE [k EXCEPT !.at = "kick"]]
      /\ srsFailed' = (srsFailed \/ streamKey = None)
      /\ hasty' = hasty \cup Accepted /\ conn' = conn
  BY DEF KeyWrite
<1>2. k.kind = "rotate" => FreshKey \in Keys \ worn
  BY <1>1 DEF FreshKey
<1>3. k.kind \in {"rotate", "delete"} /\ None \notin Keys
  BY KeyAssumption
<1>4. streamKey' \in (Keys \ worn) \cup {None}
  BY <1>1, <1>2, <1>3
<1>5. KeyTypeOK'
  BY <1>1, <1>4 DEF NoKeyCall, Accepted
<1>6. OnWorn' /\ OneOnAir' /\ AcceptedKnown' /\ streamKey' \in worn' \cup {None}
  BY <1>1, <1>4 DEF OnWorn, OneOnAir, AcceptedKnown, Accepted
<1>7. ASSUME NEW i \in Clients, SteadyConn(i)' PROVE SteadyConn(i) /\ conn[i].key # streamKey'
  BY <1>1, <1>3, <1>4, <1>7 DEF SteadyConn, OnWorn
<1>8. ASSUME ~srsFailed', NEW i \in Clients, SteadyConn(i)' PROVE \E d \in KeyCalls : About(d, i)'
  <2>1. ~srsFailed /\ streamKey # None
    BY <1>1, <1>8
  <2>2. CASE conn[i].key = streamKey
    <3>1. k.kind = "rotate" /\ k.client = i
      BY <1>1, <1>3, <1>7, <1>8, <2>1, <2>2 DEF Watched
    <3>2. streamKey' # None
      BY <1>1, <1>2, <1>3, <2>1, <3>1
    <3>3. kcall'[c] = [k EXCEPT !.at = "kick"]
      BY <1>1, <3>2
    <3>4. QED
      BY <3>1, <3>3 DEF About
  <2>3. CASE \E d \in KeyCalls : About(d, i)
    <3>1. PICK d \in KeyCalls : About(d, i)
      BY <2>3
    <3>2. d # c /\ kcall'[d] = kcall[d]
      BY <1>1, <3>1 DEF About
    <3>3. QED
      BY <3>1, <3>2 DEF About
  <2>4. QED
    BY <1>7, <1>8, <2>1, <2>2, <2>3 DEF Strangers
<1>9. ~srsFailed' => Strangers' /\ Watched'
  BY <1>1, <1>7, <1>8 DEF Strangers, Watched
<1>10. QED
  BY <1>5, <1>6, <1>9

LEMMA KickStep ==
  ASSUME KeyInv, NEW c \in KeyCalls, KeyKick(c)
  PROVE  KeyInv'
<1> USE DEF KeyInv, KeyTypeOK
<1> DEFINE k == kcall[c]
<1>1. /\ k.at = "kick" /\ UNCHANGED <<streamKey, worn, hasty>>
      /\ kcall' = [kcall EXCEPT ![c] = IF k.kind = "delete" THEN [k EXCEPT !.at = "write"] ELSE NoKeyCall]
      /\ \/ conn' = KickedOff(k.client) /\ srsFailed' = srsFailed
         \/ srsFailed' = TRUE /\ conn' = conn
  BY DEF KeyKick
<1>2. ASSUME NEW i \in Clients
      PROVE  conn'[i].key = conn[i].key /\ conn'[i].at \in {conn[i].at, "closed"}
  BY <1>1 DEF KickedOff
<1>3. KeyTypeOK'
  <2>1. kcall' \in [KeyCalls -> [kind : {"rotate", "delete"}, at : {"idle", "find", "write", "kick"},
                                key : Keys \cup {None}, client : Clients \cup {None}]]
    BY <1>1 DEF NoKeyCall
  <2>2. conn' \in [Clients -> [at : {"unused", "accepted", "on", "closed"}, key : Keys \cup {None}]]
    BY <1>1 DEF KickedOff
  <2>3. QED
    BY <1>1, <2>1, <2>2
<1>4. OnWorn' /\ OneOnAir' /\ AcceptedKnown'
  <2>1. \A i \in Clients : conn'[i].at \in {"accepted", "on"} => conn'[i].at = conn[i].at
    BY <1>2
  <2>2. QED
    BY <1>1, <1>2, <2>1 DEF OnWorn, OneOnAir, AcceptedKnown
<1>5. ASSUME ~srsFailed', NEW i \in Clients, SteadyConn(i)'
      PROVE  SteadyConn(i) /\ conn'[i] = conn[i] /\ k.client # i
  <2>1. conn' = KickedOff(k.client)
    BY <1>1, <1>5
  <2>2. QED
    BY <1>1, <1>5, <2>1 DEF KickedOff, SteadyConn
<1>6. ASSUME ~srsFailed' PROVE Strangers'
  <2>1. ASSUME NEW i \in Clients, NEW d \in KeyCalls, SteadyConn(i)', About(d, i) PROVE About(d, i)'
    BY <1>1, <1>5, <1>6, <2>1 DEF About
  <2>2. QED
    BY <1>1, <1>5, <1>6, <2>1 DEF Strangers
<1>7. ASSUME ~srsFailed' PROVE Watched'
  <2>1. ASSUME NEW i \in Clients, SteadyConn(i)', conn[i].key = streamKey PROVE FALSE
    BY <1>1, <1>5, <1>7, <2>1 DEF Watched
  <2>2. QED
    BY <1>1, <1>5, <1>7, <2>1 DEF Watched
<1>8. QED
  BY <1>1, <1>3, <1>4, <1>6, <1>7

LEMMA KeyStepInv == KeyInv /\ [KeyNext]_keyVars => KeyInv'
<1> SUFFICES ASSUME KeyInv, [KeyNext]_keyVars PROVE KeyInv'
  OBVIOUS
<1>1. CASE UNCHANGED keyVars
  BY <1>1 DEF keyVars, KeyInv, KeyTypeOK, OnWorn, OneOnAir, AcceptedKnown, Strangers, Watched, About,
              SteadyConn
<1>2. QED
  BY <1>1, OnPublishStep, PublishStep, UnpublishStep, ReadStep, FindStep, WriteStep, KickStep
     DEF KeyNext

\* The invariant holds of every behaviour: a steady publisher has the camera's key
\* or is about to be kicked.  (CamerasService.rotateStreamKey, cameras.service.ts:869)
THEOREM KeysSound == KeySpec => []KeyInv
  BY KeyInitInv, KeyStepInv, PTL DEF KeySpec

\* Once rotations and deletions are over, whoever publishes with a key that is not
\* the camera's came on air during one of them, or something failed, for any keys,
\* connections and calls.  (CamerasService.rotateStreamKey, cameras.service.ts:869)
THEOREM StrangersExplained == KeySpec => []StrangerExplained
<1>1. KeyInv => StrangerExplained
  BY DEF KeyInv, Strangers, About, SteadyConn, StrangerExplained, KeyCallsIdle
<1>2. QED
  BY <1>1, KeysSound, PTL

(***************************************************************************)
(* Probes.  A job is active exactly while the processor is at it, and a    *)
(* camera that shows pending has a job that is waiting or active, or       *)
(* on_publish has just removed its own and is about to add it again.       *)
(***************************************************************************)
ActiveProbed == \A s \in Sources : probeJob[s].state = "active" <=> probing[s] # "idle"

StallsOnce == \A s \in Sources : probeJob[s].state # "failed" => probeJob[s].stalls <= 1

PendingServed ==
  codec = "pending" /\ ~orphaned =>
    \/ enqueuing = "add" /\ probeJob["srs-api"].state = "none"
    \/ \E s \in Sources : probeJob[s].state \in {"waiting", "active"}

ProbeInv == ProbeTypeOK /\ ActiveProbed /\ StallsOnce /\ PendingServed

LEMMA ProbeInitInv ==
  ASSUME ProbeInit
  PROVE  ProbeInv
<1> USE DEF ProbeInit, NoProbeJob
<1>1. 0 \in 0..MaxProbeFaults
  BY ProbeAssumption
<1>2. probeJob \in [Sources -> [state : {"none"}, stalls : 0..2]]
  OBVIOUS
<1>3. ProbeTypeOK
  BY <1>1, <1>2 DEF ProbeTypeOK
<1>4. ActiveProbed /\ StallsOnce /\ PendingServed
  BY DEF ActiveProbed, StallsOnce, PendingServed
<1>5. QED
  BY <1>3, <1>4 DEF ProbeInv

\* The queue adds a job where there is none, and changes nothing else.
LEMMA AddKeeps ==
  ASSUME ProbeInv, NEW s \in Sources, AddJob(s), probing' = probing
  PROVE  /\ probeJob' \in [Sources -> [state : {"none", "waiting", "active", "completed", "failed"},
                                       stalls : 0..2]]
         /\ ActiveProbed' /\ StallsOnce'
         /\ \A t \in Sources : probeJob[t].state \in {"waiting", "active"} => probeJob'[t] = probeJob[t]
         /\ probeJob[s].state = "none" => probeJob'[s].state = "waiting"
         /\ \A t \in Sources \ {s} : probeJob'[t] = probeJob[t]
  BY DEF ProbeInv, ProbeTypeOK, ActiveProbed, StallsOnce, AddJob

LEMMA EnqueueStep ==
  ASSUME ProbeInv, ProbeNew \/ ProbeRetry \/ SrsFind \/ SrsRemove \/ SrsAdd
  PROVE  ProbeInv'
<1> USE DEF ProbeInv, ProbeTypeOK, StallsOnce
<1>0. "ffprobe" \in Sources /\ "srs-api" \in Sources /\ \A s \in Sources : s = "ffprobe" \/ s = "srs-api"
  BY DEF Sources
<1>1. CASE ProbeNew
  BY <1>0, <1>1, AddKeeps DEF ProbeNew, PendingServed
<1>2. CASE ProbeRetry
  <2>1. \A t \in Sources \ {"ffprobe"} : probeJob'[t] = probeJob[t]
    BY <1>0, <1>2, AddKeeps DEF ProbeRetry
  <2>2. probeJob'["srs-api"] = probeJob["srs-api"]
    BY <1>0, <2>1
  <2>3. QED
    BY <1>0, <1>2, <2>2, AddKeeps DEF ProbeRetry, PendingServed
<1>3. CASE SrsFind
  BY <1>3 DEF SrsFind, ActiveProbed, PendingServed
<1>4. CASE SrsRemove
  <2>1. CASE probeJob["srs-api"].state = "active"
    BY <1>0, <1>4, <2>1 DEF SrsRemove, ActiveProbed, PendingServed
  <2>2. CASE probeJob["srs-api"].state # "active"
    <3>1. probeJob' = [probeJob EXCEPT !["srs-api"] = NoProbeJob]
      BY <1>4, <2>2 DEF SrsRemove
    <3>2. probeJob'["srs-api"].state = "none" /\ enqueuing' = "add"
      BY <1>0, <1>4, <3>1 DEF SrsRemove, NoProbeJob
    <3>3. ActiveProbed'
      BY <1>0, <1>4, <2>2, <3>1 DEF SrsRemove, ActiveProbed, NoProbeJob
    <3>4. NoProbeJob \in [state : {"none"}, stalls : 0..2] /\ NoProbeJob.stalls = 0
      BY DEF NoProbeJob
    <3>5. probeJob' \in [Sources -> [state : {"none", "waiting", "active", "completed", "failed"},
                                     stalls : 0..2]]
      BY <3>1, <3>4
    <3>6. StallsOnce'
      BY <3>1, <3>4
    <3>7. PendingServed'
      BY <3>2 DEF PendingServed
    <3>8. QED
      BY <1>4, <3>3, <3>5, <3>6, <3>7 DEF SrsRemove
  <2>3. QED
    BY <2>1, <2>2
<1>5. CASE SrsAdd
  BY <1>0, <1>5, AddKeeps DEF SrsAdd, PendingServed
<1>6. QED
  BY <1>1, <1>2, <1>3, <1>4, <1>5

\* A fault is counted within its bound.
LEMMA FaultCounted ==
  ASSUME ProbeTypeOK, Fault
  PROVE  faults' \in 0..MaxProbeFaults
  BY ProbeAssumption DEF ProbeTypeOK, Fault

LEMMA EndedKeeps ==
  ASSUME ProbeInv, NEW s \in Sources, probing[s] # "idle",
         NEW end \in {"completed", "failed"}, Ended(s, end)
  PROVE  /\ probeJob' \in [Sources -> [state : {"none", "waiting", "active", "completed", "failed"},
                                       stalls : 0..2]]
         /\ probing' \in [Sources -> {"idle", "pending", "probe", "success", "failed", "mismatch"}]
         /\ ActiveProbed' /\ StallsOnce'
<1> USE DEF ProbeInv, ProbeTypeOK, Ended
<1>1. \A t \in Sources : probeJob'[t].state \in {probeJob[t].state, end}
        /\ probeJob'[t].stalls = probeJob[t].stalls
  OBVIOUS
<1>2. probeJob'[s].state = end /\ probing'[s] = "idle"
  OBVIOUS
<1>3. \A t \in Sources \ {s} : probeJob'[t] = probeJob[t] /\ probing'[t] = probing[t]
  OBVIOUS
<1>4. ActiveProbed'
  BY <1>2, <1>3 DEF ActiveProbed
<1>5. StallsOnce'
  BY <1>1, <1>3 DEF StallsOnce, ActiveProbed
<1>6. QED
  BY <1>4, <1>5

LEMMA ProcessStep ==
  ASSUME ProbeInv, NEW s \in Sources, ProbeStep(s)
  PROVE  ProbeInv'
<1> USE DEF ProbeInv, ProbeTypeOK, StallsOnce
<1>1. CASE ProbeTake(s)
  BY <1>1 DEF ProbeTake, ActiveProbed, PendingServed
<1>2. CASE WritePending(s)
  <2>1. CASE /\ codec' = "pending" /\ probing' = [probing EXCEPT ![s] = "probe"]
             /\ UNCHANGED <<probeJob, faults, orphaned>>
    BY <1>2, <2>1 DEF WritePending, ActiveProbed, PendingServed
  <2>2. CASE Fault /\ Ended(s, "failed") /\ orphaned' = TRUE /\ UNCHANGED codec
    BY <1>2, <2>2, FaultCounted, EndedKeeps DEF WritePending, PendingServed
  <2>3. QED
    BY <1>2, <2>1, <2>2 DEF WritePending
<1>3. CASE Probed(s)
  BY <1>3 DEF Probed, ActiveProbed, PendingServed
<1>4. CASE WriteResult(s)
  <2>1. CASE codec' = probing[s] /\ Ended(s, "completed") /\ UNCHANGED faults
    BY <1>4, <2>1, EndedKeeps DEF WriteResult, PendingServed
  <2>2. CASE Fault /\ probing' = [probing EXCEPT ![s] = "failed"] /\ UNCHANGED <<codec, probeJob>>
    BY <1>4, <2>2, FaultCounted DEF WriteResult, ActiveProbed, PendingServed
  <2>3. QED
    BY <1>4, <2>1, <2>2 DEF WriteResult
<1>5. CASE WriteFailed(s)
  <2>1. CASE codec' = "failed" /\ UNCHANGED <<faults, orphaned>>
    BY <1>5, <2>1, EndedKeeps DEF WriteFailed, PendingServed
  <2>2. CASE Fault /\ orphaned' = TRUE /\ UNCHANGED codec
    BY <1>5, <2>2, FaultCounted, EndedKeeps DEF WriteFailed, PendingServed
  <2>3. QED
    BY <1>5, <2>1, <2>2 DEF WriteFailed
<1>6. QED
  BY <1>1, <1>2, <1>3, <1>4, <1>5 DEF ProbeStep

LEMMA CrashStep ==
  ASSUME ProbeInv, ProbeCrash
  PROVE  ProbeInv'
<1> USE DEF ProbeInv, ProbeTypeOK, ProbeCrash
<1>1. ASSUME NEW s \in Sources
      PROVE  /\ probeJob[s].state # "active" => probeJob'[s] = probeJob[s]
             /\ probeJob[s].state = "active" =>
                  /\ probeJob[s].stalls = 0 => probeJob'[s] = [state |-> "waiting", stalls |-> 1]
                  /\ probeJob[s].stalls # 0 => probeJob'[s].state = "failed"
  OBVIOUS
<1>2. probeJob' \in [Sources -> [state : {"none", "waiting", "active", "completed", "failed"},
                                 stalls : 0..2]]
  BY DEF StallsOnce
<1>3. faults' \in 0..MaxProbeFaults
  BY FaultCounted
<1>4. orphaned' \in BOOLEAN /\ enqueuing' = "idle" /\ UNCHANGED <<codec, wanted>>
  OBVIOUS
<1>5. probing' \in [Sources -> {"idle"}]
  OBVIOUS
<1>6. ProbeTypeOK'
  BY <1>2, <1>3, <1>4, <1>5
<1>7. ASSUME NEW s \in Sources
      PROVE  probeJob'[s].state # "active" /\ (probeJob'[s].state # "failed" => probeJob'[s].stalls <= 1)
  BY <1>1 DEF StallsOnce
<1>8. ASSUME codec' = "pending", ~orphaned'
      PROVE  \E s \in Sources : probeJob'[s].state \in {"waiting", "active"}
  <2>1. ~orphaned /\ enqueuing # "add" /\ \A s \in Sources : probeJob'[s].state # "failed"
    BY <1>8
  <2>2. PICK s \in Sources : probeJob[s].state \in {"waiting", "active"}
    BY <1>4, <1>8, <2>1 DEF PendingServed
  <2>3. probeJob'[s].state = "waiting"
    BY <1>1, <2>1, <2>2
  <2>4. QED
    BY <2>3
<1>9. QED
  BY <1>5, <1>6, <1>7, <1>8 DEF ActiveProbed, StallsOnce, PendingServed

LEMMA ProbeStepInv == ProbeInv /\ [ProbeNext]_probeVars => ProbeInv'
<1> SUFFICES ASSUME ProbeInv, [ProbeNext]_probeVars PROVE ProbeInv'
  OBVIOUS
<1>1. CASE UNCHANGED probeVars
  BY <1>1 DEF probeVars, ProbeInv, ProbeTypeOK, ActiveProbed, StallsOnce, PendingServed
<1>2. QED
  BY <1>1, EnqueueStep, ProcessStep, CrashStep DEF ProbeNext

\* The invariant holds of every behaviour: jobs and processor agree, and pending is
\* served.  (StreamProbeProcessor.process, stream-probe.processor.ts:95)
THEOREM ProbesSound == ProbeSpec => []ProbeInv
  BY ProbeInitInv, ProbeStepInv, PTL DEF ProbeSpec

\* Pending is not shown for ever for want of a probe, but for one that ended without
\* its last word, for any number of faults.  (stream-probe.processor.ts:108)
THEOREM PendingAlwaysHasProbe == ProbeSpec => []PendingHasProbe
<1>1. ProbeInv => PendingHasProbe
  BY DEF ProbeInv, PendingServed, PendingHasProbe
<1>2. QED
  BY <1>1, ProbesSound, PTL

(***************************************************************************)
(* TagCache.  While nothing older may have been cached, neither copy nor   *)
(* any answer on its way is older than the last bulk action; and what a    *)
(* bulk action has read of a camera it has still to write is what the row  *)
(* has, unless the camera was crossed.                                     *)
(***************************************************************************)
NotOlder(seen) == seen # None => seen >= settled

TagFresh ==
  /\ settled <= edits
  /\ \A r \in Readers : reader[r].at \in {"setex", "answer"} => reader[r].seen # None
  /\ ~cachedLate => NotOlder(redis) /\ NotOlder(memory) /\ \A r \in Readers : NotOlder(reader[r].seen)

TagsAsRead ==
  /\ \A e \in Editors : editor[e].at = "loop" => editor[e].tag \in Tags
  /\ \A e \in Editors : \A m \in editor[e].left \ crossed : editor[e].read[m] = tags[m]

TagInv == TagTypeOK /\ TagFresh /\ TagsAsRead /\ TagLostOnlyWhenCrossed

LEMMA InitTags == TagInit => TagInv
<1> SUFFICES ASSUME TagInit PROVE TagInv
  OBVIOUS
<1> USE TagAssumption DEF TagInit
<1>1. TagTypeOK
  <2>1. NoEditor \in [at : {"idle", "loop", "del"}, action : {"add", "remove"},
                      tag : Tags \cup {None}, read : [Tagged -> SUBSET Tags], left : SUBSET Tagged]
    BY DEF NoEditor, Unread
  <2>2. 0 \in 0..MaxEdits /\ 0 \in 0..MaxOutages
    OBVIOUS
  <2>3. QED
    BY <2>1, <2>2 DEF TagTypeOK
<1>2. TagFresh
  BY DEF TagFresh, NotOlder
<1>3. TagsAsRead /\ TagLostOnlyWhenCrossed
  BY DEF TagsAsRead, TagLostOnlyWhenCrossed, NoEditor
<1>4. QED
  BY <1>1, <1>2, <1>3 DEF TagInv

LEMMA EditReadStep ==
  ASSUME TagInv, NEW e \in Editors, EditRead(e)
  PROVE  TagInv'
<1> USE TagAssumption DEF TagInv
<1>1. PICK action \in {"add", "remove"}, t \in Tags, ids \in SUBSET Tagged :
        editor' = [editor EXCEPT ![e] =
          [at |-> "loop", action |-> action, tag |-> t,
           left |-> {m \in ids : t \in tags[m] <=> action = "remove"},
           read |-> [m \in Tagged |->
             IF m \in {n \in ids : t \in tags[n] <=> action = "remove"} THEN tags[m] ELSE {}]]]
  BY DEF EditRead, Edit
<1>2. UNCHANGED <<redis, memory, reader, outages>> /\ UNCHANGED tagRows /\ UNCHANGED tagPast
  BY DEF EditRead
<1> USE <1>2 DEF tagRows, tagPast
<1>3. TagTypeOK'
  BY <1>1 DEF TagTypeOK
<1>4. TagFresh'
  BY DEF TagFresh, NotOlder
<1>5. TagsAsRead' /\ TagLostOnlyWhenCrossed'
  <2>1. TagLostOnlyWhenCrossed'
    BY DEF TagLostOnlyWhenCrossed
  <2>2. ASSUME NEW f \in Editors
        PROVE  /\ editor'[f].at = "loop" => editor'[f].tag \in Tags
               /\ \A m \in editor'[f].left \ crossed : editor'[f].read[m] = tags[m]
    <3>1. CASE f = e
      BY <1>1, <3>1 DEF TagTypeOK
    <3>2. CASE f # e
      BY <1>1, <3>2 DEF TagTypeOK, TagsAsRead
    <3>3. QED
      BY <3>1, <3>2
  <2>3. QED
    BY <2>1, <2>2 DEF TagsAsRead
<1>6. QED
  BY <1>3, <1>4, <1>5

\* What a bulk action does to one camera: the row becomes what it read with its tag added or
\* removed, which is the row with that tag added or removed unless the camera is crossed.
LEMMA EditCameraStep ==
  ASSUME TagInv, NEW e \in Editors, EditCamera(e)
  PROVE  TagInv'
<1> USE TagAssumption DEF TagInv
<1> DEFINE k == editor[e]
<1>1. k.at = "loop" /\ k \in [at : {"idle", "loop", "del"}, action : {"add", "remove"},
        tag : Tags, read : [Tagged -> SUBSET Tags], left : SUBSET Tagged]
  BY DEF EditCamera, TagTypeOK, TagsAsRead
<1>2. UNCHANGED <<redis, memory, reader, outages>> /\ UNCHANGED tagPast
  BY DEF EditCamera
<1>3. PICK m \in k.left :
        IF Cardinality(After(k, m)) > TagMax THEN Edit(e, NoEditor) /\ UNCHANGED tagRows
        ELSE /\ edits < MaxEdits /\ edits' = edits + 1
             /\ tags' = [tags EXCEPT ![m] = After(k, m)]
             /\ done' = [done EXCEPT ![m][k.tag] = k.action]
             /\ crossed' = IF \E f \in Editors \ {e} : m \in editor[f].left
                           THEN crossed \cup {m} ELSE crossed
             /\ Edit(e, IF k.left = {m} THEN [NoEditor EXCEPT !.at = "del"]
                        ELSE [k EXCEPT !.left = @ \ {m}, !.read[m] = {}])
  BY DEF EditCamera
<1>4. After(k, m) \in SUBSET Tags /\ m \in Tagged
  BY <1>1 DEF After
<1>5. CASE Cardinality(After(k, m)) > TagMax
  <2>1. editor' = [editor EXCEPT ![e] = NoEditor] /\ UNCHANGED tagRows
    BY <1>3, <1>5 DEF Edit
  <2>2. TagTypeOK'
    BY <1>2, <2>1 DEF TagTypeOK, NoEditor, Unread, tagRows, tagPast
  <2>3. TagFresh'
    BY <1>2, <2>1 DEF TagFresh, NotOlder, tagRows, tagPast
  <2>4. TagsAsRead' /\ TagLostOnlyWhenCrossed'
    BY <2>1 DEF TagTypeOK, TagsAsRead, TagLostOnlyWhenCrossed, NoEditor, tagRows
  <2>5. QED
    BY <2>2, <2>3, <2>4
<1>6. CASE ~(Cardinality(After(k, m)) > TagMax)
  <2> DEFINE next == IF k.left = {m} THEN [NoEditor EXCEPT !.at = "del"]
                     ELSE [k EXCEPT !.left = @ \ {m}, !.read[m] = {}]
  <2>1. /\ edits < MaxEdits /\ edits' = edits + 1
        /\ tags' = [tags EXCEPT ![m] = After(k, m)]
        /\ done' = [done EXCEPT ![m][k.tag] = k.action]
        /\ crossed' = IF \E f \in Editors \ {e} : m \in editor[f].left
                      THEN crossed \cup {m} ELSE crossed
        /\ editor' = [editor EXCEPT ![e] = next]
    BY <1>3, <1>6 DEF Edit
  <2>2. /\ next \in [at : {"idle", "loop", "del"}, action : {"add", "remove"},
                     tag : Tags \cup {None}, read : [Tagged -> SUBSET Tags], left : SUBSET Tagged]
        /\ next.left = k.left \ {m}
        /\ next.at = "loop" => next.tag \in Tags
        /\ \A n \in next.left : next.read[n] = k.read[n]
    BY <1>1, <1>4 DEF NoEditor, Unread
  <2>3. done' \in [Tagged -> [Tags -> {"nothing", "add", "remove"}]]
    <3>1. done \in [Tagged -> [Tags -> {"nothing", "add", "remove"}]]
      BY DEF TagTypeOK
    <3>2. QED
      BY <1>1, <1>4, <2>1, <3>1
  <2>4. TagTypeOK'
    <3> HIDE DEF next
    <3>1. edits' \in 0..MaxEdits
      BY <2>1 DEF TagTypeOK
    <3>2. tags' \in [Tagged -> SUBSET Tags] /\ crossed' \subseteq Tagged
      BY <1>4, <2>1 DEF TagTypeOK
    <3>3. editor' \in [Editors -> [at : {"idle", "loop", "del"}, action : {"add", "remove"},
                        tag : Tags \cup {None}, read : [Tagged -> SUBSET Tags], left : SUBSET Tagged]]
      BY <2>1, <2>2 DEF TagTypeOK
    <3>4. QED
      BY <1>2, <2>3, <3>1, <3>2, <3>3 DEF TagTypeOK, tagPast
  <2>5. TagFresh'
    BY <1>2, <2>1 DEF TagFresh, NotOlder, tagPast, TagTypeOK
  <2>6. TagsAsRead'
    <3>1. ASSUME NEW f \in Editors
          PROVE  /\ editor'[f].at = "loop" => editor'[f].tag \in Tags
                 /\ \A n \in editor'[f].left \ crossed' : editor'[f].read[n] = tags'[n]
      <4> HIDE DEF next
      <4>1. CASE f = e
        <5>1. editor'[f] = next
          BY <2>1, <4>1 DEF TagTypeOK
        <5>2. \A n \in next.left \ crossed' : tags'[n] = k.read[n]
          BY <1>1, <2>1, <2>2 DEF TagsAsRead, TagTypeOK
        <5>3. QED
          BY <2>2, <5>1, <5>2
      <4>2. CASE f # e
        <5>1. editor'[f] = editor[f]
          BY <2>1, <4>2 DEF TagTypeOK
        <5>2. \A n \in editor[f].left \ crossed' : n # m /\ n \notin crossed
          BY <2>1, <4>2
        <5>3. \A n \in editor[f].left \ crossed' : tags'[n] = tags[n]
          BY <2>1, <5>2 DEF TagTypeOK
        <5>4. QED
          BY <5>1, <5>2, <5>3 DEF TagsAsRead
      <4>3. QED
        BY <4>1, <4>2
    <3>2. QED
      BY <3>1 DEF TagsAsRead
  <2>7. TagLostOnlyWhenCrossed'
    <3>1. ASSUME NEW n \in Tagged \ crossed', NEW t \in Tags
          PROVE  /\ done'[n][t] = "add" => t \in tags'[n]
                 /\ done'[n][t] = "remove" => t \notin tags'[n]
      <4>1. n \in Tagged \ crossed
        BY <2>1
      <4>2. CASE n # m
        BY <2>1, <4>1, <4>2 DEF TagTypeOK, TagLostOnlyWhenCrossed
      <4>3. CASE n = m
        <5>1. k.read[m] = tags[m] /\ tags'[m] = After(k, m)
          BY <1>4, <2>1, <4>1, <4>3 DEF TagsAsRead, TagTypeOK
        <5>2. done'[m] = [done[m] EXCEPT ![k.tag] = k.action]
          BY <1>4, <2>1 DEF TagTypeOK
        <5>3. CASE t = k.tag
          <6>1. done'[m][t] = k.action
            BY <5>2, <5>3, <1>4 DEF TagTypeOK
          <6>2. QED
            BY <4>3, <5>1, <5>3, <6>1 DEF After
        <5>4. CASE t # k.tag
          <6>1. done'[m][t] = done[m][t]
            BY <5>2, <5>4, <1>4 DEF TagTypeOK
          <6>2. t \in tags'[m] <=> t \in tags[m]
            BY <5>1, <5>4 DEF After
          <6>3. QED
            BY <4>1, <4>3, <6>1, <6>2 DEF TagLostOnlyWhenCrossed
        <5>5. QED
          BY <5>3, <5>4
      <4>4. QED
        BY <4>2, <4>3
    <3>2. QED
      BY <3>1 DEF TagLostOnlyWhenCrossed
  <2>8. QED
    BY <2>4, <2>5, <2>6, <2>7
<1>7. QED
  BY <1>5, <1>6

\* The cache is cleared: whatever a request was given before the last edit excuses it.
LEMMA InvalidateStep ==
  ASSUME TagInv, NEW e \in Editors, Invalidate(e)
  PROVE  TagInv'
<1> USE TagAssumption DEF TagInv
<1>1. /\ editor' = [editor EXCEPT ![e] = NoEditor] /\ memory' = None /\ settled' = edits
      /\ \/ redis' = None /\ UNCHANGED outages
         \/ outages < MaxOutages /\ outages' = outages + 1 /\ UNCHANGED redis
      /\ cachedLate' = (outages' # outages \/ \E r \in Readers : Older(reader[r].seen))
      /\ UNCHANGED reader /\ UNCHANGED tagRows
  BY DEF Invalidate, Edit, Forgotten, Outage
<1>2. TagTypeOK'
  BY <1>1 DEF TagTypeOK, NoEditor, Unread, tagRows
<1>3. TagFresh'
  <2>1. outages' \in Nat /\ outages \in Nat /\ edits \in Nat
    BY <1>1 DEF TagTypeOK
  <2>2. ~cachedLate' => redis' = None /\ \A r \in Readers : reader[r].seen # None => reader[r].seen >= edits
    <3>1. \A r \in Readers : reader[r].seen \in Nat \cup {None}
      BY DEF TagTypeOK
    <3>2. ~cachedLate' => outages' = outages /\ \A r \in Readers : ~Older(reader[r].seen)
      BY <1>1
    <3>3. outages' = outages => redis' = None
      BY <1>1, <2>1
    <3>4. QED
      BY <2>1, <3>1, <3>2, <3>3 DEF Older
  <2>3. QED
    BY <1>1, <2>1, <2>2 DEF TagFresh, NotOlder, tagRows
<1>4. TagsAsRead' /\ TagLostOnlyWhenCrossed'
  BY <1>1 DEF TagTypeOK, TagsAsRead, TagLostOnlyWhenCrossed, NoEditor, tagRows
<1>5. QED
  BY <1>2, <1>3, <1>4

\* Requests and the TTL do not touch the rows or the bulk actions.
LEMMA TagReaderStep ==
  ASSUME TagInv, EntryExpires \/ \E r \in Readers : Lookup(r) \/ Compute(r) \/ Fill(r) \/ Answer(r)
  PROVE  TagInv'
<1> USE TagAssumption DEF TagInv, Read, Outage
<1>1. UNCHANGED editor /\ UNCHANGED tagRows /\ UNCHANGED tagPast
  BY DEF EntryExpires, Lookup, Compute, Fill, Answer
<1>2. TagsAsRead' /\ TagLostOnlyWhenCrossed'
  BY <1>1 DEF TagsAsRead, TagLostOnlyWhenCrossed, tagRows
<1>3. TagTypeOK' /\ TagFresh'
  <2> USE <1>1 DEF tagRows, tagPast
  <2>1. CASE EntryExpires
    BY <2>1 DEF EntryExpires, TagTypeOK, TagFresh, NotOlder
  <2>2. ASSUME NEW r \in Readers, Lookup(r) PROVE TagTypeOK' /\ TagFresh'
    <3>1. TagTypeOK'
      BY <2>2 DEF Lookup, TagTypeOK
    <3>2. TagFresh'
      BY <2>2 DEF Lookup, TagTypeOK, TagFresh, NotOlder
    <3>3. QED
      BY <3>1, <3>2
  <2>3. ASSUME NEW r \in Readers, Compute(r) PROVE TagTypeOK' /\ TagFresh'
    <3>1. TagTypeOK'
      BY <2>3 DEF Compute, TagTypeOK
    <3>2. TagFresh'
      BY <2>3 DEF Compute, TagTypeOK, TagFresh, NotOlder
    <3>3. QED
      BY <3>1, <3>2
  <2>4. ASSUME NEW r \in Readers, Fill(r) PROVE TagTypeOK' /\ TagFresh'
    <3>1. TagTypeOK'
      BY <2>4 DEF Fill, TagTypeOK
    <3>2. TagFresh'
      BY <2>4 DEF Fill, TagTypeOK, TagFresh, NotOlder
    <3>3. QED
      BY <3>1, <3>2
  <2>5. ASSUME NEW r \in Readers, Answer(r) PROVE TagTypeOK' /\ TagFresh'
    BY <2>5 DEF Answer, TagTypeOK, TagFresh, NotOlder
  <2>6. QED
    BY <2>1, <2>2, <2>3, <2>4, <2>5
<1>4. QED
  BY <1>2, <1>3

LEMMA TagStep == TagInv /\ [TagNext]_tagVars => TagInv'
<1>1. ASSUME TagInv, UNCHANGED tagVars PROVE TagInv'
  BY <1>1 DEF TagInv, TagTypeOK, TagFresh, NotOlder, TagsAsRead, TagLostOnlyWhenCrossed, tagVars
<1>2. QED
  BY <1>1, EditReadStep, EditCameraStep, InvalidateStep, TagReaderStep DEF TagNext

\* Neither copy is older than the last bulk action while nothing older may have been cached,
\* and what a bulk action has read is what the rows have.  (tag-cache.service.ts:79,
\* cameras.service.ts:497)
THEOREM TagInvHolds == TagSpec => []TagInv
  BY InitTags, TagStep, PTL DEF TagSpec

\* What bulk actions did to tags stays, and answers about tags are not older than the last
\* of them, but for the excuses the property names.  (tag-cache.service.ts:79,
\* cameras.service.ts:497)
THEOREM TagsSoundHolds == TagSpec => []TagsSound
<1>1. TagInv => TagsSound
  BY DEF TagInv, TagFresh, NotOlder, TagsSound, StaleOnlyWhenExcused
<1>2. QED
  BY <1>1, TagInvHolds, PTL

(***************************************************************************)
(* CameraInventory.  Of the calls admitted to insert, the last one to be   *)
(* admitted saw room for its rows; every other can exceed the quota by     *)
(* what one import holds (QuotaRoom).  An import in progress has rows whose *)
(* URLs differ, and knows of every one of them that is taken by now        *)
(* (FreshRows).                                                            *)
(***************************************************************************)
AdmittedCalls == {c \in Calls : adding[c].at \in {"create", "import"}}
QuotaBound == MaxCameras + (Cardinality(Calls) - 1) * MaxRows
UrlsOf(rows) == {rows[k] : k \in DOMAIN rows} \ {Push}

LeavesRoom(c) == Count + RowCount(adding[c].rows) + Cardinality(AdmittedCalls \ {c}) * MaxRows <= QuotaBound
QuotaRoom == AdmittedCalls = {} \/ \E c \in AdmittedCalls : LeavesRoom(c)

Distinct(rows) == \A j, k \in DOMAIN rows : rows[j] = rows[k] /\ rows[j] # Push => j = k
FreshRows ==
  \A c \in Calls : adding[c].at \in {"check", "import"} =>
    Distinct(adding[c].rows) /\ UrlsOf(adding[c].rows) \cap pull \subseteq theirs[c]

InventoryInv ==
  /\ InventoryTypeOK /\ CameraQuotaNearlyKept
  /\ QuotaRoom /\ FreshRows /\ ~clash

\* The numbers the quota is reckoned with are natural numbers.
LEMMA InventoryCounts ==
  /\ QuotaBound \in Nat /\ MaxRows \in Nat /\ MaxCameras \in Nat
  /\ Cardinality(Calls) \in Nat /\ Cardinality(Calls) - 1 \in Nat
  /\ (Cardinality(Calls) - 1) * MaxRows \in Nat
<1> USE InventoryAssumption
<1>1. Cardinality(Calls) \in Nat /\ Cardinality(Calls) # 0
  BY FS_CardinalityType, FS_EmptySet
<1>2. (Cardinality(Calls) - 1) * MaxRows \in Nat
  BY <1>1
<1>3. QED
  BY <1>1, <1>2 DEF QuotaBound

\* Sets of URLs and of calls are finite.
LEMMA UrlsFinite ==
  ASSUME NEW S \in SUBSET Urls
  PROVE  IsFiniteSet(S) /\ Cardinality(S) \in Nat
<1>1. IsFiniteSet(S)
  BY InventoryAssumption, FS_Subset
<1>2. QED
  BY <1>1, FS_CardinalityType

LEMMA CallsFinite ==
  ASSUME NEW A \in SUBSET Calls
  PROVE  IsFiniteSet(A) /\ Cardinality(A) \in Nat
<1>1. IsFiniteSet(A)
  BY InventoryAssumption, FS_Subset
<1>2. QED
  BY <1>1, FS_CardinalityType

LEMMA CountNatural ==
  /\ InventoryTypeOK => Count \in Nat
  /\ InventoryTypeOK' => Count' \in Nat
<1>1. ASSUME InventoryTypeOK PROVE Count \in Nat
  <2>1. pull \in SUBSET Urls /\ push \in Nat
    BY <1>1 DEF InventoryTypeOK
  <2>2. QED
    BY <2>1, UrlsFinite DEF Count
<1>2. ASSUME InventoryTypeOK' PROVE Count' \in Nat
  <2>1. pull' \in SUBSET Urls /\ push' \in Nat
    BY <1>2 DEF InventoryTypeOK
  <2>2. QED
    BY <2>1, UrlsFinite DEF Count
<1>3. QED
  BY <1>1, <1>2

\* What ToInsert and createCamera make of a request: no more rows than a file has.
LEMMA RowsCounted ==
  ASSUME NEW places \in SUBSET (1..MaxRows), NEW rows \in [places -> Urls \cup {Push}]
  PROVE  /\ IsFiniteSet(places) /\ RowCount(rows) \in Nat /\ RowCount(rows) <= MaxRows
         /\ IsFiniteSet(UrlsOf(rows)) /\ UrlsOf(rows) \subseteq Urls
         /\ Cardinality(UrlsOf(rows)) + Cardinality({k \in DOMAIN rows : rows[k] = Push}) <= RowCount(rows)
         /\ Cardinality(UrlsOf(rows)) \in Nat
         /\ Cardinality({k \in DOMAIN rows : rows[k] = Push}) \in Nat
<1> USE InventoryAssumption
<1> DEFINE pushes == {k \in places : rows[k] = Push}
           pulls == places \ pushes
           at == [k \in pulls |-> rows[k]]
<1>1. IsFiniteSet(1..MaxRows) /\ Cardinality(1..MaxRows) = MaxRows
  <2>1. 1 \in Int /\ MaxRows \in Int /\ ~(1 > MaxRows) /\ MaxRows - 1 + 1 = MaxRows
    BY InventoryAssumption
  <2>2. IsFiniteSet(1..MaxRows) /\ Cardinality(1..MaxRows) = IF 1 > MaxRows THEN 0 ELSE MaxRows - 1 + 1
    BY <2>1, FS_Interval
  <2>3. QED
    BY <2>1, <2>2
<1>2. IsFiniteSet(places) /\ Cardinality(places) <= MaxRows
  <2>1. IsFiniteSet(places) /\ Cardinality(places) <= Cardinality(1..MaxRows)
    BY <1>1, FS_Subset, Zenon
  <2>2. QED
    BY <1>1, <2>1
<1>3. Cardinality(places) \in Nat
  BY <1>2, FS_CardinalityType
<1>4. IsFiniteSet(pulls) /\ Cardinality(pulls) = Cardinality(places) - Cardinality(places \cap pushes)
  BY <1>2, FS_Difference
<1>5. IsFiniteSet(pushes) /\ places \cap pushes = pushes
  BY <1>2, FS_Subset
<1>6. Cardinality(pushes) \in Nat /\ Cardinality(pulls) \in Nat
  BY <1>4, <1>5, FS_CardinalityType
<1>7. at \in Surjection(pulls, UrlsOf(rows))
  BY DEF Surjection, UrlsOf
<1>8. IsFiniteSet(UrlsOf(rows)) /\ Cardinality(UrlsOf(rows)) <= Cardinality(pulls)
  <2> HIDE DEF at, pulls
  <2>1. QED
    BY <1>7, <1>4, FS_Surjection
<1>9. Cardinality(UrlsOf(rows)) \in Nat
  BY <1>8, FS_CardinalityType
<1>10. DOMAIN rows = places /\ UrlsOf(rows) \subseteq Urls
  BY DEF UrlsOf
<1>11. Cardinality(UrlsOf(rows)) + Cardinality(pushes) <= Cardinality(places)
  <2> HIDE DEF pushes, pulls
  <2>1. Cardinality(pulls) = Cardinality(places) - Cardinality(pushes)
    BY <1>4, <1>5
  <2>2. Cardinality(UrlsOf(rows)) <= Cardinality(pulls)
    BY <1>8
  <2>3. QED
    BY <1>3, <1>6, <1>9, <2>1, <2>2
<1>12. {k \in DOMAIN rows : rows[k] = Push} = pushes /\ RowCount(rows) = Cardinality(places)
  BY <1>10 DEF RowCount
<1>13. QED
  <2> HIDE DEF pushes, pulls, at
  <2>1. QED
    BY <1>1, <1>2, <1>3, <1>6, <1>8, <1>9, <1>10, <1>11, <1>12

\* The rows of a call are at places of its file.
LEMMA CallRows ==
  ASSUME InventoryTypeOK, NEW c \in Calls
  PROVE  \E places \in SUBSET (1..MaxRows) : adding[c].rows \in [places -> Urls \cup {Push}]
<1>1. adding[c].rows \in UNION {[places -> Urls \cup {Push}] : places \in SUBSET (1..MaxRows)}
  BY DEF InventoryTypeOK
<1>2. QED
  BY <1>1

\* Arithmetic of the quota.
LEMMA OneCallMore ==
  ASSUME NEW n \in Nat, NEW m \in Nat
  PROVE  (n + 1) * m = n * m + m /\ n * m \in Nat
  OBVIOUS

LEMMA MoreCallsMoreRows ==
  ASSUME NEW n \in Nat, NEW k \in Nat, NEW m \in Nat, n <= k
  PROVE  n * m <= k * m
<1>1. PICK d \in Nat : k = n + d
  <2>1. k - n \in Nat /\ k = n + (k - n)
    OBVIOUS
  <2>2. QED
    BY <2>1
<1>2. k * m = n * m + d * m /\ d * m \in Nat /\ n * m \in Nat
  BY <1>1
<1>3. QED
  BY <1>2

LEMMA RowsOfCalls ==
  ASSUME NEW c \in Calls
  PROVE  /\ InventoryTypeOK => RowCount(adding[c].rows) \in 0..MaxRows
         /\ InventoryTypeOK' => RowCount(adding'[c].rows) \in 0..MaxRows
<1>1. ASSUME NEW places \in SUBSET (1..MaxRows), NEW rows \in [places -> Urls \cup {Push}]
      PROVE  RowCount(rows) \in 0..MaxRows
  <2>1. RowCount(rows) \in Nat /\ RowCount(rows) <= MaxRows
    BY RowsCounted, Zenon
  <2>2. QED
    BY <2>1, InventoryAssumption
<1>2. ASSUME InventoryTypeOK PROVE RowCount(adding[c].rows) \in 0..MaxRows
  <2>1. PICK places \in SUBSET (1..MaxRows) : adding[c].rows \in [places -> Urls \cup {Push}]
    BY <1>2, CallRows
  <2>2. QED
    BY <1>1, <2>1
<1>3. ASSUME InventoryTypeOK' PROVE RowCount(adding'[c].rows) \in 0..MaxRows
  <2>1. PICK places \in SUBSET (1..MaxRows) : adding'[c].rows \in [places -> Urls \cup {Push}]
    BY <1>3 DEF InventoryTypeOK
  <2>2. QED
    BY <1>1, <2>1
<1>4. QED
  BY <1>2, <1>3

LEMMA InitInventory == InventoryInit => InventoryInv
<1> SUFFICES ASSUME InventoryInit PROVE InventoryInv
  OBVIOUS
<1> USE DEF InventoryInit
<1>1. InventoryTypeOK
  <2>1. <<>> \in [{} -> Urls \cup {Push}] /\ {} \in SUBSET (1..MaxRows)
    OBVIOUS
  <2>2. NoCreate.rows \in UNION {[places -> Urls \cup {Push}] : places \in SUBSET (1..MaxRows)}
    BY <2>1 DEF NoCreate
  <2>3. QED
    BY <2>2 DEF InventoryTypeOK, NoCreate
<1>2. CameraQuotaNearlyKept
  BY <1>1, CountNatural, InventoryCounts DEF CameraQuotaNearlyKept
<1>3. AdmittedCalls = {} /\ \A c \in Calls : adding[c].at = "idle"
  BY DEF AdmittedCalls, NoCreate
<1>4. QED
  BY <1>1, <1>2, <1>3 DEF InventoryInv, QuotaRoom, FreshRows

\* A call that is admitted saw room for its rows, whatever the others do.
LEMMA AdmittedLeavesRoom ==
  ASSUME InventoryInv, InventoryTypeOK', NEW c \in Calls, c \in AdmittedCalls',
         Count' + RowCount(adding'[c].rows) <= MaxCameras
  PROVE  QuotaRoom'
<1>1. /\ Count' \in Nat /\ RowCount(adding'[c].rows) \in Nat /\ MaxRows \in Nat
      /\ Cardinality(Calls) \in Nat /\ Cardinality(Calls) - 1 \in Nat /\ MaxCameras \in Nat
  BY InventoryCounts, CountNatural, RowsOfCalls
<1>2. (AdmittedCalls \ {c})' \in SUBSET (Calls \ {c})
  BY DEF AdmittedCalls
<1>3. IsFiniteSet(Calls \ {c}) /\ Cardinality(Calls \ {c}) = Cardinality(Calls) - 1
  BY InventoryAssumption, FS_RemoveElement
<1>4. Cardinality((AdmittedCalls \ {c})') <= Cardinality(Calls) - 1
  <2>1. Cardinality((AdmittedCalls \ {c})') <= Cardinality(Calls \ {c})
    BY <1>2, <1>3, FS_Subset, Zenon
  <2>2. QED
    BY <2>1, <1>3
<1>5. Cardinality((AdmittedCalls \ {c})') \in Nat
  BY <1>2, CallsFinite
<1>6. Cardinality((AdmittedCalls \ {c})') * MaxRows <= (Cardinality(Calls) - 1) * MaxRows
  BY <1>1, <1>4, <1>5, MoreCallsMoreRows
<1>7. (Cardinality(Calls) - 1) * MaxRows \in Nat /\ Cardinality((AdmittedCalls \ {c})') * MaxRows \in Nat
  BY <1>1, <1>5, OneCallMore
<1>8. LeavesRoom(c)'
  BY <1>1, <1>6, <1>7 DEF LeavesRoom, QuotaBound
<1>9. QED
  BY <1>8 DEF QuotaRoom

\* Who is admitted, and what for, stays; the rows do not grow in number.
LEMMA AdmittedKept ==
  ASSUME InventoryInv, InventoryTypeOK', AdmittedCalls' = AdmittedCalls, Count' <= Count,
         \A a \in AdmittedCalls : adding'[a] = adding[a]
  PROVE  QuotaRoom' /\ CameraQuotaNearlyKept'
<1>1. Count \in Nat /\ Count' \in Nat /\ QuotaBound \in Nat /\ MaxRows \in Nat
  BY InventoryCounts, CountNatural DEF InventoryInv
<1>2. CameraQuotaNearlyKept'
  BY <1>1 DEF InventoryInv, CameraQuotaNearlyKept, QuotaBound
<1>3. ASSUME NEW a \in AdmittedCalls, LeavesRoom(a) PROVE LeavesRoom(a)'
  <2>1. a \in Calls /\ AdmittedCalls \ {a} \in SUBSET Calls
    BY DEF AdmittedCalls
  <2>2. Cardinality(AdmittedCalls \ {a}) \in Nat
    BY <2>1, CallsFinite
  <2>3. Cardinality(AdmittedCalls \ {a}) * MaxRows \in Nat
    BY <1>1, <2>2, OneCallMore
  <2>4. RowCount(adding[a].rows) \in Nat /\ adding'[a] = adding[a]
    BY <2>1, RowsOfCalls DEF InventoryInv
  <2>5. QED
    BY <1>1, <1>3, <2>3, <2>4 DEF LeavesRoom, QuotaBound
<1>4. QED
  BY <1>2, <1>3 DEF QuotaRoom, InventoryInv

(***************************************************************************)
(* An admitted call that ends adds at most its rows.  The last admitted    *)
(* one had room for them; any other leaves that one its room, and takes    *)
(* what it was reckoned with.                                              *)
(***************************************************************************)
LEMMA AdmittedEnds ==
  ASSUME InventoryInv, InventoryTypeOK', NEW c \in AdmittedCalls,
         adding' = [adding EXCEPT ![c] = NoCreate], Count' <= Count + RowCount(adding[c].rows)
  PROVE  QuotaRoom' /\ CameraQuotaNearlyKept'
<1> DEFINE n(d) == RowCount(adding[d].rows)
           k(d) == Cardinality(AdmittedCalls \ {d})
<1>1. /\ InventoryTypeOK /\ Count \in Nat /\ Count' \in Nat /\ QuotaBound \in Nat /\ MaxRows \in Nat
      /\ AdmittedCalls \in SUBSET Calls /\ IsFiniteSet(AdmittedCalls)
  BY InventoryCounts, CountNatural, CallsFinite DEF InventoryInv, AdmittedCalls
<1>2. \A d \in AdmittedCalls : d \in Calls /\ n(d) \in Nat /\ n(d) <= MaxRows
  BY <1>1, RowsOfCalls DEF AdmittedCalls
<1>3. \A d \in AdmittedCalls : k(d) \in Nat /\ k(d) = Cardinality(AdmittedCalls) - 1
  BY <1>1, FS_RemoveElement, FS_CardinalityType
<1>4. AdmittedCalls' = AdmittedCalls \ {c} /\ \A d \in Calls \ {c} : adding'[d] = adding[d]
  BY <1>1 DEF AdmittedCalls, NoCreate, InventoryTypeOK
<1>5. PICK w \in AdmittedCalls : LeavesRoom(w)
  BY DEF InventoryInv, QuotaRoom
<1>6. Count + n(w) + k(w) * MaxRows <= QuotaBound /\ k(w) * MaxRows \in Nat
  BY <1>1, <1>3, <1>5, OneCallMore DEF LeavesRoom
<1>7. ASSUME NEW d \in AdmittedCalls, d # c
      PROVE  /\ Cardinality((AdmittedCalls \ {d})') \in Nat /\ Cardinality((AdmittedCalls \ {d})') * MaxRows \in Nat
             /\ k(w) * MaxRows = Cardinality((AdmittedCalls \ {d})') * MaxRows + MaxRows
             /\ (n(d))' = n(d)
  <2>1. (AdmittedCalls \ {d})' = (AdmittedCalls \ {d}) \ {c}
    BY <1>4
  <2>2. IsFiniteSet(AdmittedCalls \ {d})
    BY <1>1, FS_RemoveElement
  <2>3. Cardinality((AdmittedCalls \ {d})') = k(d) - 1 /\ IsFiniteSet((AdmittedCalls \ {d})')
    BY <1>7, <2>1, <2>2, FS_RemoveElement
  <2>4. Cardinality((AdmittedCalls \ {d})') \in Nat
    BY <2>3, FS_CardinalityType
  <2>5. k(w) = Cardinality((AdmittedCalls \ {d})') + 1
    <3> HIDE DEF k
    <3>1. QED
      BY <1>1, <1>3, <2>3, <2>4
  <2>6. (n(d))' = n(d)
    BY <1>2, <1>4, <1>7
  <2>7. QED
    BY <1>1, <2>4, <2>5, <2>6, OneCallMore
<1>8. Count' <= QuotaBound
  <2>1. CASE w = c
    BY <1>1, <1>2, <1>6, <2>1
  <2>2. CASE w # c
    <3>1. k(w) * MaxRows >= MaxRows
      <4> HIDE DEF n, k
      <4>1. PICK m : m = Cardinality((AdmittedCalls \ {w})') * MaxRows
        OBVIOUS
      <4>2. m \in Nat /\ k(w) * MaxRows = m + MaxRows
        BY <1>7, <2>2, <4>1
      <4>3. QED
        BY <1>1, <4>2
    <3>2. n(w) \in Nat /\ n(c) \in Nat /\ n(c) <= MaxRows /\ Count' <= Count + n(c)
      BY <1>2
    <3>3. QED
      <4> HIDE DEF n, k
      <4>1. QED
        BY <1>1, <1>6, <3>1, <3>2
  <2>3. QED
    BY <2>1, <2>2
<1>9. QuotaRoom'
  <2>1. CASE AdmittedCalls' = {}
    BY <2>1 DEF QuotaRoom
  <2>2. CASE w # c
    <3>1. w \in AdmittedCalls' /\ Count' <= Count + MaxRows
      BY <1>1, <1>2, <1>4, <2>2
    <3>2. Count' + (n(w))' + Cardinality((AdmittedCalls \ {w})') * MaxRows <= QuotaBound
      <4> HIDE DEF n, k
      <4>1. QED
        BY <1>1, <1>2, <1>6, <1>7, <2>2, <3>1
    <3>3. LeavesRoom(w)'
      BY <3>2 DEF LeavesRoom, QuotaBound
    <3>4. QED
      BY <3>1, <3>3 DEF QuotaRoom
  <2>3. CASE w = c /\ AdmittedCalls' # {}
    <3>1. PICK d \in AdmittedCalls' : TRUE
      BY <2>3
    <3>2. d \in AdmittedCalls /\ d # c
      BY <1>4, <3>1
    <3>3. Count' + (n(d))' + Cardinality((AdmittedCalls \ {d})') * MaxRows <= QuotaBound
      <4> HIDE DEF n, k
      <4>1. Count' <= Count + n(w)
        BY <2>3 DEF n
      <4>2. QED
        BY <1>1, <1>2, <1>6, <1>7, <2>3, <3>2, <4>1
    <3>4. LeavesRoom(d)'
      BY <3>3 DEF LeavesRoom, QuotaBound
    <3>5. QED
      BY <3>1, <3>4 DEF QuotaRoom
  <2>4. QED
    BY <2>1, <2>2, <2>3
<1>10. QED
  BY <1>8, <1>9 DEF CameraQuotaNearlyKept, QuotaBound

\* A call goes somewhere with rows of a file.
LEMMA GoTyped ==
  ASSUME InventoryTypeOK, NEW c \in Calls, NEW place \in {"idle", "create", "check", "import"},
         NEW places \in SUBSET (1..MaxRows), NEW rows \in [places -> Urls \cup {Push}],
         Go(c, place, rows)
  PROVE  /\ adding' \in [Calls -> [at : {"idle", "create", "check", "import"},
                                   rows : UNION {[p -> Urls \cup {Push}] : p \in SUBSET (1..MaxRows)}]]
         /\ adding'[c].at = place /\ adding'[c].rows = rows
         /\ \A d \in Calls \ {c} : adding'[d] = adding[d]
<1>1. adding' = [adding EXCEPT ![c] = [at |-> place, rows |-> rows]]
  BY DEF Go
<1>2. rows \in UNION {[p -> Urls \cup {Push}] : p \in SUBSET (1..MaxRows)}
  OBVIOUS
<1>3. [at |-> place, rows |-> rows] \in
        [at : {"idle", "create", "check", "import"},
          rows : UNION {[p -> Urls \cup {Push}] : p \in SUBSET (1..MaxRows)}]
  BY <1>2
<1>4. QED
  BY <1>1, <1>3 DEF InventoryTypeOK

\* ... or back to rest.
LEMMA GoIdleTyped ==
  ASSUME InventoryTypeOK, NEW c \in Calls, Go(c, "idle", <<>>)
  PROVE  /\ adding' \in [Calls -> [at : {"idle", "create", "check", "import"},
                                   rows : UNION {[p -> Urls \cup {Push}] : p \in SUBSET (1..MaxRows)}]]
         /\ adding' = [adding EXCEPT ![c] = NoCreate] /\ adding'[c].at = "idle"
         /\ \A d \in Calls \ {c} : adding'[d] = adding[d]
<1>1. {} \in SUBSET (1..MaxRows) /\ <<>> \in [{} -> Urls \cup {Push}]
  OBVIOUS
<1>2. adding' = [adding EXCEPT ![c] = NoCreate]
  BY DEF Go, NoCreate
<1>3. QED
  BY <1>1, <1>2, GoTyped

LEMMA CreateCheckInventory ==
  ASSUME InventoryInv, NEW c \in Calls, CreateCheck(c)
  PROVE  InventoryInv'
<1>1. PICK u \in Urls \cup {Push} : Go(c, "create", <<u>>)
  BY DEF CreateCheck
<1>2. Count + 1 <= MaxCameras /\ UNCHANGED <<pull, push, theirs, clash>>
  BY DEF CreateCheck, WithinLimit
<1>3. {1} \in SUBSET (1..MaxRows) /\ <<u>> \in [{1} -> Urls \cup {Push}] /\ DOMAIN <<u>> = {1}
  BY InventoryAssumption
<1>4. /\ InventoryTypeOK' /\ adding'[c].at = "create" /\ adding'[c].rows = <<u>>
      /\ \A d \in Calls \ {c} : adding'[d] = adding[d]
  BY <1>1, <1>2, <1>3, GoTyped DEF InventoryInv, InventoryTypeOK
<1>5. RowCount(adding'[c].rows) = 1
  BY <1>3, <1>4, FS_Singleton DEF RowCount
<1>6. c \in AdmittedCalls' /\ Count' = Count
  BY <1>2, <1>4 DEF AdmittedCalls, Count
<1>7. QuotaRoom'
  BY <1>2, <1>4, <1>5, <1>6, AdmittedLeavesRoom
<1>8. CameraQuotaNearlyKept' /\ ~clash' /\ FreshRows'
  BY <1>2, <1>4, <1>6 DEF InventoryInv, CameraQuotaNearlyKept, FreshRows
<1>9. QED
  BY <1>4, <1>7, <1>8 DEF InventoryInv

\* What ToInsert keeps of a file differs, apart from the push rows, and is not known yet.
LEMMA ToInsertFresh ==
  ASSUME NEW file \in Files, NEW existing \in SUBSET Urls
  PROVE  /\ \E places \in SUBSET (1..MaxRows) : ToInsert(file, existing) \in [places -> Urls \cup {Push}]
         /\ Distinct(ToInsert(file, existing))
         /\ UrlsOf(ToInsert(file, existing)) \cap existing = {}
<1> USE InventoryAssumption
<1>1. PICK n \in 1..MaxRows : file \in [1..n -> Urls \cup {Push, NoUrl}]
  BY DEF Files
<1> DEFINE kept == {j \in 1..n : \/ file[j] = Push
                                 \/ file[j] \notin existing \cup {NoUrl}
                                      /\ \A i \in 1..j - 1 : file[i] # file[j]}
<1>2. kept \in SUBSET (1..MaxRows)
  BY <1>1
<1>3. ToInsert(file, existing) = [k \in kept |-> file[k]]
  BY <1>1 DEF ToInsert
<1>4. ToInsert(file, existing) \in [kept -> Urls \cup {Push}]
  BY <1>1, <1>3
<1>5. Distinct([k \in kept |-> file[k]])
  <2>1. ASSUME NEW j \in kept, NEW k \in kept, file[j] = file[k], file[j] # Push, j < k
        PROVE  FALSE
    <3>1. j \in 1..k - 1
      BY <1>1, <2>1
    <3>2. QED
      BY <2>1, <3>1
  <2>2. ASSUME NEW j \in kept, NEW k \in kept, file[j] = file[k], file[j] # Push
        PROVE  j = k
    <3>1. j \in Int /\ k \in Int /\ ~(j < k) /\ ~(k < j)
      BY <1>1, <2>1, <2>2
    <3>2. QED
      BY <3>1
  <2>3. QED
    <3> HIDE DEF kept
    <3>1. QED
      BY <2>2 DEF Distinct
<1>6. UrlsOf([k \in kept |-> file[k]]) \cap existing = {}
  BY <1>1 DEF UrlsOf
<1>7. QED
  BY <1>2, <1>3, <1>4, <1>5, <1>6

LEMMA ImportReadInventory ==
  ASSUME InventoryInv, NEW c \in Calls, ImportRead(c)
  PROVE  InventoryInv'
<1>1. PICK file \in Files : Go(c, "check", ToInsert(file, pull))
  BY DEF ImportRead
<1>2. /\ adding[c].at = "idle" /\ theirs' = [theirs EXCEPT ![c] = {}] /\ UNCHANGED <<pull, push, clash>>
      /\ pull \in SUBSET Urls
  BY DEF ImportRead, InventoryInv, InventoryTypeOK
<1>3. PICK rows : rows = ToInsert(file, pull)
  OBVIOUS
<1>4. PICK places \in SUBSET (1..MaxRows) : rows \in [places -> Urls \cup {Push}]
  BY <1>2, <1>3, ToInsertFresh
<1>5. Distinct(rows) /\ UrlsOf(rows) \cap pull = {}
  BY <1>2, <1>3, ToInsertFresh
<1>6. /\ adding' \in [Calls -> [at : {"idle", "create", "check", "import"},
                                rows : UNION {[p -> Urls \cup {Push}] : p \in SUBSET (1..MaxRows)}]]
      /\ adding'[c].at = "check" /\ adding'[c].rows = rows
      /\ \A d \in Calls \ {c} : adding'[d] = adding[d]
  BY <1>1, <1>3, <1>4, GoTyped DEF InventoryInv
<1>7. InventoryTypeOK'
  BY <1>2, <1>6 DEF InventoryInv, InventoryTypeOK
<1>8. AdmittedCalls' = AdmittedCalls /\ Count' = Count /\ \A a \in AdmittedCalls : adding'[a] = adding[a]
  BY <1>2, <1>6 DEF AdmittedCalls, Count
<1>9. Count' <= Count
  BY <1>8, CountNatural DEF InventoryInv
<1>10. QuotaRoom' /\ CameraQuotaNearlyKept'
  BY <1>7, <1>8, <1>9, AdmittedKept
<1>11. FreshRows'
  BY <1>2, <1>5, <1>6 DEF FreshRows, InventoryInv, InventoryTypeOK
<1>12. QED
  BY <1>2, <1>7, <1>10, <1>11 DEF InventoryInv

LEMMA ImportCheckInventory ==
  ASSUME InventoryInv, NEW c \in Calls, ImportCheck(c)
  PROVE  InventoryInv'
<1>1. adding[c].at = "check" /\ UNCHANGED <<pull, push, theirs, clash>> /\ Count' = Count
  BY DEF ImportCheck, Count
<1>2. PICK rows : rows = adding[c].rows
  OBVIOUS
<1>3. PICK places \in SUBSET (1..MaxRows) : rows \in [places -> Urls \cup {Push}]
  BY <1>2, CallRows DEF InventoryInv
<1>4. CASE WithinLimit(RowCount(rows)) /\ Go(c, "import", rows)
  <2>1. /\ InventoryTypeOK' /\ adding'[c].at = "import" /\ adding'[c].rows = rows
        /\ \A d \in Calls \ {c} : adding'[d] = adding[d]
    BY <1>1, <1>3, <1>4, GoTyped DEF InventoryInv, InventoryTypeOK
  <2>2. c \in AdmittedCalls' /\ Count' + RowCount(adding'[c].rows) <= MaxCameras
    BY <1>1, <1>4, <2>1 DEF AdmittedCalls, WithinLimit
  <2>3. QuotaRoom'
    BY <2>1, <2>2, AdmittedLeavesRoom
  <2>4. FreshRows'
    BY <1>1, <1>2, <2>1 DEF InventoryInv, FreshRows
  <2>5. QED
    BY <1>1, <2>1, <2>3, <2>4 DEF InventoryInv, CameraQuotaNearlyKept
<1>5. CASE Go(c, "idle", <<>>)
  <2>1. InventoryTypeOK' /\ adding'[c].at = "idle" /\ \A d \in Calls \ {c} : adding'[d] = adding[d]
    BY <1>1, <1>5, GoIdleTyped DEF InventoryInv, InventoryTypeOK
  <2>2. AdmittedCalls' = AdmittedCalls /\ Count' <= Count /\ \A a \in AdmittedCalls : adding'[a] = adding[a]
    BY <1>1, <2>1, CountNatural DEF AdmittedCalls, InventoryInv
  <2>3. QuotaRoom' /\ CameraQuotaNearlyKept'
    BY <2>1, <2>2, AdmittedKept
  <2>4. FreshRows'
    BY <1>1, <2>1 DEF InventoryInv, FreshRows
  <2>5. QED
    BY <1>1, <2>1, <2>3, <2>4 DEF InventoryInv
<1>6. QED
  BY <1>2, <1>4, <1>5 DEF ImportCheck

(***************************************************************************)
(* The database's answer.  Rows that go in were counted, and their URLs    *)
(* are told to every other call; an import that is refused has a URL that  *)
(* is taken by now, and so one it was told of.                             *)
(***************************************************************************)
LEMMA InsertInventory ==
  ASSUME InventoryInv, NEW c \in Calls, Insert(c)
  PROVE  InventoryInv'
<1>1. PICK rows : rows = adding[c].rows
  OBVIOUS
<1>2. PICK places \in SUBSET (1..MaxRows) : rows \in [places -> Urls \cup {Push}]
  BY <1>1, CallRows DEF InventoryInv
<1>3. PICK urls \in SUBSET Urls : urls = UrlsOf(rows)
  BY <1>2, RowsCounted, Zenon
<1>4. PICK pushes \in Nat : pushes = Cardinality({k \in DOMAIN rows : rows[k] = Push})
  BY <1>2, RowsCounted, Zenon
<1>5. /\ Cardinality(urls) \in Nat /\ RowCount(rows) \in Nat
      /\ Cardinality(urls) + pushes <= RowCount(rows) /\ IsFiniteSet(urls)
  BY <1>2, <1>3, <1>4, RowsCounted, Zenon
<1>6. c \in AdmittedCalls /\ Go(c, "idle", <<>>) /\ DOMAIN rows = places
  BY <1>2 DEF Insert, AdmittedCalls
<1>7. /\ adding' \in [Calls -> [at : {"idle", "create", "check", "import"},
                                rows : UNION {[p -> Urls \cup {Push}] : p \in SUBSET (1..MaxRows)}]]
      /\ adding' = [adding EXCEPT ![c] = NoCreate] /\ adding'[c].at = "idle"
      /\ \A d \in Calls \ {c} : adding'[d] = adding[d]
  BY <1>6, GoIdleTyped DEF InventoryInv
<1>8. pull \in SUBSET Urls /\ push \in Nat /\ theirs \in [Calls -> SUBSET Urls]
  BY DEF InventoryInv, InventoryTypeOK
<1>9. CASE Insertable(rows)
  <2>1. /\ pull' = pull \cup urls /\ push' = push + pushes /\ UNCHANGED clash
        /\ theirs' = [d \in Calls |-> IF d = c THEN {} ELSE theirs[d] \cup urls]
    BY <1>1, <1>3, <1>4, <1>9 DEF Insert, UrlsOf
  <2>2. InventoryTypeOK'
    <3>1. pull' \subseteq Urls /\ push' \in Nat /\ theirs' \in [Calls -> SUBSET Urls] /\ clash' \in BOOLEAN
      BY <1>8, <2>1 DEF InventoryInv, InventoryTypeOK
    <3>2. QED
      BY <1>7, <3>1 DEF InventoryTypeOK
  <2>3. Count' <= Count + RowCount(rows)
    <3>1. IsFiniteSet(pull) /\ Cardinality(pull) \in Nat /\ Cardinality(pull \cap urls) \in Nat
      BY <1>8, UrlsFinite
    <3>2. Cardinality(pull \cup urls) = Cardinality(pull) + Cardinality(urls) - Cardinality(pull \cap urls)
      BY <1>5, <3>1, FS_Union
    <3>3. QED
      BY <1>5, <1>8, <2>1, <3>1, <3>2 DEF Count
  <2>4. QuotaRoom' /\ CameraQuotaNearlyKept'
    BY <1>1, <1>6, <1>7, <2>2, <2>3, AdmittedEnds
  <2>5. FreshRows'
    <3> SUFFICES ASSUME NEW d \in Calls, adding'[d].at \in {"check", "import"}
                 PROVE  Distinct(adding'[d].rows) /\ UrlsOf(adding'[d].rows) \cap pull' \subseteq theirs'[d]
      BY DEF FreshRows
    <3>1. d # c /\ adding'[d] = adding[d]
      BY <1>7
    <3>2. Distinct(adding[d].rows) /\ UrlsOf(adding[d].rows) \cap pull \subseteq theirs[d]
      BY <3>1 DEF InventoryInv, FreshRows
    <3>3. theirs'[d] = theirs[d] \cup urls
      BY <2>1, <3>1
    <3>4. QED
      BY <2>1, <3>1, <3>2, <3>3
  <2>6. QED
    BY <2>1, <2>2, <2>4, <2>5 DEF InventoryInv
<1>10. CASE ~Insertable(rows)
  <2>1. /\ clash' = (clash \/ (adding[c].at = "import" /\ urls \cap theirs[c] = {}))
        /\ UNCHANGED <<pull, push, theirs>>
    BY <1>1, <1>3, <1>10 DEF Insert, UrlsOf
  <2>2. adding[c].at = "import" => urls \cap theirs[c] # {}
    <3>1. ASSUME adding[c].at = "import" PROVE Distinct(rows) /\ urls \cap pull \subseteq theirs[c]
      BY <1>1, <1>3, <3>1 DEF InventoryInv, FreshRows
    <3>2. ASSUME Distinct(rows) PROVE urls \cap pull # {}
      BY <1>3, <1>10, <3>2 DEF Insertable, Distinct, UrlsOf
    <3>3. QED
      BY <3>1, <3>2
  <2>3. InventoryTypeOK' /\ ~clash'
    BY <1>7, <2>1, <2>2 DEF InventoryInv, InventoryTypeOK
  <2>4. Count' <= Count + RowCount(rows)
    BY <1>5, <2>1, CountNatural DEF Count, InventoryInv
  <2>5. QuotaRoom' /\ CameraQuotaNearlyKept'
    BY <1>1, <1>6, <1>7, <2>3, <2>4, AdmittedEnds
  <2>6. FreshRows'
    BY <1>7, <2>1 DEF InventoryInv, FreshRows
  <2>7. QED
    BY <2>3, <2>5, <2>6 DEF InventoryInv
<1>11. QED
  BY <1>9, <1>10

LEMMA DeleteCameraInventory ==
  ASSUME InventoryInv, DeleteCamera
  PROVE  InventoryInv'
<1>1. pull \in SUBSET Urls /\ push \in Nat /\ UNCHANGED <<adding, theirs, clash>>
  BY DEF DeleteCamera, InventoryInv, InventoryTypeOK
<1>2. pull' \subseteq pull /\ push' \in Nat /\ push' <= push
  BY <1>1 DEF DeleteCamera
<1>3. InventoryTypeOK'
  BY <1>1, <1>2 DEF InventoryInv, InventoryTypeOK
<1>4. Count' <= Count
  <2>1. IsFiniteSet(pull) /\ Cardinality(pull) \in Nat /\ Cardinality(pull') \in Nat
    BY <1>1, <1>2, UrlsFinite
  <2>2. Cardinality(pull') <= Cardinality(pull)
    BY <1>2, <2>1, FS_Subset
  <2>3. QED
    BY <1>1, <1>2, <2>1, <2>2 DEF Count
<1>5. QuotaRoom' /\ CameraQuotaNearlyKept'
  BY <1>1, <1>3, <1>4, AdmittedKept DEF AdmittedCalls
<1>6. FreshRows'
  BY <1>1, <1>2 DEF InventoryInv, FreshRows
<1>7. QED
  BY <1>1, <1>3, <1>5, <1>6 DEF InventoryInv

LEMMA InventoryThrowsInventory ==
  ASSUME InventoryInv, NEW c \in Calls, InventoryThrows(c)
  PROVE  InventoryInv'
<1>1. Go(c, "idle", <<>>) /\ UNCHANGED <<pull, push, theirs, clash>> /\ Count' = Count
  BY DEF InventoryThrows, Count
<1>2. /\ InventoryTypeOK' /\ adding' = [adding EXCEPT ![c] = NoCreate] /\ adding'[c].at = "idle"
      /\ \A d \in Calls \ {c} : adding'[d] = adding[d]
  BY <1>1, GoIdleTyped DEF InventoryInv, InventoryTypeOK
<1>3. RowCount(adding[c].rows) \in Nat /\ Count \in Nat
  <2>1. RowCount(adding[c].rows) \in 0..MaxRows /\ MaxRows \in Nat
    BY RowsOfCalls, InventoryCounts DEF InventoryInv
  <2>2. QED
    BY <2>1, CountNatural DEF InventoryInv
<1>4. Count' <= Count + RowCount(adding[c].rows)
  BY <1>1, <1>3
<1>5. QuotaRoom' /\ CameraQuotaNearlyKept'
  <2>1. CASE c \in AdmittedCalls
    BY <1>2, <1>4, <2>1, AdmittedEnds
  <2>2. CASE c \notin AdmittedCalls
    <3>1. AdmittedCalls' = AdmittedCalls /\ \A a \in AdmittedCalls : adding'[a] = adding[a]
      BY <1>2, <2>2 DEF AdmittedCalls
    <3>2. QED
      BY <1>1, <1>2, <1>3, <3>1, AdmittedKept
  <2>3. QED
    BY <2>1, <2>2
<1>6. FreshRows'
  BY <1>1, <1>2 DEF InventoryInv, FreshRows
<1>7. QED
  BY <1>1, <1>2, <1>5, <1>6 DEF InventoryInv

LEMMA InventoryStepInv == InventoryInv /\ [InventoryNext]_inventoryVars => InventoryInv'
<1> SUFFICES ASSUME InventoryInv, [InventoryNext]_inventoryVars PROVE InventoryInv'
  OBVIOUS
<1>1. ASSUME NEW c \in Calls, \/ CreateCheck(c) \/ ImportRead(c) \/ ImportCheck(c) \/ Insert(c)
                              \/ InventoryThrows(c)
      PROVE  InventoryInv'
  BY <1>1, CreateCheckInventory, ImportReadInventory, ImportCheckInventory, InsertInventory,
     InventoryThrowsInventory
<1>2. CASE UNCHANGED inventoryVars
  BY <1>2 DEF inventoryVars, InventoryInv, InventoryTypeOK, CameraQuotaNearlyKept, QuotaRoom, LeavesRoom,
     FreshRows, AdmittedCalls, Count
<1>3. QED
  BY <1>1, <1>2, DeleteCameraInventory DEF InventoryNext

\* The last call admitted saw room for its rows, and an import knows of each of its URLs
\* that is taken.  (CamerasService.createCamera and bulkImport, cameras.service.ts:188, :1060)
THEOREM InventoryInvHolds == InventorySpec => []InventoryInv
<1>1. QED
  BY InitInventory, InventoryStepInv, PTL DEF InventorySpec

\* The quota is passed by calls in progress only, and an import is refused for
\* a race only.  (CamerasService.createCamera and bulkImport, cameras.service.ts:188, :1060)
THEOREM InventorySoundHolds == InventorySpec => []InventorySound
<1>1. InventoryInv => InventorySound
  BY DEF InventoryInv, InventorySound, ImportClashIsRace
<1>2. QED
  BY <1>1, InventoryInvHolds, PTL

ProfileCallActive(c) == pcall[c].at # "idle"

(***************************************************************************)
(* The invariant.  PlacesKnown: what a call's place says of its arguments.      *)
(* Meetings: a call that has met no other is alone.  Usage: no camera      *)
(* names a profile that is gone, and a deletion that is not late has no    *)
(* camera to take its profile from.  Settled: what a call that is alone    *)
(* may rely on, and that a mark that is not blurred is one.                *)
(***************************************************************************)
PlacesKnown ==
  \A c \in ProfileCalls :
    /\ ProfileCallActive(c) => pcall[c].p \in ProfileIds
    /\ pcall[c].at = "unset" => pcall[c].flag = "yes"
    /\ pcall[c].at \in {"unset", "write"} => pcall[c].kind # "delete"
    /\ pcall[c].at \in {"others", "used", "delete"} => pcall[c].flag = "absent"
    /\ pcall[c].at = "write" /\ pcall[c].kind = "create" => pcall[c].flag # "absent"

Meetings ==
  /\ \A c \in ProfileCalls :
       /\ ~ProfileCallActive(c) => c \notin met /\ c \notin late
       /\ ProfileCallActive(c) /\ c \notin met => Lone(c)
  /\ ~blurred => met = {}

Usage ==
  /\ \A u \in Users : uses[u] \in ProfileRows \cup {None}
  /\ \A c \in ProfileCalls : pcall[c].at = "delete" /\ c \notin late => ~InUse(pcall[c].p)

Promoting(c) == pcall[c].at = "write" /\ pcall[c].flag = "yes"
One == ProfileRows = {} \/ \E p \in ProfileIds : Defaults = {p}

Settled ==
  /\ \A c \in ProfileCalls : Promoting(c) /\ c \notin met => Defaults = {}
  /\ ~blurred =>
       /\ (\A c \in ProfileCalls : ~Promoting(c)) => One
       /\ \A c \in ProfileCalls :
            /\ pcall[c].at = "write" /\ pcall[c].kind = "create" => Promoting(c) \/ ProfileRows # {}
            /\ pcall[c].at \in {"used", "delete"} /\ pcall[c].p \in Defaults => ProfileRows = {pcall[c].p}

ProfileInv == ProfileTypeOK /\ PlacesKnown /\ Meetings /\ Usage /\ Settled

LEMMA ProfileInitInv ==
  ASSUME ProfileInit
  PROVE  ProfileInv
<1> USE DEF ProfileInit, NoProfileCall
<1>1. ProfileTypeOK
  BY DEF ProfileTypeOK
<1>2. PlacesKnown /\ Meetings
  BY DEF PlacesKnown, Meetings, ProfileCallActive
<1>3. Usage
  BY DEF Usage
<1>4. ProfileRows = {}
  BY DEF ProfileRows
<1>5. Settled
  BY <1>4 DEF Settled, One, Promoting
<1>6. QED
  BY <1>1, <1>2, <1>3, <1>5 DEF ProfileInv

CallNext(c) ==
  \/ CreateCount(c) \/ UpdateRead(c) \/ UnsetDefaults(c) \/ Write(c)
  \/ DeleteFind(c) \/ DeleteOthers(c) \/ DeleteUsed(c) \/ DeleteProfile(c) \/ ProfileThrows(c)

(***************************************************************************)
(* Types and places.                                                       *)
(***************************************************************************)
LEMMA TypesKept ==
  ASSUME ProfileTypeOK, PlacesKnown, ProfileNext
  PROVE  ProfileTypeOK' /\ PlacesKnown'
<1> USE DEF ProfileTypeOK, PlacesKnown, ProfileCallActive
<1>1. ASSUME NEW c \in ProfileCalls, CreateCount(c) PROVE ProfileTypeOK' /\ PlacesKnown'
  BY <1>1 DEF CreateCount, Begin, FirstIsDefault, ProfileRows
<1>2. ASSUME NEW c \in ProfileCalls, UpdateRead(c) PROVE ProfileTypeOK' /\ PlacesKnown'
  BY <1>2 DEF UpdateRead, Begin, ProfileRows
<1>3. ASSUME NEW c \in ProfileCalls, UnsetDefaults(c) PROVE ProfileTypeOK' /\ PlacesKnown'
  BY <1>3 DEF UnsetDefaults, Step, Cleared
<1>4. ASSUME NEW c \in ProfileCalls, Write(c) PROVE ProfileTypeOK' /\ PlacesKnown'
  BY <1>4 DEF Write, Finish, Marked, NoProfileCall
<1>5. ASSUME NEW c \in ProfileCalls, DeleteFind(c) PROVE ProfileTypeOK' /\ PlacesKnown'
  BY <1>5 DEF DeleteFind, Begin, ProfileRows
<1>6. ASSUME NEW c \in ProfileCalls, DeleteOthers(c) \/ DeleteUsed(c) PROVE ProfileTypeOK' /\ PlacesKnown'
  BY <1>6 DEF DeleteOthers, DeleteUsed, Step, Finish, NoProfileCall
<1>7. ASSUME NEW c \in ProfileCalls, DeleteProfile(c) PROVE ProfileTypeOK' /\ PlacesKnown'
  BY <1>7 DEF DeleteProfile, Finish, NoProfileCall
<1>8. ASSUME NEW c \in ProfileCalls, ProfileThrows(c) PROVE ProfileTypeOK' /\ PlacesKnown'
  BY <1>8 DEF ProfileThrows, Finish, NoProfileCall
<1>9. ASSUME NEW u \in Users, Assign(u) PROVE ProfileTypeOK' /\ PlacesKnown'
  BY <1>9 DEF Assign, ProfileRows
<1>10. QED
  BY <1>1, <1>2, <1>3, <1>4, <1>5, <1>6, <1>7, <1>8, <1>9 DEF ProfileNext

(***************************************************************************)
(* What the three actions that begin a call have in common.                *)
(***************************************************************************)
Begins(c) ==
  /\ pcall[c].at = "idle" /\ pcall'[c].at \in {"unset", "write", "others", "used"}
  /\ \A d \in ProfileCalls \ {c} : pcall'[d] = pcall[d]
  /\ blurred' = (blurred \/ ~Lone(c))
  /\ met' = IF Lone(c) THEN met ELSE {d \in ProfileCalls : d = c \/ pcall[d].at # "idle"}
  /\ UNCHANGED <<mark, uses, late>>

LEMMA CallBegins ==
  ASSUME ProfileTypeOK, NEW c \in ProfileCalls,
         CreateCount(c) \/ UpdateRead(c) \/ DeleteFind(c)
  PROVE  Begins(c)
<1> USE DEF Begin, Begins, ProfileTypeOK
<1>1. CASE CreateCount(c)
  BY <1>1 DEF CreateCount
<1>2. CASE UpdateRead(c)
  BY <1>2 DEF UpdateRead
<1>3. CASE DeleteFind(c)
  BY <1>3 DEF DeleteFind
<1>4. QED
  BY <1>1, <1>2, <1>3

(***************************************************************************)
(* Meetings: a call begins, goes on, or ends.                              *)
(***************************************************************************)
LEMMA MeetingsKept ==
  ASSUME ProfileInv, ProfileNext
  PROVE  Meetings'
<1> USE DEF ProfileInv, ProfileTypeOK, Meetings, ProfileCallActive, Lone
<1>1. ASSUME NEW c \in ProfileCalls, CreateCount(c) \/ UpdateRead(c) \/ DeleteFind(c) PROVE Meetings'
  <2>1. Begins(c)
    BY <1>1, CallBegins
  <2>2. CASE Lone(c)
    BY <2>1, <2>2 DEF Begins
  <2>3. CASE ~Lone(c)
    <3>1. met' = {d \in ProfileCalls : d = c \/ pcall[d].at # "idle"} /\ blurred' /\ late' = late
      BY <2>1, <2>3 DEF Begins
    <3>2. ASSUME NEW d \in ProfileCalls PROVE (pcall'[d].at # "idle") <=> d \in met'
      BY <2>1, <3>1 DEF Begins
    <3>3. \A d \in late : pcall'[d].at # "idle"
      BY <2>1 DEF Begins
    <3>4. QED
      BY <3>1, <3>2, <3>3
  <2>4. QED
    BY <2>2, <2>3
<1>2. ASSUME NEW c \in ProfileCalls, UnsetDefaults(c) PROVE Meetings'
  BY <1>2 DEF UnsetDefaults, Step
<1>3. ASSUME NEW c \in ProfileCalls, Finish(c), ProfileCallActive(c),
             blurred' \/ (blurred' = blurred) \/ c \notin met
      PROVE  Meetings'
  BY <1>3 DEF Finish, NoProfileCall
<1>4. ASSUME NEW c \in ProfileCalls, Write(c) PROVE Meetings'
  BY <1>4, <1>3 DEF Write
<1>5. ASSUME NEW c \in ProfileCalls, DeleteOthers(c) PROVE Meetings'
  BY <1>5, <1>3 DEF DeleteOthers, Step
<1>6. ASSUME NEW c \in ProfileCalls, DeleteUsed(c) PROVE Meetings'
  BY <1>6, <1>3 DEF DeleteUsed, Step
<1>7. ASSUME NEW c \in ProfileCalls, DeleteProfile(c) PROVE Meetings'
  BY <1>7, <1>3 DEF DeleteProfile
<1>8. ASSUME NEW c \in ProfileCalls, ProfileThrows(c) PROVE Meetings'
  BY <1>8, <1>3 DEF ProfileThrows
<1>9. ASSUME NEW u \in Users, Assign(u) PROVE Meetings'
  BY <1>9 DEF Assign
<1>10. QED
  BY <1>1, <1>2, <1>4, <1>5, <1>6, <1>7, <1>8, <1>9 DEF ProfileNext

(***************************************************************************)
(* Usage: rows only go with a deletion, and uses only come with Assign.    *)
(***************************************************************************)
LEMMA UsageKept ==
  ASSUME ProfileInv, ProfileNext
  PROVE  Usage'
<1> USE DEF ProfileInv, ProfileTypeOK, Usage, InUse
<1>1. ASSUME NEW c \in ProfileCalls, uses' = uses, ProfileRows \subseteq ProfileRows',
             \A d \in ProfileCalls \ {c} : pcall'[d] = pcall[d],
             pcall'[c].at # "delete", late \ {c} \subseteq late'
      PROVE  Usage'
  BY <1>1
<1>2. ASSUME NEW c \in ProfileCalls, CreateCount(c) \/ UpdateRead(c) \/ DeleteFind(c) PROVE Usage'
  BY <1>2, <1>1, CallBegins DEF Begins, ProfileRows
<1>3. ASSUME NEW c \in ProfileCalls, UnsetDefaults(c) PROVE Usage'
  BY <1>3, <1>1 DEF UnsetDefaults, Step, Cleared, ProfileRows
<1>4. ASSUME NEW c \in ProfileCalls, Write(c) PROVE Usage'
  <2>1. ProfileRows \subseteq ProfileRows'
    BY <1>4 DEF Write, Marked, ProfileRows
  <2>2. QED
    BY <1>4, <2>1, <1>1 DEF Write, Finish, NoProfileCall
<1>5. ASSUME NEW c \in ProfileCalls, DeleteOthers(c) PROVE Usage'
  BY <1>5, <1>1 DEF DeleteOthers, Finish, Step, NoProfileCall, ProfileRows
<1>6. ASSUME NEW c \in ProfileCalls, DeleteUsed(c) PROVE Usage'
  <2>1. CASE InUse(pcall[c].p)
    BY <1>6, <2>1, <1>1 DEF DeleteUsed, Finish, NoProfileCall, ProfileRows
  <2>2. CASE ~InUse(pcall[c].p)
    BY <1>6, <2>2 DEF DeleteUsed, Step, ProfileRows
  <2>3. QED
    BY <2>1, <2>2
<1>7. ASSUME NEW c \in ProfileCalls, DeleteProfile(c) PROVE Usage'
  <2>1. \A u \in Users : uses'[u] \in ProfileRows' \cup {None}
    BY <1>7 DEF DeleteProfile, ProfileRows
  <2>2. ASSUME NEW d \in ProfileCalls, pcall'[d].at = "delete", d \notin late'
        PROVE  ~InUse(pcall[d].p)' /\ pcall'[d] = pcall[d]
    <3>1. d # c
      BY <1>7, <2>2 DEF DeleteProfile, Finish, NoProfileCall
    <3>2. pcall'[d] = pcall[d] /\ d \notin late /\ pcall[d].p \in ProfileIds
      BY <1>7, <2>2, <3>1 DEF DeleteProfile, Finish, PlacesKnown, ProfileCallActive
    <3>3. \A u \in Users : uses'[u] \in {uses[u], None}
      BY <1>7 DEF DeleteProfile
    <3>4. QED
      BY <2>2, <3>2, <3>3, ProfileAssumption
  <2>3. QED
    BY <2>1, <2>2
<1>8. ASSUME NEW c \in ProfileCalls, ProfileThrows(c) PROVE Usage'
  BY <1>8, <1>1 DEF ProfileThrows, Finish, NoProfileCall, ProfileRows
<1>9. ASSUME NEW u \in Users, Assign(u) PROVE Usage'
  BY <1>9 DEF Assign, ProfileRows
<1>10. QED
  BY <1>2, <1>3, <1>4, <1>5, <1>6, <1>7, <1>8, <1>9 DEF ProfileNext

(***************************************************************************)
(* Settled.  A call that goes on has either met all others there are, or   *)
(* is alone; while the mark is not blurred, it is alone.                   *)
(***************************************************************************)
LEMMA OthersHaveMet ==
  ASSUME ProfileInv, NEW c \in ProfileCalls, ProfileCallActive(c), NEW d \in ProfileCalls \ {c}, ProfileCallActive(d)
  PROVE  d \in met /\ blurred
  BY DEF ProfileInv, Meetings, ProfileCallActive, Lone

\* A call that was under way ends, or goes on to a place where it does not promote.
LEMMA SettledByOne ==
  ASSUME ProfileInv, NEW c \in ProfileCalls, ProfileCallActive(c),
         \A d \in ProfileCalls \ {c} : pcall'[d] = pcall[d],
         met \ {c} \subseteq met', ~Promoting(c)',
         ~blurred' =>
           /\ ~blurred => One'
           /\ blurred => (One' /\ pcall'[c].at = "idle" /\ Lone(c))
           /\ pcall'[c].at # "write"
           /\ pcall'[c].at \in {"used", "delete"} /\ pcall'[c].p \in Defaults' =>
                ProfileRows' = {pcall'[c].p}
  PROVE  Settled'
<1>1. ASSUME NEW d \in ProfileCalls \ {c}, ProfileCallActive(d) PROVE d \in met' /\ blurred
  BY <1>1, OthersHaveMet
<1>2. ASSUME NEW d \in ProfileCalls, Promoting(d)', d \notin met' PROVE Defaults' = {}
  BY <1>1, <1>2 DEF Promoting, ProfileCallActive
<1>3. ASSUME ~blurred', NEW d \in ProfileCalls \ {c} PROVE pcall'[d].at = "idle"
  BY <1>1, <1>3 DEF ProfileCallActive, Lone
<1>4. ASSUME ~blurred' PROVE One'
  BY <1>4
<1>5. ASSUME ~blurred', NEW d \in ProfileCalls
      PROVE  /\ pcall'[d].at # "write"
             /\ pcall'[d].at \in {"used", "delete"} /\ pcall'[d].p \in Defaults' =>
                  ProfileRows' = {pcall'[d].p}
  BY <1>3, <1>5
<1>6. QED
  BY <1>2, <1>4, <1>5 DEF Settled

LEMMA SettledOnceBegun ==
  ASSUME ProfileInv, NEW c \in ProfileCalls, Begins(c), ~Promoting(c)',
         pcall'[c].at = "write" /\ pcall'[c].kind = "create" => ProfileRows # {},
         pcall'[c].at = "used" => pcall'[c].p \notin Defaults
  PROVE  Settled'
<1>1. ProfileRows' = ProfileRows /\ Defaults' = Defaults /\ (One' <=> One)
  BY DEF Begins, ProfileRows, Defaults, One
<1>2. ASSUME NEW d \in ProfileCalls, Promoting(d)' PROVE d \in met'
  BY <1>2 DEF Begins, Promoting, Lone
<1>3. ASSUME ~blurred', NEW d \in ProfileCalls \ {c} PROVE pcall'[d].at = "idle"
  BY <1>3 DEF Begins, Lone
<1>4. ASSUME ~blurred' PROVE One'
  <2>1. ~blurred /\ \A d \in ProfileCalls : pcall[d].at = "idle"
    BY <1>4 DEF Begins, Lone
  <2>2. QED
    BY <1>1, <2>1 DEF ProfileInv, Settled, Promoting
<1>5. ASSUME ~blurred', NEW d \in ProfileCalls
      PROVE  /\ pcall'[d].at = "write" /\ pcall'[d].kind = "create" => ProfileRows' # {}
             /\ pcall'[d].at \in {"used", "delete"} /\ pcall'[d].p \in Defaults' =>
                  ProfileRows' = {pcall'[d].p}
  BY <1>1, <1>3, <1>5 DEF Begins
<1>6. QED
  BY <1>2, <1>4, <1>5 DEF Settled

LEMMA SettledKept ==
  ASSUME ProfileInv, ProfileNext
  PROVE  Settled'
<1> USE DEF ProfileInv, ProfileTypeOK
<1>1. ASSUME NEW c \in ProfileCalls, CreateCount(c) PROVE Settled'
  <2>1. ~Promoting(c)' /\ (pcall'[c].at = "write" => ProfileRows # {}) /\ pcall'[c].at # "used"
    BY <1>1 DEF CreateCount, Begin, FirstIsDefault, Promoting
  <2>2. QED
    BY <1>1, <2>1, CallBegins, SettledOnceBegun
<1>2. ASSUME NEW c \in ProfileCalls, UpdateRead(c) PROVE Settled'
  <2>1. ~Promoting(c)' /\ pcall'[c].kind = "update" /\ pcall'[c].at # "used"
    BY <1>2 DEF UpdateRead, Begin, Promoting
  <2>2. QED
    BY <1>2, <2>1, CallBegins, SettledOnceBegun
<1>3. ASSUME NEW c \in ProfileCalls, DeleteFind(c) PROVE Settled'
  <2>1. pcall'[c].at # "write" /\ (pcall'[c].at = "used" => pcall'[c].p \notin Defaults)
    BY <1>3 DEF DeleteFind, Begin
  <2>2. QED
    BY <1>3, <2>1, CallBegins, SettledOnceBegun DEF Promoting
<1>4. ASSUME NEW c \in ProfileCalls, UnsetDefaults(c) PROVE Settled'
  <2>1. Defaults' = {} /\ ProfileCallActive(c) /\ Promoting(c)'
    BY <1>4 DEF UnsetDefaults, Step, Cleared, Defaults, ProfileCallActive, Promoting, PlacesKnown
  <2>2. ASSUME NEW d \in ProfileCalls \ {c}, ~blurred PROVE pcall'[d].at = "idle"
    BY <1>4, <2>1, <2>2, OthersHaveMet DEF UnsetDefaults, Step, ProfileCallActive
  <2>3. QED
    BY <1>4, <2>1, <2>2 DEF Settled, UnsetDefaults, Promoting
<1>5. ASSUME NEW c \in ProfileCalls, Write(c) PROVE Settled'
  <2> DEFINE k == pcall[c]
             gone == k.kind = "update" /\ k.p \notin ProfileRows
  <2>1. /\ k.at = "write" /\ ProfileCallActive(c) /\ k.p \in ProfileIds
        /\ mark' = IF gone THEN mark ELSE Marked(k.p, k.flag)
        /\ blurred' = IF k.flag = "yes" /\ c \notin met /\ ~gone THEN FALSE
                      ELSE blurred \/ gone \/ (k.flag = "no" /\ mark[k.p] = "default")
        /\ pcall'[c].at = "idle" /\ \A d \in ProfileCalls \ {c} : pcall'[d] = pcall[d]
        /\ met' = met \ {c}
    BY <1>5 DEF Write, Finish, NoProfileCall, PlacesKnown, ProfileCallActive
  <2>2. CASE k.flag = "yes" /\ c \notin met /\ ~gone
    <3>1. Defaults = {} /\ Lone(c)
      BY <2>1, <2>2 DEF Settled, Promoting, Meetings
    <3>2. mark' = [mark EXCEPT ![k.p] = "default"]
      BY <2>1, <2>2 DEF Marked
    <3>3. Defaults' = {k.p}
      BY <2>1, <3>1, <3>2 DEF Defaults
    <3>4. One'
      BY <2>1, <3>3 DEF One
    <3>5. QED
      BY <2>1, <2>2, <3>1, <3>4, SettledByOne DEF Promoting
  <2>3. CASE ~(k.flag = "yes" /\ c \notin met /\ ~gone)
    <3>1. ASSUME ~blurred' PROVE ~blurred /\ One'
      <4>1. ~blurred /\ ~gone /\ k.flag # "yes" /\ ~(k.flag = "no" /\ mark[k.p] = "default")
        BY <2>1, <2>3, <3>1 DEF Meetings
      <4>2. \A d \in ProfileCalls : ~Promoting(d)
        BY <2>1, <4>1, OthersHaveMet DEF Promoting, ProfileCallActive
      <4>3. One /\ ProfileRows # {}
        BY <2>1, <4>1, <4>2 DEF Settled, PlacesKnown
      <4>4. mark' = mark \/ mark' = [mark EXCEPT ![k.p] = "plain"]
        BY <2>1, <4>1 DEF Marked
      <4>5. Defaults' = Defaults
        BY <2>1, <4>1, <4>4, k.flag \in {"no", "absent"} DEF Defaults, Marked
      <4>6. QED
        BY <4>1, <4>3, <4>5 DEF One
    <3>2. QED
      BY <2>1, <3>1, SettledByOne DEF Promoting
  <2>4. QED
    BY <2>2, <2>3
<1>6. ASSUME NEW c \in ProfileCalls, ProfileCallActive(c), mark' = mark, met \ {c} \subseteq met',
             pcall[c].flag # "yes" \/ pcall[c].at # "write" \/ blurred',
             blurred => blurred', \A d \in ProfileCalls \ {c} : pcall'[d] = pcall[d],
             pcall'[c].at \notin {"write"},
             pcall'[c].at \in {"used", "delete"} /\ pcall'[c].p \in Defaults /\ ~blurred =>
               ProfileRows = {pcall'[c].p}
      PROVE  Settled'
  <2>1. ProfileRows' = ProfileRows /\ Defaults' = Defaults /\ (One' <=> One)
    BY <1>6 DEF ProfileRows, Defaults, One
  <2>2. ASSUME ~blurred' PROVE One'
    BY <1>6, <2>1, <2>2, OthersHaveMet DEF Settled, Promoting, ProfileCallActive
  <2>3. QED
    BY <1>6, <2>1, <2>2, SettledByOne DEF Promoting
<1>7. ASSUME NEW c \in ProfileCalls, DeleteOthers(c) PROVE Settled'
  <2>1. CASE OthersExist(pcall[c].p)
    BY <1>7, <2>1, <1>6 DEF DeleteOthers, Finish, NoProfileCall, ProfileCallActive
  <2>2. CASE ~OthersExist(pcall[c].p)
    <3>1. pcall'[c].p \in Defaults => ProfileRows = {pcall'[c].p}
      BY <1>7, <2>2 DEF DeleteOthers, Step, OthersExist, Defaults, ProfileRows
    <3>2. QED
      BY <1>7, <2>2, <3>1, <1>6 DEF DeleteOthers, Step, ProfileCallActive
  <2>3. QED
    BY <2>1, <2>2
<1>8. ASSUME NEW c \in ProfileCalls, DeleteUsed(c) PROVE Settled'
  <2>1. CASE InUse(pcall[c].p)
    BY <1>8, <2>1, <1>6 DEF DeleteUsed, Finish, NoProfileCall, ProfileCallActive
  <2>2. CASE ~InUse(pcall[c].p)
    <3>1. pcall'[c].p \in Defaults /\ ~blurred => ProfileRows = {pcall'[c].p}
      BY <1>8, <2>2 DEF DeleteUsed, Step, Settled
    <3>2. QED
      BY <1>8, <2>2, <3>1, <1>6 DEF DeleteUsed, Step, ProfileCallActive
  <2>3. QED
    BY <2>1, <2>2
<1>9. ASSUME NEW c \in ProfileCalls, DeleteProfile(c) PROVE Settled'
  <2> DEFINE p == pcall[c].p
  <2>1. /\ pcall[c].at = "delete" /\ ProfileCallActive(c) /\ p \in ProfileIds
        /\ mark' = [mark EXCEPT ![p] = "none"] /\ blurred' = blurred /\ met' = met \ {c}
        /\ pcall'[c].at = "idle" /\ \A d \in ProfileCalls \ {c} : pcall'[d] = pcall[d]
    BY <1>9 DEF DeleteProfile, Finish, NoProfileCall, PlacesKnown, ProfileCallActive
  <2>2. ProfileRows' = ProfileRows \ {p} /\ Defaults' = Defaults \ {p}
    BY <2>1 DEF ProfileRows, Defaults
  <2>3. ASSUME ~blurred PROVE One'
    <3>1. One
      BY <2>1, <2>3, OthersHaveMet DEF Settled, Promoting, ProfileCallActive
    <3>2. p \in Defaults => ProfileRows = {p}
      BY <2>1, <2>3 DEF Settled
    <3>3. QED
      BY <2>2, <3>1, <3>2 DEF One
  <2>4. QED
    BY <2>1, <2>3, SettledByOne DEF Promoting
<1>10. ASSUME NEW c \in ProfileCalls, ProfileThrows(c) PROVE Settled'
  BY <1>10, <1>6 DEF ProfileThrows, Finish, NoProfileCall, ProfileCallActive
<1>11. ASSUME NEW u \in Users, Assign(u) PROVE Settled'
  BY <1>11 DEF Assign, Settled, One, Promoting, ProfileRows, Defaults
<1>12. QED
  BY <1>1, <1>2, <1>3, <1>4, <1>5, <1>7, <1>8, <1>9, <1>10, <1>11 DEF ProfileNext

LEMMA ProfileStepInv == ProfileInv /\ [ProfileNext]_profileVars => ProfileInv'
<1> SUFFICES ASSUME ProfileInv, [ProfileNext]_profileVars PROVE ProfileInv'
  OBVIOUS
<1>1. CASE ProfileNext
  BY <1>1, TypesKept, MeetingsKept, UsageKept, SettledKept DEF ProfileInv
<1>2. CASE UNCHANGED profileVars
  BY <1>2 DEF profileVars, ProfileInv, ProfileTypeOK, PlacesKnown, Meetings, Usage, Settled, One,
              Promoting, ProfileCallActive, Lone, ProfileRows, Defaults, InUse
<1>3. QED
  BY <1>1, <1>2

\* The invariant holds of every behaviour: what a call's place says, who has met
\* whom, what cameras name, and what a lone call may rely on.
\* (StreamProfileService, stream-profile.service.ts:46)
THEOREM ProfilesSound == ProfileSpec => []ProfileInv
  BY ProfileInitInv, ProfileStepInv, PTL DEF ProfileSpec

\* There is exactly one default among the profiles, unless calls overlapped, one
\* failed half way, or a default was unmarked, for any profiles and calls.
\* (stream-profile.service.ts:52)
THEOREM OneDefaultAlways == ProfileSpec => []OneDefaultUnlessBlurred
<1>1. ProfileInv => OneDefaultUnlessBlurred
  <2>1. SUFFICES ASSUME ProfileInv, ProfileCallsIdle, ProfileRows # {}, ~blurred
                 PROVE  Cardinality(Defaults) = 1
    BY DEF OneDefaultUnlessBlurred
  <2>2. PICK p \in ProfileIds : Defaults = {p}
    BY <2>1 DEF ProfileInv, Settled, One, Promoting, ProfileCallsIdle
  <2>3. QED
    BY <2>2, FS_Singleton
<1>2. QED
  BY <1>1, ProfilesSound, PTL

\* No camera ever names a profile that is gone, and a profile goes from under a
\* camera only if it was assigned after the deletion had looked.
\* (stream-profile.service.ts:160)
THEOREM UsedKept == ProfileSpec => UsedDeletedOnlyWhenLate
<1>1. ASSUME ProfileInv, ProfileNext, NEW u \in Users, uses[u] # None
      PROVE  StaysUsed(u) \/ LostLate(u)
  <2> USE DEF ProfileInv, ProfileTypeOK, ProfileRows, StaysUsed, LostLate
  <2>1. uses[u] \in ProfileRows
    BY <1>1 DEF Usage
  <2>2. CASE \E c \in ProfileCalls : DeleteProfile(c)
    <3>1. PICK c \in ProfileCalls : DeleteProfile(c)
      BY <2>2
    <3>2. CASE uses[u] = pcall[c].p
      <4>1. c \in late
        BY <1>1, <3>1, <3>2 DEF Usage, InUse, DeleteProfile
      <4>2. QED
        BY <3>1, <3>2, <4>1 DEF DeleteProfile
    <3>3. CASE uses[u] # pcall[c].p
      BY <1>1, <2>1, <3>1, <3>3 DEF DeleteProfile
    <3>4. QED
      BY <3>2, <3>3
  <2>3. CASE \E c \in ProfileCalls : Write(c)
    BY <1>1, <2>1, <2>3 DEF Write, Marked
  <2>4. CASE \E c \in ProfileCalls : UnsetDefaults(c)
    BY <1>1, <2>1, <2>4 DEF UnsetDefaults, Cleared
  <2>5. CASE mark' = mark
    BY <2>1, <2>5
  <2>6. QED
    BY <1>1, <2>2, <2>3, <2>4, <2>5
       DEF ProfileNext, CreateCount, UpdateRead, DeleteFind, DeleteOthers, DeleteUsed,
           ProfileThrows, Assign
<1>2. ProfileInv /\ [ProfileNext]_profileVars =>
        [\A u \in Users : uses[u] # None => StaysUsed(u) \/ LostLate(u)]_profileVars
  BY <1>1
<1>3. QED
  BY <1>2, ProfilesSound, PTL DEF ProfileSpec, UsedDeletedOnlyWhenLate

(***************************************************************************)
(* StreamHealth.  Fast exits are failures; more of them than the threshold *)
(* make a crash loop that stays one in the record of failures.  While flag *)
(* and row may not differ, transitions do not overlap, the verdict is told *)
(* by nobody else, and the one transition there is leaves the flag as the  *)
(* row it has written, or is to write, says.                               *)
(***************************************************************************)
LoopAt(set, t) == IsInCrashLoop({u \in set : u <= t /\ t - u <= CrashWindow})

Exits ==
  /\ fastExits \subseteq failures
  /\ \A u \in failures : u <= instant
  /\ IsInCrashLoop(fastExits) \/ degradedSince => \E t \in failures : LoopAt(failures, t)

Told ==
  /\ \A m, n \in Movers : mover[m].at # "idle" /\ mover[n].at # "idle" => m = n
  /\ verdict => degradedSince /\ \A m \in Movers : mover[m].at = "idle"
  /\ \A m \in Movers : mover[m].at # "idle" /\ mover[m].to = "degraded" => degradedSince
  /\ \A m \in Movers : mover[m].at = "record" => state = mover[m].to
  /\ Quiet => Agree

GaugeInv ==
  /\ HealthTypeOK /\ Exits
  /\ verdict => child = "none"
  /\ ~unsure => Told

\* Finite sets of instants have a cardinality that grows with them.
LEMMA InstantsCounted ==
  ASSUME NEW S \in SUBSET Instants, NEW T \in SUBSET S
  PROVE  /\ Cardinality(S) \in Nat /\ Cardinality(T) \in Nat
         /\ IsInCrashLoop(T) => IsInCrashLoop(S)
<1>1. IsFiniteSet(Instants)
  BY HealthAssumption, FS_Interval DEF Instants
<1>2. IsFiniteSet(S)
  BY <1>1, FS_Subset
<1>3. IsFiniteSet(T) /\ Cardinality(T) <= Cardinality(S)
  BY <1>2, FS_Subset
<1>4. Cardinality(S) \in Nat /\ Cardinality(T) \in Nat
  BY <1>2, <1>3, FS_CardinalityType
<1>5. QED
  BY <1>3, <1>4, HealthAssumption DEF IsInCrashLoop

\* A quiet camera whose flag and row agree is sure.
LEMMA QuietAgreeTold == (Quiet /\ Agree)' => Told'
  BY DEF Quiet, Agree, Told

LEMMA InitGauge == HealthInit => GaugeInv
<1> SUFFICES ASSUME HealthInit PROVE GaugeInv
  OBVIOUS
<1> USE HealthAssumption DEF HealthInit, AtRest
<1>1. HealthTypeOK
  <2>1. 0 \in Instants
    BY DEF Instants
  <2>2. QED
    BY <2>1 DEF HealthTypeOK, States
<1>2. Exits
  BY FS_EmptySet DEF Exits, IsInCrashLoop
<1>3. Told
  BY DEF Told, Quiet, Agree
<1>4. QED
  BY <1>1, <1>2, <1>3 DEF GaugeInv

\* The crash loop stays in the record of failures.
LEMMA LoopStays ==
  ASSUME HealthTypeOK, Exits, NEW u \in Instants, failures' = failures \cup {u},
         \E t \in failures : LoopAt(failures, t)
  PROVE  \E t \in failures' : LoopAt(failures', t)
<1>1. PICK t \in failures : LoopAt(failures, t)
  OBVIOUS
<1>2. {v \in failures : v <= t /\ t - v <= CrashWindow} \subseteq {v \in failures' : v <= t
        /\ t - v <= CrashWindow}
  OBVIOUS
<1>3. {v \in failures' : v <= t /\ t - v <= CrashWindow} \subseteq Instants
  BY DEF HealthTypeOK
<1>4. LoopAt(failures', t)
  BY <1>1, <1>2, <1>3, InstantsCounted DEF LoopAt, IsInCrashLoop
<1>5. QED
  BY <1>1, <1>4

LEMMA ChildFailsStep ==
  ASSUME GaugeInv, ChildFails
  PROVE  GaugeInv'
<1> USE HealthAssumption DEF GaugeInv
<1>1. /\ child # "none" /\ child' = "none" /\ startedAt' = None
      /\ instant < LastInstant /\ instant' = instant + 1
      /\ fastExits' = Recent(IF IsFast THEN fastExits \cup {instant} ELSE fastExits)
      /\ failures' = IF IsFast THEN failures \cup {instant} ELSE failures
      /\ verdict' = IsInCrashLoop(fastExits')
      /\ degradedSince' = (degradedSince \/ verdict')
      /\ UNCHANGED <<state, mover>>
      /\ Unsure(verdict' /\ \E m \in Movers : mover[m].at # "idle")
  BY DEF ChildFails, ItsInstant
<1>2. /\ instant \in Instants /\ instant' \in Instants
      /\ fastExits' \subseteq Instants /\ failures' \subseteq Instants /\ failures \subseteq failures'
  <2>1. instant \in Instants /\ fastExits \subseteq Instants /\ failures \subseteq Instants
    BY DEF HealthTypeOK
  <2>2. instant' \in Instants
    BY <1>1, <2>1 DEF Instants
  <2>3. QED
    BY <1>1, <2>1, <2>2 DEF Recent
<1>3. HealthTypeOK'
  BY <1>1, <1>2 DEF HealthTypeOK, Unsure, IsInCrashLoop
<1>4. \A u \in failures' : u <= instant
  BY <1>1, <1>2 DEF Exits, Instants
<1>5. fastExits' \subseteq failures'
  BY <1>1 DEF Exits, Recent
<1>6. IsInCrashLoop(fastExits') \/ degradedSince' => \E t \in failures' : LoopAt(failures', t)
  <2>1. CASE \E t \in failures : LoopAt(failures, t)
    <3>1. CASE IsFast
      BY <1>1, <1>2, <2>1, <3>1, LoopStays
    <3>2. CASE ~IsFast
      BY <1>1, <2>1, <3>2
    <3>3. QED
      BY <3>1, <3>2
  <2>2. CASE ~\E t \in failures : LoopAt(failures, t)
    <3>1. ~degradedSince /\ ~IsInCrashLoop(fastExits)
      BY <2>2 DEF Exits
    <3>2. SUFFICES ASSUME IsInCrashLoop(fastExits') PROVE \E t \in failures' : LoopAt(failures', t)
      BY <1>1, <3>1
    <3>3. ~(fastExits' \subseteq fastExits)
      BY <3>1, <3>2, InstantsCounted DEF HealthTypeOK
    <3>4. IsFast
      BY <1>1, <3>3 DEF Recent
    <3>5. fastExits' \subseteq {u \in failures' : u <= instant /\ instant - u <= CrashWindow}
      BY <1>1, <1>4, <1>5 DEF Recent
    <3>6. {u \in failures' : u <= instant /\ instant - u <= CrashWindow} \subseteq Instants
      BY <1>2
    <3>7. LoopAt(failures', instant)
      <4>1. IsInCrashLoop({u \in failures' : u <= instant /\ instant - u <= CrashWindow})
        BY <3>2, <3>5, <3>6, InstantsCounted
      <4>2. QED
        BY <4>1 DEF LoopAt
    <3>8. QED
      BY <1>1, <3>4, <3>7
  <2>3. QED
    BY <2>1, <2>2
<1>7. Exits'
  <2>1. \A u \in failures' : u <= instant'
    BY <1>1, <1>2, <1>4 DEF Instants
  <2>2. QED
    BY <1>5, <1>6, <2>1 DEF Exits
<1>8. ~unsure' => Told'
  <2>1. CASE (Quiet /\ Agree)'
    BY <2>1, QuietAgreeTold
  <2>2. CASE ~(Quiet /\ Agree)'
    <3>1. SUFFICES ASSUME ~unsure' PROVE Told'
      OBVIOUS
    <3>2. ~unsure /\ ~(verdict' /\ \E m \in Movers : mover[m].at # "idle")
      BY <1>1, <2>2, <3>1 DEF Unsure
    <3>3. ~verdict
      BY <1>1
    <3>4. QED
      BY <1>1, <3>2, <3>3 DEF Told, Quiet, Agree
  <2>3. QED
    BY <2>1, <2>2
<1>9. QED
  BY <1>1, <1>3, <1>7, <1>8

\* The other steps of the worker's FFmpeg and of time.
LEMMA ChildStep ==
  ASSUME GaugeInv, SpawnChild \/ RecordStart \/ ChildStops \/ TimePasses \/ Snapshot
  PROVE  GaugeInv'
<1> USE HealthAssumption DEF GaugeInv, ItsInstant
<1>1. /\ UNCHANGED <<state, degradedSince, verdict, mover, failures, unsure>>
      /\ fastExits' \subseteq fastExits /\ (verdict => child' = "none")
      /\ instant' = instant \/ (instant < LastInstant /\ instant' = instant + 1)
      /\ child' \in {"none", "spawned", "started"} /\ startedAt' \in {startedAt, None, instant}
  BY DEF SpawnChild, RecordStart, ChildStops, TimePasses, Snapshot, Recent, HealthTypeOK
<1>2. instant \in Nat /\ instant' \in Instants
  BY <1>1 DEF HealthTypeOK, Instants
<1>3. HealthTypeOK'
  <2>1. instant \in Instants /\ fastExits' \subseteq Instants /\ startedAt' \in Instants \cup {None}
    BY <1>1 DEF HealthTypeOK
  <2>2. QED
    BY <1>1, <1>2, <2>1 DEF HealthTypeOK
<1>4. Exits'
  <2>1. \A u \in failures : u \in Nat
    BY DEF HealthTypeOK, Instants
  <2>2. \A u \in failures' : u <= instant'
    BY <1>1, <1>2, <2>1 DEF Exits
  <2>3. fastExits \in SUBSET Instants /\ fastExits' \in SUBSET fastExits
    BY <1>1 DEF HealthTypeOK
  <2>4. IsInCrashLoop(fastExits') => IsInCrashLoop(fastExits)
    BY <2>3, InstantsCounted
  <2>5. fastExits' \subseteq failures' /\ (degradedSince' <=> degradedSince) /\ failures' = failures
    BY <1>1 DEF Exits
  <2>6. QED
    BY <2>2, <2>4, <2>5 DEF Exits
<1>5. Told => Told'
  BY <1>1 DEF Told, Quiet, Agree
<1>6. QED
  BY <1>1, <1>3, <1>4, <1>5

(***************************************************************************)
(* StatusService.transition.                                               *)
(***************************************************************************)
LEMMA GaugeReadStep ==
  ASSUME GaugeInv, NEW m \in Movers, NEW to \in States, TransitionRead(m, to)
  PROVE  GaugeInv'
<1> USE DEF GaugeInv
<1> DEFINE next == IF to # state /\ (to = "offline" \/ to \in ValidTransitions[state])
                   THEN [at |-> "write", to |-> to] ELSE AtRest
           harm == \/ to = "degraded" /\ to # state /\ mover'[m] = AtRest
                   \/ verdict /\ m # StreamWorker
                   \/ \E n \in Movers \ {m} : mover[n].at # "idle"
<1>1. /\ mover[m].at = "idle" /\ AsksFor(m, to) /\ mover' = [mover EXCEPT ![m] = next]
      /\ verdict' = (verdict /\ m # StreamWorker)
      /\ UNCHANGED <<state, child, instant, startedAt, fastExits, degradedSince, failures>>
      /\ Unsure(harm)
  BY DEF TransitionRead
<1>2. next \in [at : {"idle", "write", "record"}, to : States] /\ next.at # "record"
  BY DEF AtRest, States
<1>3. HealthTypeOK'
  <2> HIDE DEF next
  <2>1. mover' \in [Movers -> [at : {"idle", "write", "record"}, to : States]]
    BY <1>1, <1>2 DEF HealthTypeOK
  <2>2. verdict' \in BOOLEAN /\ unsure' \in BOOLEAN
    BY <1>1 DEF HealthTypeOK, Unsure
  <2>3. QED
    BY <1>1, <2>1, <2>2 DEF HealthTypeOK
<1>4. Exits'
  BY <1>1 DEF Exits, IsInCrashLoop
<1>5. ~unsure' => Told'
  <2>1. CASE (Quiet /\ Agree)'
    BY <2>1, QuietAgreeTold
  <2>2. CASE ~(Quiet /\ Agree)'
    <3>1. SUFFICES ASSUME ~unsure' PROVE Told'
      OBVIOUS
    <3>2. ~unsure /\ ~harm /\ Told
      BY <1>1, <2>2, <3>1 DEF Unsure
    <3>3. verdict' = FALSE /\ \A n \in Movers \ {m} : mover[n].at = "idle"
      BY <1>1, <3>2
    <3>4. mover'[m] = next /\ \A n \in Movers \ {m} : mover'[n] = mover[n]
      BY <1>1 DEF HealthTypeOK
    <3>5. Quiet \/ verdict
      BY <1>1, <3>3 DEF Quiet
    <3>6. CASE next = AtRest
      <4>1. (state = to /\ to = "degraded" /\ degradedSince) \/ Agree
        BY <1>1, <3>2, <3>3, <3>4, <3>5, <3>6 DEF AsksFor, Told, AtRest
      <4>2. QED
        BY <1>1, <3>3, <3>4, <3>6, <4>1, <2>2 DEF Agree, Quiet, AtRest
    <3>7. CASE next # AtRest
      <4>1. next.at = "write" /\ next.to = to
        BY <3>7
      <4>2. to = "degraded" => degradedSince
        BY <1>1, <3>2 DEF AsksFor, Told
      <4>3. ~Quiet'
        BY <3>4, <4>1 DEF Quiet
      <4> HIDE DEF next
      <4>4. QED
        BY <1>1, <3>3, <3>4, <4>1, <4>2, <4>3 DEF Told
    <3>8. QED
      BY <3>6, <3>7
  <2>3. QED
    BY <2>1, <2>2
<1>6. QED
  BY <1>1, <1>3, <1>4, <1>5

LEMMA GaugeWriteStep ==
  ASSUME GaugeInv, NEW m \in Movers, TransitionWrite(m)
  PROVE  GaugeInv'
<1> USE DEF GaugeInv
<1>1. /\ mover[m].at = "write" /\ state' = mover[m].to /\ mover' = [mover EXCEPT ![m].at = "record"]
      /\ UNCHANGED <<child, instant, startedAt, fastExits, degradedSince, verdict, failures, unsure>>
  BY DEF TransitionWrite
<1>2. HealthTypeOK'
  BY <1>1 DEF HealthTypeOK
<1>3. Exits'
  BY <1>1 DEF Exits, IsInCrashLoop
<1>4. /\ mover'[m].at = "record" /\ mover'[m].to = mover[m].to
      /\ \A n \in Movers \ {m} : mover'[n] = mover[n]
  BY <1>1 DEF HealthTypeOK
<1>5. Told => Told'
  BY <1>1, <1>4 DEF Told, Quiet
<1>6. QED
  BY <1>1, <1>2, <1>3, <1>5

LEMMA GaugeRecordStep ==
  ASSUME GaugeInv, NEW m \in Movers, TransitionThrows(m) \/ RecordTransition(m)
  PROVE  GaugeInv'
<1> USE DEF GaugeInv
<1>1. /\ mover[m].at # "idle" /\ mover' = [mover EXCEPT ![m] = AtRest]
      /\ UNCHANGED <<state, child, instant, startedAt, fastExits, verdict, failures>>
      /\ \/ degradedSince' = degradedSince /\ Unsure(TRUE)
         \/ /\ mover[m].at = "record" /\ Unsure(FALSE)
            /\ degradedSince' = (degradedSince /\ ~Lowers(mover[m].to))
  BY DEF TransitionThrows, RecordTransition
<1>2. HealthTypeOK'
  <2>1. mover' \in [Movers -> [at : {"idle", "write", "record"}, to : States]]
    BY <1>1 DEF HealthTypeOK, AtRest, States
  <2>2. degradedSince' \in BOOLEAN /\ unsure' \in BOOLEAN
    BY <1>1 DEF HealthTypeOK, Unsure
  <2>3. QED
    BY <1>1, <2>1, <2>2 DEF HealthTypeOK
<1>3. Exits'
  <2>1. degradedSince' => degradedSince
    BY <1>1 DEF HealthTypeOK
  <2>2. QED
    BY <1>1, <2>1 DEF Exits, IsInCrashLoop
<1>4. ~unsure' => Told'
  <2>1. CASE (Quiet /\ Agree)'
    BY <2>1, QuietAgreeTold
  <2>2. CASE ~(Quiet /\ Agree)'
    <3>1. SUFFICES ASSUME ~unsure' PROVE FALSE
      OBVIOUS
    <3>2. /\ ~unsure /\ Told /\ mover[m].at = "record"
          /\ degradedSince' = (degradedSince /\ mover[m].to = "degraded")
      BY <1>1, <2>2, <3>1 DEF Unsure, Lowers
    <3>3. state = mover[m].to /\ (mover[m].to = "degraded" => degradedSince) /\ ~verdict
      BY <3>2 DEF Told
    <3>4. Agree' /\ Quiet'
      BY <1>1, <3>2, <3>3 DEF Agree, Quiet, Told, AtRest, HealthTypeOK
    <3>5. QED
      BY <2>2, <3>4
  <2>3. QED
    BY <2>1, <2>2
<1>5. QED
  BY <1>1, <1>2, <1>3, <1>4

LEMMA RebootStep ==
  ASSUME GaugeInv, Reboot
  PROVE  GaugeInv'
<1> USE HealthAssumption DEF GaugeInv, Reboot
<1>1. HealthTypeOK'
  BY DEF HealthTypeOK, Unsure, AtRest, States
<1>2. Exits'
  BY FS_EmptySet DEF Exits, IsInCrashLoop
<1>3. ~unsure' => Told'
  <2>1. ~unsure' => (Quiet /\ Agree)'
    BY DEF Unsure
  <2>2. QED
    BY <2>1, QuietAgreeTold
<1>4. QED
  BY <1>1, <1>2, <1>3

LEMMA GaugeStep == GaugeInv /\ [HealthNext]_gaugeVars => GaugeInv'
<1>1. ASSUME GaugeInv, UNCHANGED gaugeVars PROVE GaugeInv'
  BY <1>1 DEF GaugeInv, HealthTypeOK, Exits, LoopAt, IsInCrashLoop, Told, Quiet, Agree, gaugeVars
<1>2. QED
  BY <1>1, ChildFailsStep, ChildStep, GaugeReadStep, GaugeWriteStep, GaugeRecordStep,
       RebootStep DEF HealthNext

\* A crash loop stays one in the record of failures, and a transition that is alone leaves
\* the flag as its row says.  (StreamHealthMetricsService.recordTransition,
\* stream-health-metrics.service.ts:123)
THEOREM GaugeInvHolds == HealthSpec => []GaugeInv
  BY InitGauge, GaugeStep, PTL DEF HealthSpec

\* A camera is flagged only after more fast failures within a window than the threshold,
\* and flag and row agree, but for the excuses the property names.
\* (StreamHealthMetricsService.recordTransition, stream-health-metrics.service.ts:123)
THEOREM DegradedToldHolds == HealthSpec => []DegradedTold
<1>1. GaugeInv => DegradedTold
  BY DEF GaugeInv, Exits, LoopAt, Told, DegradedTold
<1>2. QED
  BY <1>1, GaugeInvHolds, PTL
=============================================================================
