------------------------------ MODULE StreamKeys ------------------------------
(***************************************************************************)
(* The stream key of a push camera: rotateStreamKey and deleteCamera, step *)
(* by step, against encoders that publish with the key they were given,    *)
(* through on_publish and SRS.                                             *)
(***************************************************************************)
EXTENDS Naturals, FiniteSets, Optional

CONSTANTS
  Keys,      \* stream keys, never used twice
  Clients,   \* SRS client ids: connections of encoders
  KeyCalls   \* rotations and deletions at the same time

ASSUME KeyAssumption == None \notin Keys /\ None \notin Clients

VARIABLES
  streamKey,  \* the Camera row's key; None: the camera was deleted
  worn,       \* keys there have been
  conn,       \* connections: unused, accepted by on_publish, on air, closed; their key
  kcall,      \* calls: kind, place, key read, publisher found
  hasty,      \* history: connections that came on air while a call was in progress
  srsFailed   \* history: a call to SRS or a write failed

keyVars == <<streamKey, worn, conn, kcall, hasty, srsFailed>>

NoKeyCall == [kind |-> "rotate", at |-> "idle", key |-> None, client |-> None]
Publishing(k) == {i \in Clients : conn[i] = [at |-> "on", key |-> k]}
Accepted == {i \in Clients : conn[i].at = "accepted"}
KeyCallsIdle == \A c \in KeyCalls : kcall[c].at = "idle"
Note(clients) == hasty' = IF KeyCallsIdle THEN hasty ELSE hasty \cup clients

KeyInit ==
  /\ streamKey \in Keys /\ worn = {streamKey}
  /\ conn = [i \in Clients |-> [at |-> "unused", key |-> None]]
  /\ kcall = [c \in KeyCalls |-> NoKeyCall]
  /\ hasty = {} /\ srsFailed = FALSE

(***************************************************************************)
(* An encoder connects with a key it was given: on_publish looks the key   *)
(* up and answers; SRS takes the publisher then, one for a key.            *)
(***************************************************************************)
Known(k) == k = streamKey

OnPublish(i) ==
  /\ conn[i].at = "unused"
  /\ \E k \in worn : Known(k) /\ conn' = [conn EXCEPT ![i] = [at |-> "accepted", key |-> k]]
  /\ Note({i})
  /\ UNCHANGED <<streamKey, worn, kcall, srsFailed>>

Publish(i) ==
  /\ conn[i].at = "accepted"
  /\ conn' = [conn EXCEPT ![i].at = IF Publishing(conn[i].key) = {} THEN "on" ELSE "closed"]
  /\ Note({i})
  /\ UNCHANGED <<streamKey, worn, kcall, srsFailed>>

Unpublish(i) ==
  /\ conn[i].at = "on" /\ conn' = [conn EXCEPT ![i].at = "closed"]
  /\ UNCHANGED <<streamKey, worn, kcall, hasty, srsFailed>>

(***************************************************************************)
(* rotateStreamKey finds, writes, kicks; deleteCamera finds, kicks, then   *)
(* deletes the row.  Errors of SRS are swallowed by both.                  *)
(***************************************************************************)
KeyRead(c) ==
  /\ kcall[c].at = "idle" /\ streamKey # None
  /\ \E kind \in {"rotate", "delete"} :
       kcall' = [kcall EXCEPT ![c] = [kind |-> kind, at |-> "find", key |-> streamKey, client |-> None]]
  /\ UNCHANGED <<streamKey, worn, conn, hasty, srsFailed>>

KeyFind(c) ==
  LET k == kcall[c]
      Found(i) == [k EXCEPT !.client = i, !.at = IF k.kind = "rotate" THEN "write" ELSE "kick"] IN
  /\ k.at = "find"
  /\ \/ \E i \in Publishing(k.key) : kcall' = [kcall EXCEPT ![c] = Found(i)] /\ UNCHANGED srsFailed
     \/ Publishing(k.key) = {} /\ kcall' = [kcall EXCEPT ![c] = Found(None)] /\ UNCHANGED srsFailed
     \/ kcall' = [kcall EXCEPT ![c] = Found(None)] /\ srsFailed' = TRUE
  /\ UNCHANGED <<streamKey, worn, conn, hasty>>

FreshKey == CHOOSE n \in Keys : n \notin worn

KeyWrite(c) ==
  LET k == kcall[c] IN
  /\ k.at = "write" /\ (k.kind = "rotate" => worn # Keys)
  /\ streamKey' = IF streamKey = None \/ k.kind = "delete" THEN None ELSE FreshKey
  /\ worn' = worn \cup ({streamKey'} \ {None})
  /\ kcall' = [kcall EXCEPT ![c] = IF streamKey' = None THEN NoKeyCall ELSE [k EXCEPT !.at = "kick"]]
  /\ srsFailed' = (srsFailed \/ streamKey = None)  \* the row is gone: update and delete throw
  /\ hasty' = hasty \cup Accepted
  /\ UNCHANGED conn

\* Mutant of KickedOff: the id is not SRS's.
KickedNobody(client) == conn
KickedOff(client) ==
  [i \in Clients |-> IF i = client /\ conn[i].at = "on" THEN [conn[i] EXCEPT !.at = "closed"] ELSE conn[i]]

KeyKick(c) ==
  LET k == kcall[c] IN
  /\ k.at = "kick"
  /\ kcall' = [kcall EXCEPT ![c] = IF k.kind = "delete" THEN [k EXCEPT !.at = "write"] ELSE NoKeyCall]
  /\ \/ conn' = KickedOff(k.client) /\ UNCHANGED srsFailed
     \/ k.client # None /\ srsFailed' = TRUE /\ UNCHANGED conn
  /\ UNCHANGED <<streamKey, worn, hasty>>

KeyNext ==
  \/ \E i \in Clients : OnPublish(i) \/ Publish(i) \/ Unpublish(i)
  \/ \E c \in KeyCalls : KeyRead(c) \/ KeyFind(c) \/ KeyWrite(c) \/ KeyKick(c)

KeySpec == KeyInit /\ [][KeyNext]_keyVars

(***************************************************************************)
(* Properties.                                                             *)
(***************************************************************************)
KeyTypeOK ==
  /\ streamKey \in Keys \cup {None} /\ worn \subseteq Keys
  /\ conn \in [Clients -> [at : {"unused", "accepted", "on", "closed"}, key : Keys \cup {None}]]
  /\ kcall \in [KeyCalls -> [kind : {"rotate", "delete"}, at : {"idle", "find", "write", "kick"},
                             key : Keys \cup {None}, client : Clients \cup {None}]]
  /\ hasty \subseteq Clients /\ srsFailed \in BOOLEAN

\* When rotations and deletions are over, whoever still publishes with a key
\* the camera does not have came on air during one of them, or SRS or a write
\* failed.  (CamerasService.rotateStreamKey, cameras.service.ts:869)
StrangerExplained ==
  KeyCallsIdle /\ ~srsFailed =>
    \A i \in Clients \ hasty : conn[i].at = "on" => conn[i].key = streamKey
=============================================================================
