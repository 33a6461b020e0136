----------------------------- MODULE RecordingStarts -----------------------------
(***************************************************************************)
(* Recordings, and what its two stores of one fact promise: startRecording *)
(* and the schedule go by the camera's flag, stopRecording by the active   *)
(* recording.  Both are read, and both written, one after the other.       *)
(***************************************************************************)
EXTENDS Recordings

VARIABLE astray  \* history: cameras whose flag may not tell, until it does again

startsVars == <<vars, astray>>

\* Calls that have read one of the two and not yet written the other.
Between == {"start_quota", "start_create", "start_flag", "stop_row", "stop_flag"}
Inside(c) == {k \in Callers : ccam[k] = c /\ cpc[k] \in Between}

OneActive(c) == \A q, r \in Active(c) : q = r
Agrees(c) == (isRecording[c] <=> Active(c) # {}) /\ OneActive(c)

\* Calls that end without their second write.
Dies(k) ==
  /\ cpc'[k] = "idle"
  /\ \/ cpc[k] = "start_flag" /\ ~isRecording'[ccam[k]]
     \/ cpc[k] = "stop_flag" /\ isRecording'[ccam[k]]

\* Two calls meet, one dies between its writes, or a deletion (a user's, retention's)
\* takes the active recording.
Crosses(c) ==
  \/ \E k, l \in Inside(c)' : k # l
  \/ \E k \in Inside(c) : Dies(k)
  \/ \E r \in Active(c) : rec'[r] = "gone"

Heals(c) == Inside(c)' = {} /\ Agrees(c)'

StartsInit == Init /\ astray = {}

\* What a step does to the history.
StartsStep == astray' = {c \in Cameras : Crosses(c) \/ (c \in astray /\ ~Heals(c))}

StartsNext == Next /\ StartsStep

StartsSpec == StartsInit /\ [][StartsNext]_startsVars

\* What a place says: a start is where there is nothing to stop, a stop where there is.
PlaceTells(k, c) ==
  /\ cpc[k] \in {"start_quota", "start_create"} => ~isRecording[c] /\ Active(c) = {}
  /\ cpc[k] = "start_flag" => ~isRecording[c] /\ Active(c) # {}
  /\ cpc[k] = "stop_row" => isRecording[c] /\ crec[k] \in Active(c)
  /\ cpc[k] = "stop_flag" => isRecording[c] /\ Active(c) = {}

\* A camera on its way: nobody inside, or one whose place tells.
Sound(c) ==
  /\ \A k, l \in Inside(c) : k = l
  /\ Inside(c) = {} => Agrees(c)
  /\ OneActive(c) /\ \A k \in Inside(c) : PlaceTells(k, c)

\* Whoever stops has a recording of its camera.
StopsOwn ==
  \A k \in Callers : cpc[k] = "stop_row" =>
    crec[k] \in Recs /\ rec[crec[k]] # "unused" /\ recCam[crec[k]] = ccam[k]

\* The inductive invariant.
StartsInv == TypeOK /\ StopsOwn /\ \A c \in Cameras : c \in astray \/ Sound(c)

\* When no call is between its read and its write, a camera is flagged exactly while it
\* has an active recording, and it has one at most; unless two calls met, one died
\* between its writes, or the active recording was deleted, and it has not come right
\* since.  (RecordingsService.startRecording, recordings.service.ts:126)
FlagTellsUnlessCrossed == \A c \in Cameras : Inside(c) = {} => c \in astray \/ Agrees(c)
=============================================================================
