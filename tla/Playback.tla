------------------------------ MODULE Playback ------------------------------
(***************************************************************************)
(* Playback of one camera: sessions (PlaybackService), the viewers that    *)
(* play them through SRS's on_play and on_stop, the count of viewers that  *)
(* StatusService keeps in memory, and the snapshots (SnapshotService),     *)
(* whose FFmpeg is a player like any other.  The API process and SRS may   *)
(* each die and come back.                                                 *)
(***************************************************************************)
EXTENDS Naturals, FiniteSets, Optional

CONSTANTS
  Sessions,     \* PlaybackSession rows
  Players,      \* connections to SRS
  Limits,       \* values of a policy's maxViewers; 0: no limit
  MaxChanges,   \* bound: edits of the policy
  MaxRestarts   \* bound: deaths of the API process and of SRS

ASSUME PlaybackAssumption ==
  /\ Limits \subseteq Nat /\ Limits # {} /\ {MaxChanges, MaxRestarts} \subseteq Nat
  /\ IsFiniteSet(Players) /\ None \notin Sessions \cup Players

VARIABLES
  maxViewers,  \* what PoliciesService.resolve gives for the camera
  session,     \* rows: place in their creation, who asked, the limit they were made with
  player,      \* connections: place, session
  viewers,     \* viewerCounts of the camera
  grab,        \* SnapshotService.refreshOne: place, session; inFlight: not idle
  changes, restarts,
  short,       \* history: the API died with players on, who have not all left since
  ghosts       \* history: SRS died with players on, and the API has not since

playbackVars == <<maxViewers, session, player, viewers, grab, changes, restarts, short, ghosts>>
playPast == <<short, ghosts>>
playBounds == <<changes, restarts>>

NoSession == [at |-> "none", by |-> "viewer", max |-> 0]
NoPlayer == [at |-> "idle", session |-> None]
NoGrab == [at |-> "idle", session |-> None]
On == {p \in Players : player[p].at \in {"plays", "left"}}
Full(max) == max > 0 /\ viewers >= max

PlaybackInit ==
  /\ maxViewers \in Limits
  /\ session = [s \in Sessions |-> NoSession] /\ player = [p \in Players |-> NoPlayer]
  /\ viewers = 0 /\ grab = NoGrab /\ changes = 0 /\ restarts = 0
  /\ short = FALSE /\ ghosts = FALSE

PolicyChange ==
  /\ changes < MaxChanges /\ changes' = changes + 1
  /\ \E n \in Limits : maxViewers' = n
  /\ UNCHANGED <<session, player, viewers, grab, restarts>> /\ UNCHANGED playPast

(***************************************************************************)
(* createSession: resolve; check the limit and create the row; sign.       *)
(***************************************************************************)
Put(s, place, max) == session' = [session EXCEPT ![s].at = place, ![s].max = max]

CreateResolve(s) ==
  /\ session[s].at = "none" /\ Put(s, "resolved", maxViewers)
  /\ UNCHANGED <<maxViewers, player, viewers, grab>> /\ UNCHANGED playBounds /\ UNCHANGED playPast

CreateRow(s) ==
  /\ session[s].at = "resolved" /\ session[s].by = "viewer"
  /\ IF Full(session[s].max) THEN session' = [session EXCEPT ![s] = NoSession]
                             ELSE Put(s, "row", session[s].max)
  /\ UNCHANGED <<maxViewers, player, viewers, grab>> /\ UNCHANGED playBounds /\ UNCHANGED playPast

CreateSign(s) ==
  /\ session[s].at = "row" /\ session[s].by = "viewer" /\ Put(s, "signed", session[s].max)
  /\ UNCHANGED <<maxViewers, player, viewers, grab>> /\ UNCHANGED playBounds /\ UNCHANGED playPast

\* The token expires: who plays with it goes on.
TokenExpires(s) ==
  /\ session[s].at = "signed" /\ Put(s, "expired", session[s].max)
  /\ UNCHANGED <<maxViewers, player, viewers, grab>> /\ UNCHANGED playBounds /\ UNCHANGED playPast

(***************************************************************************)
(* on_play: the token, which takes an await, then the limit and the count, *)
(* with nothing in between.  on_stop comes when SRS has let the player go. *)
(***************************************************************************)
Move(p, place) == player' = [player EXCEPT ![p].at = place]

OnPlay(p) ==
  /\ player[p].at = "idle"
  /\ \E s \in Sessions :
       /\ session[s].at = "signed" /\ session[s].by = "viewer"
       /\ player' = [player EXCEPT ![p] = [at |-> "verify", session |-> s]]
  /\ UNCHANGED <<maxViewers, session, viewers, grab>> /\ UNCHANGED playBounds /\ UNCHANGED playPast

Valid(s) == session[s].at = "signed"

\* Mutant of Admitted: the check of createSession is taken to be enough.
AdmittedBefore(s) == Valid(s)
Admitted(s) == Valid(s) /\ ~Full(session[s].max)

Admit(p) ==
  LET s == player[p].session IN
  /\ player[p].at \in {"verify", "lost"}
  /\ IF Admitted(s) /\ player[p].at = "verify" THEN Move(p, "plays")
                                              ELSE player' = [player EXCEPT ![p] = NoPlayer]
  /\ viewers' = IF Admitted(s) THEN viewers + 1 ELSE viewers
  /\ ghosts' = (ghosts \/ (Admitted(s) /\ player[p].at = "lost"))
  /\ UNCHANGED <<maxViewers, session, grab, short>> /\ UNCHANGED playBounds

Leave(p) ==
  /\ player[p].at = "plays" /\ Move(p, "left")
  /\ UNCHANGED <<maxViewers, session, viewers, grab>> /\ UNCHANGED playBounds /\ UNCHANGED playPast

\* decrementViewers.
\* Mutant of Fewer: the count goes below zero.
FewerBelow == viewers - 1
Fewer == IF viewers = 0 THEN 0 ELSE viewers - 1

OnStop(p) ==
  /\ player[p].at = "left"
  /\ player' = [player EXCEPT ![p] = NoPlayer] /\ viewers' = Fewer
  /\ short' = (short /\ On # {p})
  /\ UNCHANGED <<maxViewers, session, grab, ghosts>> /\ UNCHANGED playBounds

(***************************************************************************)
(* refreshOne: at most one for the camera; the system session has no check *)
(* of the limit; FFmpeg takes a frame or is killed after its timeout, and  *)
(* inFlight is cleared whatever happens.                                   *)
(***************************************************************************)
GrabSession ==
  /\ grab.at = "idle"
  /\ \E s \in Sessions :
       /\ session[s].at = "none"
       /\ session' = [session EXCEPT ![s] = [at |-> "row", by |-> "snapshot", max |-> maxViewers]]
       /\ grab' = [at |-> "sign", session |-> s]
  /\ UNCHANGED <<maxViewers, player, viewers>> /\ UNCHANGED playBounds /\ UNCHANGED playPast

GrabSpawn ==
  /\ grab.at = "sign" /\ Put(grab.session, "signed", session[grab.session].max)
  /\ \E p \in Players :
       /\ player[p].at = "idle"
       /\ player' = [player EXCEPT ![p] = [at |-> "verify", session |-> grab.session]]
  /\ grab' = [grab EXCEPT !.at = "ffmpeg"]
  /\ UNCHANGED <<maxViewers, viewers>> /\ UNCHANGED playBounds /\ UNCHANGED playPast

\* The frame is there and on its way to MinIO and the row, or an await failed.
GrabEnd ==
  /\ grab.at # "idle" /\ grab' = NoGrab
  /\ UNCHANGED <<maxViewers, session, player, viewers>> /\ UNCHANGED playBounds /\ UNCHANGED playPast

(***************************************************************************)
(* Deaths.  With the API goes the count, with SRS go the players and no    *)
(* on_stop is sent; an on_play that is being answered is counted and lost. *)
(***************************************************************************)
ApiRestart ==
  /\ restarts < MaxRestarts /\ restarts' = restarts + 1
  /\ viewers' = 0 /\ grab' = NoGrab
  /\ player' = [p \in Players |-> IF player[p].at = "plays" THEN player[p] ELSE NoPlayer]
  /\ session' = [s \in Sessions |-> IF session[s].at \in {"signed", "expired"} THEN session[s] ELSE NoSession]
  /\ short' = \E p \in Players : player[p].at = "plays"
  /\ ghosts' = FALSE
  /\ UNCHANGED <<maxViewers, changes>>

SrsRestart ==
  /\ restarts < MaxRestarts /\ restarts' = restarts + 1
  /\ player' = [p \in Players |->
       CASE player[p].at = "plays" -> NoPlayer
         [] player[p].at = "verify" -> [player[p] EXCEPT !.at = "lost"]
         [] OTHER -> player[p]]
  /\ ghosts' = (ghosts \/ \E p \in Players : player[p].at = "plays")
  /\ UNCHANGED <<maxViewers, session, viewers, grab, changes, short>>

PlaybackNext ==
  \/ \E s \in Sessions : CreateResolve(s) \/ CreateRow(s) \/ CreateSign(s) \/ TokenExpires(s)
  \/ \E p \in Players : OnPlay(p) \/ Admit(p) \/ Leave(p) \/ OnStop(p)
  \/ GrabSession \/ GrabSpawn \/ GrabEnd
  \/ PolicyChange \/ ApiRestart \/ SrsRestart

PlaybackSpec == PlaybackInit /\ [][PlaybackNext]_playbackVars

(***************************************************************************)
(* Properties.                                                             *)
(***************************************************************************)
PlaybackTypeOK ==
  /\ maxViewers \in Limits
  /\ session \in [Sessions -> [at : {"none", "resolved", "row", "signed", "expired"},
                               by : {"viewer", "snapshot"}, max : Limits \cup {0}]]
  /\ player \in [Players -> [at : {"idle", "verify", "lost", "plays", "left"}, session : Sessions \cup {None}]]
  /\ viewers \in Nat
  /\ grab \in [at : {"idle", "sign", "ffmpeg"}, session : Sessions \cup {None}]
  /\ changes \in 0..MaxChanges /\ restarts \in 0..MaxRestarts
  /\ short \in BOOLEAN /\ ghosts \in BOOLEAN

\* The count never says more than there are, unless SRS died under players, and
\* never less, unless the API did: on_stop of older players takes from the count
\* of newer ones then, until all have left.  (StatusService.viewerCounts,
\* srs-callback.controller.ts:304)
ViewersCounted ==
  /\ ~ghosts => viewers <= Cardinality(On)
  /\ ~short => viewers >= Cardinality(On)

\* Nobody is let in to a camera that has as many players as the session's limit,
\* however many sessions were created before, unless the API died under players.
\* (SrsCallbackController.onPlay, playback.service.ts:64)
AdmittedWithinLimit ==
  [][\A p \in Players : LET max == session[player[p].session].max IN
       player[p].at = "verify" /\ player'[p].at = "plays" =>
         max = 0 \/ Cardinality(On) < max \/ short]_playbackVars
=============================================================================
