------------------------------- MODULE SrsLogTail -------------------------------
(***************************************************************************)
(* SrsLogGateway: one child follows the log of SRS while super admins      *)
(* watch.  A socket is counted when its session has been looked up, and    *)
(* counted out whenever it goes, whether it was counted or not.  The child *)
(* is forgotten at a stop and whenever any child closes.                   *)
(***************************************************************************)
EXTENDS Naturals, FiniteSets, Optional

CONSTANTS
  Watchers,  \* browsers: one socket each at a time
  Tails,     \* children
  MaxDials   \* bound: sockets opened

ASSUME TailAssumption == None \notin Tails /\ MaxDials \in Nat /\ IsFiniteSet(Watchers)

VARIABLES
  visit,             \* of a browser: "checking" while its session is looked up, "left"
                     \*   if it went meanwhile, "watching" when it is in the room
  connectedClients,
  tailProcess,       \* the child the gateway knows of
  tail,              \* children: "running", or "ending" with their close event to come
  dials,
  miscounted         \* history: count or child may be wrong, until both are right again

tailVars == <<visit, connectedClients, tailProcess, tail, dials, miscounted>>

TailInit ==
  /\ visit = [w \in Watchers |-> "away"] /\ connectedClients = 0
  /\ tailProcess = None /\ tail = [t \in Tails |-> "none"] /\ dials = 0 /\ miscounted = FALSE

Watching == {w \in Watchers : visit[w] = "watching"}
RunningTails == {t \in Tails : tail[t] = "running"}

TailSettled ==
  /\ \A w \in Watchers : visit[w] \in {"away", "watching"}
  /\ \A t \in Tails : tail[t] # "ending"

\* The count is that of the sockets in the room; one child, which the gateway knows
\* of, runs if there are any, and none if not.
TailServes ==
  /\ connectedClients = Cardinality(Watching)
  /\ RunningTails = IF Watching = {} THEN {} ELSE {tailProcess}

Miscount(harm) == miscounted' = ((miscounted \/ harm) /\ ~(TailSettled /\ TailServes)')

(***************************************************************************)
(* The gateway.                                                            *)
(***************************************************************************)
StartTailing ==
  \E t \in Tails :
    /\ tail[t] = "none" /\ tail' = [tail EXCEPT ![t] = "running"] /\ tailProcess' = t

\* Mutant of StopTailing: the child is forgotten and not killed.
StopForgets == tailProcess' = None /\ UNCHANGED tail

StopTailing ==
  /\ tailProcess' = None
  /\ tail' = [t \in Tails |-> IF t = tailProcess /\ tail[t] = "running" THEN "ending" ELSE tail[t]]

\* handleDisconnect
CountOut ==
  /\ connectedClients' = IF connectedClients = 0 THEN 0 ELSE connectedClients - 1
  /\ IF connectedClients' = 0 THEN StopTailing ELSE UNCHANGED <<tailProcess, tail>>

HandleConnection(w) ==
  /\ visit[w] = "away" /\ dials < MaxDials /\ dials' = dials + 1
  /\ visit' = [visit EXCEPT ![w] = "checking"]
  /\ UNCHANGED <<connectedClients, tailProcess, tail, miscounted>>

\* Its session is a super admin's.  A socket that has gone is counted, too.
JoinLogs(w) ==
  /\ visit[w] \in {"checking", "left"}
  /\ visit' = [visit EXCEPT ![w] = IF @ = "left" THEN "away" ELSE "watching"]
  /\ connectedClients' = connectedClients + 1
  /\ IF connectedClients' = 1 THEN StartTailing ELSE UNCHANGED <<tailProcess, tail>>
  /\ UNCHANGED dials
  /\ Miscount(visit[w] = "left" \/ (connectedClients' = 1 /\ \E t \in Tails : tail[t] = "ending"))

\* Its session is not, or cannot be had: it is disconnected and so counted out.
Refuse(w) ==
  /\ visit[w] \in {"checking", "left"} /\ visit' = [visit EXCEPT ![w] = "away"]
  /\ IF visit[w] = "checking" THEN CountOut ELSE UNCHANGED <<connectedClients, tailProcess, tail>>
  /\ UNCHANGED dials
  /\ Miscount(visit[w] = "checking" /\ connectedClients > 0)

HandleDisconnect(w) ==
  /\ visit[w] \in {"checking", "watching"}
  /\ visit' = [visit EXCEPT ![w] = IF @ = "checking" THEN "left" ELSE "away"]
  /\ CountOut
  /\ UNCHANGED dials
  /\ Miscount(visit[w] = "checking" /\ connectedClients > 0)

(***************************************************************************)
(* The children.                                                           *)
(***************************************************************************)
\* SRS's container restarts, or the child cannot be started.
TailDies(t) ==
  /\ tail[t] = "running" /\ tail' = [tail EXCEPT ![t] = "ending"]
  /\ UNCHANGED <<visit, connectedClients, tailProcess, dials>>
  /\ Miscount(TRUE)

TailCloses(t) ==
  /\ tail[t] = "ending" /\ tail' = [tail EXCEPT ![t] = "none"] /\ tailProcess' = None
  /\ UNCHANGED <<visit, connectedClients, dials>>
  /\ Miscount(FALSE)

TailNext ==
  \/ \E w \in Watchers : HandleConnection(w) \/ JoinLogs(w) \/ Refuse(w) \/ HandleDisconnect(w)
  \/ \E t \in Tails : TailDies(t) \/ TailCloses(t)

TailSpec == TailInit /\ [][TailNext]_tailVars

(***************************************************************************)
(* Properties.                                                             *)
(***************************************************************************)
TailTypeOK ==
  /\ visit \in [Watchers -> {"away", "checking", "left", "watching"}]
  /\ connectedClients \in 0..MaxDials /\ tailProcess \in Tails \cup {None}
  /\ tail \in [Tails -> {"none", "running", "ending"}]
  /\ dials \in 0..MaxDials /\ miscounted \in BOOLEAN

\* When no session is being looked up and no child is about to close, one child runs
\* exactly while somebody watches, and the gateway knows it and them; unless a socket
\* was refused or left before it was counted, or was counted after it had left, a child
\* died, or one was started before the last had closed; until it is right again.
\* (SrsLogGateway.handleDisconnect, srs-log.gateway.ts:65)
LogTailServes == TailSettled /\ ~miscounted => TailServes
=============================================================================
