------------------------------ MODULE MCWorkers ------------------------------
(***************************************************************************)
(* The workers whose jobs must come to an end, for TLC: the announcements  *)
(* of status changes, and the health checks of the cluster.  They share no *)
(* state; a behaviour is one of the one or one of the other, and the       *)
(* fairness is that of the one it is of.                                   *)
(***************************************************************************)
EXTENDS Announcements, ClusterNodes

VARIABLE part  \* whose behaviour this is

vars == <<part, announceVars, clusterVars>>

Announcing(A) == part = "announce" /\ A /\ UNCHANGED <<part, clusterVars>>
Checking(A) == part = "cluster" /\ A /\ UNCHANGED <<part, announceVars>>

Init ==
  /\ part \in {"announce", "cluster"}
  /\ part = "announce" => up = {}
  /\ part = "cluster" => sub = [s \in Subs |-> "deleted"] /\ status = "offline"
  /\ AnnounceInit /\ ClusterInit

Next == Announcing(AnnounceNext) \/ Checking(ClusterNext)

\* AnnounceFairness and ClusterFairness.  A behaviour is of one part, so one
\* condition serves an action of each.
Fairness ==
  /\ WF_vars(Announcing(EmitStep /\ UNCHANGED notifyVars) \/ Checking(RegisterFind \/ RegisterCreate))
  /\ WF_vars(Announcing(PosterStep /\ UNCHANGED notifyVars) \/ Checking(StartFind \/ StartAdd))
  /\ WF_vars(Checking(CheckStep))
  /\ \A n \in Nodes : SF_vars(Checking(CheckRead(n)))

Spec == Init /\ [][Next]_vars /\ Fairness

\* Types of the three modules; with them the bounds: a delivery is posted at
\* most once per attempt, and once more for a stall.
TypeOK == NotifyTypeOK /\ DeliveryTypeOK /\ ClusterTypeOK
=============================================================================
