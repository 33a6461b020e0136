------------------------------ MODULE ClusterNodes ------------------------------
(***************************************************************************)
(* SRS and edge nodes: their rows (ClusterService), the repeatable health  *)
(* checks in the queue, and the processor that checks one node at a time   *)
(* (ClusterHealthService).  Playback goes to the ONLINE edge with the      *)
(* fewest viewers.  At boot the two services' onModuleInit run at the same *)
(* time.                                                                   *)
(***************************************************************************)
EXTENDS Naturals, Optional

CONSTANTS
  Origin,     \* the node that ClusterService registers itself
  Edges,      \* nodes an administrator adds
  MaxEvents   \* bound: nodes added or removed, nodes going up or down, boots

ASSUME ClusterAssumption == Origin \notin Edges /\ None \notin Edges \cup {Origin} /\ MaxEvents \in Nat

OFFLINE_THRESHOLD == 3
Nodes == Edges \cup {Origin}

VARIABLES
  node,       \* SrsNode rows: status (none: no row yet, gone: removed), missedChecks up to
              \* the threshold
  up,         \* nodes that answer
  repeat,     \* nodes with a repeatable job; it outlives process and row
  check,      \* checkNode: place, node, row as read, whether it answered
  register,   \* ClusterService.onModuleInit: place
  start,      \* ClusterHealthService.onModuleInit: place, nodes found
  events

clusterVars == <<node, up, repeat, check, register, start, events>>

NoNode == [status |-> "none", missed |-> 0]
NoCheck == [at |-> "idle", n |-> None, row |-> NoNode, ok |-> FALSE]
Registered(n) == node[n].status \notin {"none", "gone"}
Event == events < MaxEvents /\ events' = events + 1

ClusterInit ==
  /\ node = [n \in Nodes |-> NoNode] /\ up \in SUBSET Nodes
  /\ repeat = {} /\ check = NoCheck
  /\ register = "find" /\ start = [at |-> "find", left |-> {}]
  /\ events = 0

(***************************************************************************)
(* Boot.                                                                   *)
(***************************************************************************)
RegisterFind ==
  /\ register = "find" /\ register' = IF Registered(Origin) THEN "done" ELSE "create"
  /\ UNCHANGED <<node, up, repeat, check, start, events>>

RegisterCreate ==
  /\ register = "create" /\ register' = "done"
  /\ node' = [node EXCEPT ![Origin] = [status |-> "ONLINE", missed |-> 0]]
  /\ UNCHANGED <<up, repeat, check, start, events>>

StartFind ==
  /\ start.at = "find"
  /\ start' = [at |-> "add", left |-> {n \in Nodes : Registered(n)}]
  /\ UNCHANGED <<node, up, repeat, check, register, events>>

\* addHealthCheck; one that is there is not added twice.
StartAdd ==
  /\ start.at = "add" /\ start.left # {}
  /\ \E n \in start.left : repeat' = repeat \cup {n} /\ start' = [start EXCEPT !.left = @ \ {n}]
  /\ UNCHANGED <<node, up, check, register, events>>

Booted == register = "done" /\ start = [at |-> "add", left |-> {}]

\* The process dies and comes back; the job in hand is given out again later.
Reboot ==
  /\ Event /\ check' = NoCheck
  /\ register' = "find" /\ start' = [at |-> "find", left |-> {}]
  /\ UNCHANGED <<node, up, repeat>>

(***************************************************************************)
(* The administrator.  Neither create nor remove touches the health checks *)
(* (addHealthCheck and removeHealthCheck have no caller there).            *)
(***************************************************************************)
CreateNode(n) ==
  /\ Booted /\ node[n].status = "none" /\ Event
  /\ node' = [node EXCEPT ![n] = [status |-> IF n \in up THEN "CONNECTING" ELSE "OFFLINE", missed |-> 0]]
  /\ UNCHANGED <<up, repeat, check, register, start>>

RemoveNode(n) ==
  /\ Booted /\ Registered(n) /\ Event
  /\ node' = [node EXCEPT ![n].status = "gone"]
  /\ UNCHANGED <<up, repeat, check, register, start>>

\* A node fails or comes back, or an edit of its URLs makes it answer or not.
Flip(n) ==
  /\ Event
  /\ up' = IF n \in up THEN up \ {n} ELSE up \cup {n}
  /\ UNCHANGED <<node, repeat, check, register, start>>

(***************************************************************************)
(* checkNode: the row is read, the node is asked, the row is written.      *)
(***************************************************************************)
CheckRead(n) ==
  /\ check.at = "idle" /\ n \in repeat
  /\ check' = IF Registered(n) THEN [at |-> "ask", n |-> n, row |-> node[n], ok |-> FALSE] ELSE NoCheck
  /\ UNCHANGED <<node, up, repeat, register, start, events>>

CheckAsk ==
  /\ check.at = "ask" /\ check' = [check EXCEPT !.at = "write", !.ok = check.n \in up]
  /\ UNCHANGED <<node, up, repeat, register, start, events>>

\* Mutant of Healthy: a node that was OFFLINE stays so.
HealthyStill(row) == [status |-> IF row.status = "OFFLINE" THEN "OFFLINE" ELSE "ONLINE", missed |-> 0]
Healthy(row) == [status |-> "ONLINE", missed |-> 0]

Missed(row) ==
  LET missed == IF row.missed < OFFLINE_THRESHOLD THEN row.missed + 1 ELSE row.missed IN
  [status |-> IF missed >= OFFLINE_THRESHOLD THEN "OFFLINE" ELSE "DEGRADED", missed |-> missed]

\* The update of a row that is gone throws, and the job fails.
CheckWrite ==
  /\ check.at = "write" /\ check' = NoCheck
  /\ node' = IF ~Registered(check.n) THEN node
             ELSE [node EXCEPT ![check.n] = IF check.ok THEN Healthy(check.row) ELSE Missed(check.row)]
  /\ UNCHANGED <<up, repeat, register, start, events>>

CheckStep == CheckAsk \/ CheckWrite

ClusterNext ==
  \/ RegisterFind \/ RegisterCreate \/ StartFind \/ StartAdd \/ Reboot
  \/ \E n \in Edges : CreateNode(n) \/ RemoveNode(n)
  \/ \E n \in Nodes : Flip(n) \/ CheckRead(n)
  \/ CheckStep

\* Boot goes on; requests to nodes end (timeouts); every repeatable job has its
\* turn, for the queue is first in, first out and one node is checked at a time.
ClusterFairness ==
  /\ WF_clusterVars(RegisterFind \/ RegisterCreate) /\ WF_clusterVars(StartFind \/ StartAdd)
  /\ WF_clusterVars(CheckStep) /\ \A n \in Nodes : SF_clusterVars(CheckRead(n))

ClusterSpec == ClusterInit /\ [][ClusterNext]_clusterVars /\ ClusterFairness

(***************************************************************************)
(* Properties.                                                             *)
(***************************************************************************)
NodeStatuses == {"none", "gone", "CONNECTING", "ONLINE", "DEGRADED", "OFFLINE"}
ClusterTypeOK ==
  /\ node \in [Nodes -> [status : NodeStatuses, missed : 0..OFFLINE_THRESHOLD]]
  /\ up \subseteq Nodes /\ repeat \subseteq Nodes
  /\ check \in [at : {"idle", "ask", "write"}, n : Nodes \cup {None},
                row : [status : NodeStatuses, missed : 0..OFFLINE_THRESHOLD], ok : BOOLEAN]
  /\ register \in {"find", "create", "done"}
  /\ start \in [at : {"find", "add"}, left : SUBSET Nodes]
  /\ events \in 0..MaxEvents

Serves(n) == node[n].status = "ONLINE"

\* Where the health checks reach, the rows follow the nodes: one that answers
\* comes to be served from, one that does not comes to be OFFLINE, whatever was
\* added, removed, edited or booted in between.  (ClusterHealthService.checkNode,
\* cluster-health.service.ts:133)
CheckedNodesFollow ==
  \A n \in Nodes :
    /\ (n \in repeat /\ n \in up) ~> (Serves(n) \/ ~Registered(n) \/ n \notin up)
    /\ (n \in repeat /\ n \notin up) ~> (node[n].status = "OFFLINE" \/ ~Registered(n) \/ n \in up)
=============================================================================
