--------------------------- MODULE MCStreamLifecycle ---------------------------
(***************************************************************************)
(* StreamLifecycle on small sets, for TLC.  Two sub-systems are checked    *)
(* beside the whole: requests against workers without the tick, which      *)
(* leaves room for two requests, and the whole with restarts.              *)
(***************************************************************************)
EXTENDS StreamLifecycle, TLC

Symmetry == Permutations(Requests) \cup Permutations(Profiles)

RequestsNext == WorkerNext \/ ChildNext \/ RequestNext \/ ApiNext
RequestsSpec == Init /\ [][RequestsNext]_vars

\* Profile edits against the worker and the tick: no other request, SRS stays up.
SteadyChild(c) == Publish(c) \/ Crash(c) \/ Stopped(c) \/ OnPublish(c)
Edits(r) == RequestStep(r) \/ \E c \in Cameras, p \in Profiles : EditProfile(r, c, p)
SteadyNext ==
  \/ WorkerNext \/ TickNext \/ ApiNext
  \/ \E c \in Cameras : SteadyChild(c)
  \/ \E r \in Requests : Edits(r)
SteadySpec == Init /\ [][SteadyNext]_vars
SteadyFairSpec == SteadySpec /\ Fairness
=============================================================================
