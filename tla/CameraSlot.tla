------------------------------ MODULE CameraSlot ------------------------------
(***************************************************************************)
(* What the queue, the worker and FfmpegService together promise for a     *)
(* camera: one job slot, and a child that exists only inside it.           *)
(*                                                                         *)
(*   free      no job, or one that was given up                            *)
(*   waiting   a job BullMQ will run                                       *)
(*   held      a job that is active, and no child                          *)
(*   streaming a job that is active, and its child                         *)
(*                                                                         *)
(* A slot leaves "streaming" only by the end of the child, and then it is  *)
(* still held: nobody takes the job from under a running child.            *)
(***************************************************************************)
CONSTANT Cameras
VARIABLE slot

Slot == {"free", "waiting", "held", "streaming"}

Steps == {<<"free", "waiting">>, <<"waiting", "free">>, <<"waiting", "held">>,
          <<"held", "streaming">>, <<"streaming", "held">>,
          <<"held", "waiting">>, <<"held", "free">>}

\* The process starts with the queue it finds, and no child.
Init == slot \in [Cameras -> Slot \ {"streaming"}]

Move(c, s) ==
  /\ <<slot[c], s>> \in Steps
  /\ slot' = [slot EXCEPT ![c] = s]

\* The process ends: every child is gone from it, every job stays where it was.
DropChildren ==
  slot' = [c \in Cameras |-> IF slot[c] = "streaming" THEN "held" ELSE slot[c]]

Next == DropChildren \/ \E c \in Cameras, s \in Slot : Move(c, s)

Spec == Init /\ [][Next]_slot
=============================================================================
