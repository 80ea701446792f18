-------------------------------- MODULE Topic --------------------------------
(***************************************************************************)
(* A ROS 2 topic as its reader sees it: a FIFO of undelivered samples with *)
(* the KEEP_LAST history the code asks for (create_publisher(..., 10)): a  *)
(* sample that finds the queue full displaces the oldest one.              *)
(***************************************************************************)
EXTENDS Sequences, Naturals

CONSTANT Depth          \* history depth

ASSUME DepthAssumption == Depth \in Nat \ {0}

Publish(queue, sample) ==
  Append(IF Len(queue) < Depth THEN queue ELSE Tail(queue), sample)

Newest(queue) == queue[Len(queue)]
=============================================================================
