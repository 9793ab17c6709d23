---------------------------- MODULE BoundedQueue ----------------------------
(***************************************************************************)
(* What a clock crossing promises: a queue of bounded length, as seen by   *)
(* someone who watches both ends. A step may add an item, remove the       *)
(* oldest one, do both, or empty the queue.                                *)
(***************************************************************************)
EXTENDS Integers, Sequences

CONSTANTS Items, Bound

VARIABLE queue

QueueInit == queue = <<>>

Clear == queue' = <<>>

\* An item is added only if there is room before anything is removed: the
\* writer does not know yet.
Move(added, removed) ==
  /\ Len(queue) + Len(added) <= Bound
  /\ removed <= Len(queue)
  /\ queue' = SubSeq(queue, removed + 1, Len(queue)) \o added

QueueNext ==
  \/ Clear
  \/ \E added \in {<<>>} \cup {<<d>> : d \in Items}, removed \in {0, 1} : Move(added, removed)

QueueSpec == QueueInit /\ [][QueueNext]_queue
=============================================================================
