---------------------------- MODULE AtomicQueue ----------------------------
(***************************************************************************)
(* What the disk queue promises: each call takes effect at one point or    *)
(* not at all, a segment once queued stays until it is popped in its turn, *)
(* and the process may end between any two points.  Pipeline.tla relies on *)
(* these calls, DiskQueue.tla implements them.                             *)
(***************************************************************************)
EXTENDS QueueOps

CONSTANT Bodies   \* the batches the callers may spool

VARIABLE q        \* [segs, bytes, full], see QueueOps

Init == q = EmptyQueue

Push(body, space) == q' = Pushed(q, body, space)

PushForced(body, space) == q' = Forced(q, body, space)

Pop == q.segs # <<>> /\ q' = Popped(q)

Open == q' = Opened(q)

Next ==
  \/ \E body \in Bodies, space \in BOOLEAN : Push(body, space) \/ PushForced(body, space)
  \/ Pop \/ Open

Spec == Init /\ [][Next]_q
=============================================================================
