------------------------------ MODULE QueueOps ------------------------------
(***************************************************************************)
(* The disk queue of crates/tributary/src/queue.rs as its callers see it:  *)
(* every call is one atomic step on a record                               *)
(*    [segs |-> the queued bodies, oldest first, bytes |-> Queue::bytes,   *)
(*     full |-> Queue::full].                                              *)
(* DiskQueue.tla opens the calls up into their file-system steps.          *)
(*                                                                         *)
(* A body is the set of encoded records it concatenates; every record      *)
(* encodes to one unit of length.  segs survives a crash: it is the        *)
(* directory of .lp files.  The state disk's answer is the argument space. *)
(***************************************************************************)
EXTENDS Naturals, Sequences, FiniteSets

CONSTANT MaxBytes    \* queue_max_bytes, the soft cap

ASSUME MaxBytesAssumption == MaxBytes \in Nat

\* Queue::open on an empty directory.
EmptyQueue == [segs |-> <<>>, bytes |-> 0, full |-> FALSE]

\* q with reading paused or not.
Paused(q, full) == [segs |-> q.segs, bytes |-> q.bytes, full |-> full]

\* Mutant: open starts empty instead of adopting what is there.
OpenedEmpty(q) == EmptyQueue

\* Queue::open on whatever a previous run left: the segments are adopted in
\* name order and their lengths summed again (the sum a crash leaves behind is
\* the sum the scan finds, see ImplementsAtomicQueue in DiskQueue); the pause is forgotten.
Opened(q) == Paused(q, FALSE)

\* spool's bookkeeping once the segment is renamed into place.
Spooled(q, body) ==
  [segs |-> Append(q.segs, body), bytes |-> q.bytes + Cardinality(body), full |-> q.full]

\* Does push accept the body: below the cap, and the disk takes it?
Accepts(q, body, space) == q.bytes + Cardinality(body) <= MaxBytes /\ space

\* push.  A refusal, by the cap or by the disk, pauses reading.
Pushed(q, body, space) ==
  IF Accepts(q, body, space) THEN Spooled(q, body) ELSE Paused(q, TRUE)

\* Mutant: full is recomputed from the size, and not set.
ForcedBySize(q, body, space) ==
  LET after == IF space THEN Spooled(q, body) ELSE q IN Paused(after, after.bytes > MaxBytes)

\* push_forced.  It ignores the cap, and pauses reading whatever the outcome.
Forced(q, body, space) == Paused(IF space THEN Spooled(q, body) ELSE q, TRUE)

\* Mutant: a pause once begun never ends.
PoppedPaused(q) ==
  [segs |-> Tail(q.segs), bytes |-> q.bytes - Cardinality(Head(q.segs)), full |-> q.full]

\* pop of the front segment, with the hysteresis: reading resumes at half the
\* cap.  bytes is saturating_sub.
Popped(q) ==
  LET len  == Cardinality(Head(q.segs))
      left == IF len <= q.bytes THEN q.bytes - len ELSE 0
  IN  [segs |-> Tail(q.segs), bytes |-> left, full |-> q.full /\ left * 2 > MaxBytes]
=============================================================================
