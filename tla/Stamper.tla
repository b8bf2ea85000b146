------------------------------ MODULE Stamper ------------------------------
(***************************************************************************)
(* Timestamp assignment, crates/tributary/src/stamp.rs, together with the  *)
(* part of the checkpoint that resumes it.  The database's primary key is  *)
(* the tag set and the timestamp, so two lines of a stream with the same   *)
(* stamp are one row, and a replayed line must get the stamp it had.       *)
(* A source with nanosecond timestamps bypasses the stamper (stamp returns *)
(* them as they are), so a tick here is at least two of them.              *)
(*                                                                         *)
(* The source is a file of timestamps that only grows.  The stamper takes  *)
(* its lines in order; a restart resumes at the last checkpoint.           *)
(***************************************************************************)
EXTENDS Integers, Sequences, FiniteSets

CONSTANTS
  TickNs,      \* Resolution::tick_ns: nanoseconds per source tick
  Window,      \* WINDOW: how many ticks stay addressable
  Timestamps,  \* source timestamps, nanoseconds
  NLines,      \* lines the source ever holds (bound)
  MaxRestarts  \* bound

ASSUME StamperAssumption ==
  /\ TickNs \in Nat \ {0, 1} /\ Window \in Nat \ {0} /\ Timestamps \subseteq Int
  /\ NLines \in Nat /\ MaxRestarts \in Nat

VARIABLES
  src,          \* the file: the source timestamp of each line
  pos,          \* lines stamped so far by this process
  next,         \* Stamper.next: tick -> next free sequence within it
  order,        \* Stamper.order: the ticks of next, in insertion order
  outOfWindow,  \* Stamper.out_of_window
  ckpt,         \* the checkpoint file: position, and <<tick, next_seq>> or <<>>
  keys,         \* history: every [line, stamp] ever shipped
  restarts

vars == <<src, pos, next, order, outOfWindow, ckpt, keys, restarts>>

\* floor_to_tick, with rem_euclid.
Floor(ts) == ts - (ts % TickNs)

NoTicks == [t \in {} |-> 0]

Init ==
  /\ src = <<>> /\ pos = 0
  /\ next = NoTicks /\ order = <<>> /\ outOfWindow = 0
  /\ ckpt = [pos |-> 0, last |-> <<>>]
  /\ keys = {} /\ restarts = 0

\* The application appends a line.
Write ==
  /\ Len(src) < NLines
  /\ \E ts \in Timestamps : src' = Append(src, ts)
  /\ UNCHANGED <<pos, next, order, outOfWindow, ckpt, keys, restarts>>

Ship(stamp) == keys' = keys \cup {[line |-> pos + 1, stamp |-> stamp]}

\* Mutant: no check that the tick has a slot left.
StampKnownUnchecked ==
  /\ pos < Len(src)
  /\ LET tick == Floor(src[pos + 1]) IN
       /\ tick \in DOMAIN next
       /\ next' = [next EXCEPT ![tick] = @ + 1]
       /\ Ship(tick + next[tick])
  /\ pos' = pos + 1
  /\ UNCHANGED <<src, order, outOfWindow, ckpt, restarts>>

\* stamp() of a tick the window still holds.
StampKnown ==
  /\ pos < Len(src)
  /\ LET tick == Floor(src[pos + 1]) IN
       /\ tick \in DOMAIN next /\ next[tick] < TickNs
       /\ next' = [next EXCEPT ![tick] = @ + 1]
       /\ Ship(tick + next[tick])
  /\ pos' = pos + 1
  /\ UNCHANGED <<src, order, outOfWindow, ckpt, restarts>>

\* StampError::Exhausted: the tick has no slot left, the line is quarantined.
StampExhausted ==
  /\ pos < Len(src)
  /\ LET tick == Floor(src[pos + 1]) IN tick \in DOMAIN next /\ next[tick] >= TickNs
  /\ pos' = pos + 1
  /\ UNCHANGED <<src, next, order, outOfWindow, ckpt, keys, restarts>>

\* Drop the ticks pushed out of the window, oldest insertion first.
Evict(ticks) == IF Len(ticks) > Window THEN Tail(ticks) ELSE ticks

\* Mutant: the window is one tick short.
WithoutEarly(ticks) == IF Len(ticks) >= Window THEN {Head(ticks)} ELSE {}

Without(ticks) == IF Len(ticks) > Window THEN {Head(ticks)} ELSE {}

\* stamp() of a tick that is not in the window.
StampNew ==
  /\ pos < Len(src)
  /\ LET tick  == Floor(src[pos + 1])
         ticks == Append(order, tick)
     IN  /\ tick \notin DOMAIN next
         /\ outOfWindow' = IF order # <<>> /\ tick < Head(order)
                             THEN outOfWindow + 1 ELSE outOfWindow
         /\ order' = Evict(ticks)
         /\ next' = [t \in (DOMAIN next \cup {tick}) \ Without(ticks) |->
                       IF t = tick THEN 1 ELSE next[t]]
         /\ Ship(tick)
  /\ pos' = pos + 1
  /\ UNCHANGED <<src, ckpt, restarts>>

\* Mutant: the last sequence used is saved, not the next one.
ResumeLastUsed ==
  IF order = <<>> THEN <<>> ELSE <<order[Len(order)], next[order[Len(order)]] - 1>>

\* Stamper::checkpoint: the tick inserted last, and its next sequence.
Resume == IF order = <<>> THEN <<>> ELSE <<order[Len(order)], next[order[Len(order)]]>>

\* save_checkpoint.
Save ==
  /\ ckpt' = [pos |-> pos, last |-> Resume]
  /\ UNCHANGED <<src, pos, next, order, outOfWindow, keys, restarts>>

\* Mutant: the new stamper is not restored.
RestartFresh ==
  /\ restarts < MaxRestarts
  /\ restarts' = restarts + 1
  /\ pos' = ckpt.pos
  /\ outOfWindow' = 0 /\ next' = NoTicks /\ order' = <<>>
  /\ UNCHANGED <<src, ckpt, keys>>

\* The process dies; a new Stamper is restored from the checkpoint.
Restart ==
  /\ restarts < MaxRestarts
  /\ restarts' = restarts + 1
  /\ pos' = ckpt.pos
  /\ outOfWindow' = 0
  /\ IF ckpt.last = <<>>
       THEN next' = NoTicks /\ order' = <<>>
       ELSE next' = [t \in {ckpt.last[1]} |-> ckpt.last[2]] /\ order' = <<ckpt.last[1]>>
  /\ UNCHANGED <<src, ckpt, keys>>

Next == Write \/ StampKnown \/ StampExhausted \/ StampNew \/ Save \/ Restart

Spec == Init /\ [][Next]_vars
-----------------------------------------------------------------------------
(* Correctness *)

\* The index of a line among the earlier ones that share its source tick: the
\* sequence number DESIGN.md gives a line.
Index(l) == Cardinality({i \in 1..(l - 1) : Floor(src[i]) = Floor(src[l])})

\* The source writes its lines in tick order.
InTickOrder == \A i, j \in DOMAIN src : i <= j => Floor(src[i]) <= Floor(src[j])

\* Every stamp shipped is the line's tick plus its index within it.
Positioned ==
  \A k \in keys : /\ Index(k.line) < TickNs
                  /\ k.stamp = Floor(src[k.line]) + Index(k.line)

\* No two lines share a primary key.
Unique == \A a, b \in keys : a.stamp = b.stamp => a.line = b.line

\* Every variable has its type; a sequence number, in memory or saved, is one of
\* its tick's slots or the one past them.
TypeOK ==
  /\ src \in Seq(Timestamps) /\ pos \in 0..Len(src)
  /\ order \in Seq(Int) /\ DOMAIN next \subseteq Int
  /\ next \in [DOMAIN next -> 1..TickNs]
  /\ outOfWindow \in Nat /\ restarts \in 0..MaxRestarts
  /\ ckpt \in [pos : 0..Len(src), last : {<<>>} \cup (Int \X (1..TickNs))]
  /\ keys \subseteq [line : 1..Len(src), stamp : Int]

\* Of a source in tick order, every stamp ever shipped for a line, in any life of
\* the process, is its tick plus its index within it: stamp() and restore number
\* the lines of a tick as if the process had never died.
StampIsPosition == InTickOrder => Positioned

\* Of a source in tick order, no two lines ever share a primary key: stamp()
\* never gives out a nanosecond twice, before or after a restore.
KeysUnique == InTickOrder => Unique

\* Of a source in tick order, a line stamped again after a restart from the
\* checkpoint gets the key it had.
ReplayIdentical ==
  InTickOrder => \A a, b \in keys : a.line = b.line => a.stamp = b.stamp

\* order lists the ticks of next, each once, and never more than the window.
Listed ==
  /\ DOMAIN next = {order[i] : i \in DOMAIN order}
  /\ \A i, j \in DOMAIN order : order[i] = order[j] => i = j
  /\ Len(order) <= Window

\* What (tick, next_seq) must be once the first p lines are stamped.
AtTick(p, last) ==
  IF p = 0 THEN last = <<>>
  ELSE last = <<Floor(src[p]), IF Index(p) + 1 < TickNs THEN Index(p) + 1 ELSE TickNs>>

\* A source in tick order: the tick inserted last is the largest, and it, in
\* memory and in the checkpoint, is the tick of the last line stamped.
Resumable ==
  /\ InTickOrder
  /\ \A i \in DOMAIN order : order[i] <= order[Len(order)]
  /\ AtTick(pos, Resume) /\ AtTick(ckpt.pos, ckpt.last)

\* The inductive invariant behind StampIsPosition and ReplayIdentical.
IInv == TypeOK /\ Listed /\ (InTickOrder => Resumable /\ Positioned)

\* Out of order, but with no more ticks than the window holds and no restart:
\* the index is still the sequence number, and the keys are unique.
UniqueInWindow ==
  restarts = 0 /\ Cardinality({Floor(src[i]) : i \in DOMAIN src}) <= Window
    => Positioned /\ Unique
=============================================================================
