------------------------------ MODULE Pipeline ------------------------------
(***************************************************************************)
(* One file source of the agent: run_file_source and the helpers of        *)
(* crates/tributary/src/main.rs that move a line from the tailed file to   *)
(* the database, the disk queue or the dead-letter file, and the           *)
(* checkpoint that says how far the file has been read.                    *)
(*                                                                         *)
(* Abstractions.  A line is its position in the source, a record the set   *)
(* of lines the framer joined, a batch (or queue segment) the set of its   *)
(* records, the tailer an offset `pos' in lines (tail.rs has its own life).*)
(* The framer releases any part of what it holds, which covers the         *)
(* multiline joiner and the docker and CRI reassemblers.  What build()     *)
(* makes of a record, and whether the server would answer 400 to it, are   *)
(* fixed per line by CONSTANTS, so a replay decides again the same way.    *)
(* send_lines is one step that ends Ok when the database is up and Err,    *)
(* with any part of the records stored, when it is not.                    *)
(* A crash ends the process between any two steps; files survive it.       *)
(***************************************************************************)
EXTENDS Naturals, Sequences, FiniteSets, QueueOps

CONSTANTS
  NLines,       \* lines the source ever holds (bound)
  BatchLines,   \* output.batch_lines
  MaxInflight,  \* output.max_inflight
  MaxPending,   \* lines the framer may hold back; 0 when joining is disabled
  MaxRestarts,  \* how many times the process may be restarted (bound)
  DiskFaults,   \* may the state disk fill up?
  Malformed,    \* lines the framer refuses
  Unmappable,   \* lines that make build() or encode() fail
  Dropped,      \* lines a filter or a sample drops, and blank lines
  Poison        \* lines the server answers 400 to

Lines == 1..NLines

ASSUME PipelineAssumption ==
  /\ NLines \in Nat /\ BatchLines \in Nat \ {0} /\ MaxInflight \in Nat \ {0}
  /\ MaxPending \in Nat /\ MaxRestarts \in Nat /\ DiskFaults \in BOOLEAN
  /\ Malformed \subseteq Lines /\ Unmappable \subseteq Lines
  /\ Dropped \subseteq Lines /\ Poison \subseteq Lines

VARIABLES
  pc,        \* where the source's task is
  back,      \* where flush returns to
  idle,      \* run_file_source's `idle': nothing was read in this pass
  drained,   \* drain_queue's `drained'
  stopping,  \* past the main loop, on the way out
  pos,       \* lines the tailer has handed out
  pending,   \* lines held by the framer
  batch,     \* records not yet flushed
  inflight,  \* Pipeline.inflight: the spawned ship tasks
  held,      \* Pipeline.held: batches that neither disk nor database took
  queue,     \* Pipeline.queue; queue.segs is on disk
  ckpt,      \* on disk: the offset of the checkpoint file
  dead,      \* on disk: lines in the dead-letter file
  stored,    \* lines durable in the database
  db,        \* "up" or "down"
  disk,      \* "ok" or "full"
  restarts,
  gone,      \* history: lines dropped by decision (filter, sample, blank)
  swallowed, \* history: lines of records the shutdown path discards
  passed     \* history: lines drain_queue's checkpoint went past in memory

control == <<pc, back, idle, drained, stopping>>
memory  == <<pos, pending, batch, inflight, held>>
files   == <<queue, ckpt, dead>>
world   == <<stored, db, disk, restarts>>
history == <<gone, swallowed, passed>>
vars    == <<control, memory, files, world, history>>

Halted == {"down", "stopped", "exited"}
-----------------------------------------------------------------------------
(* Lines, records, batches *)

LinesOf(body) == UNION body
Rejected(body) == {r \in body : r \cap Poison # {}}
LinesIn(bodies) == UNION {LinesOf(bodies[i]) : i \in DOMAIN bodies}
InflightLines == UNION {LinesOf(t.recs) : t \in inflight}

\* Where a line survives a crash, and where it does not.
Durable == stored \cup dead \cup gone \cup LinesIn(queue.segs)
Volatile == pending \cup LinesOf(batch) \cup InflightLines \cup LinesIn(held)

Space == disk = "ok"
-----------------------------------------------------------------------------
Init ==
  /\ pc = "drain" /\ back = "read" /\ idle = TRUE /\ drained = FALSE
  /\ stopping = FALSE
  /\ pos = 0 /\ pending = {} /\ batch = {} /\ inflight = {} /\ held = <<>>
  /\ queue = EmptyQueue /\ ckpt = 0 /\ dead = {}
  /\ stored = {} /\ db = "up" /\ disk = "ok" /\ restarts = 0
  /\ gone = {} /\ swallowed = {} /\ passed = {}
-----------------------------------------------------------------------------
\* Mutant: the offset recorded is that of the line about to be read.
SaveCheckpointAhead == ckpt' = pos + 1

\* Mutant: held batches do not pin the checkpoint.
SaveCheckpointAnyway == ckpt' = pos

(* save_checkpoint: nothing is recorded while batches are held in memory,  *)
(* and a full disk may refuse the write, which is outlived.                *)

SaveCheckpoint ==
  \/ held # <<>> /\ UNCHANGED ckpt
  \/ held = <<>> /\ ckpt' = pos
  \/ held = <<>> /\ disk = "full" /\ UNCHANGED ckpt
-----------------------------------------------------------------------------
(* drain_queue: the held batches, then the queue, oldest first.            *)

DrainReturn == pc' = IF stopping THEN "stopped" ELSE "read"

\* Space came back: a held batch moves to the disk.
DrainHeldToDisk ==
  /\ pc = "drain" /\ held # <<>> /\ Space
  /\ queue' = Forced(queue, Head(held), TRUE)
  /\ held' = Tail(held)
  /\ UNCHANGED <<control, pos, pending, batch, inflight, ckpt, dead, world, history>>

\* The disk still refuses it; it goes straight from memory to the database.
DrainHeldSend ==
  /\ pc = "drain" /\ held # <<>> /\ ~Space
  /\ queue' = Forced(queue, Head(held), FALSE)
  /\ \/ /\ db = "up"
        /\ stored' = stored \cup LinesOf(Head(held) \ Rejected(Head(held)))
        /\ pc' = "heldAck"
     \/ /\ db = "down"
        /\ \E some \in SUBSET (Head(held) \ Rejected(Head(held))) :
              stored' = stored \cup LinesOf(some)
        /\ DrainReturn
  /\ UNCHANGED <<back, idle, drained, stopping, memory, ckpt, dead, db, disk,
                 restarts, history>>

DrainHeldAck ==
  /\ pc = "heldAck"
  /\ dead' = dead \cup LinesOf(Rejected(Head(held)))
  /\ held' = Tail(held)
  /\ drained' = TRUE
  /\ pc' = "drain"
  /\ UNCHANGED <<back, idle, stopping, pos, pending, batch, inflight, queue, ckpt,
                 world, history>>

DrainSend ==
  /\ pc = "drain" /\ held = <<>> /\ queue.segs # <<>>
  /\ LET body == Head(queue.segs) IN
     \/ /\ db = "up"
        /\ stored' = stored \cup LinesOf(body \ Rejected(body))
        /\ pc' = "segAck"
     \/ /\ db = "down"
        /\ \E some \in SUBSET (body \ Rejected(body)) :
              stored' = stored \cup LinesOf(some)
        /\ DrainReturn
  /\ UNCHANGED <<back, idle, drained, stopping, memory, files, db, disk, restarts,
                 history>>

DrainPop ==
  /\ pc = "segAck"
  /\ dead' = dead \cup LinesOf(Rejected(Head(queue.segs)))
  /\ queue' = Popped(queue)
  /\ drained' = TRUE
  /\ pc' = "drain"
  /\ UNCHANGED <<back, idle, stopping, memory, ckpt, world, history>>

\* Everything shipped.  If anything was drained the checkpoint is saved, at
\* the tailer's position, whatever the batch and the ship tasks still hold.
DrainDone ==
  /\ pc = "drain" /\ held = <<>> /\ queue.segs = <<>>
  /\ \/ ~drained /\ UNCHANGED <<ckpt, passed>>
     \/ /\ drained
        /\ SaveCheckpoint
        /\ passed' = IF ckpt' = pos THEN passed \cup (Volatile \ Durable) ELSE passed
  /\ DrainReturn
  /\ UNCHANGED <<back, idle, drained, stopping, memory, queue, dead, world, gone,
                 swallowed>>
-----------------------------------------------------------------------------
(* The read loop *)

\* What Framer::push may release when it is offered line l: nothing, or a
\* record made of lines it holds, keeping at most MaxPending.
Framed(l) ==
  {r \in SUBSET (pending \cup {l}) : Cardinality((pending \cup {l}) \ r) <= MaxPending}

\* build(), encode() and dead_letter for a released record ({} is none).
Admit(r) ==
  CASE r = {} -> UNCHANGED <<batch, dead, gone>>
    [] r # {} /\ r \cap Unmappable # {} ->
         dead' = dead \cup r /\ UNCHANGED <<batch, gone>>
    [] r # {} /\ r \cap Unmappable = {} /\ r \cap Dropped # {} ->
         gone' = gone \cup r /\ UNCHANGED <<batch, dead>>
    [] OTHER -> batch' = batch \cup {r} /\ UNCHANGED <<dead, gone>>

CanRead == pc = "read" /\ ~queue.full /\ pos < NLines

ReadLine ==
  /\ CanRead /\ pos + 1 \notin Malformed
  /\ \E r \in Framed(pos + 1) :
       /\ pos' = pos + 1
       /\ pending' = (pending \cup {pos + 1}) \ r
       /\ Admit(r)
       /\ IF r # {} /\ Cardinality(batch') >= BatchLines /\ pending' = {}
            THEN pc' = "flush" /\ back' = "read"
            ELSE UNCHANGED <<pc, back>>
  /\ idle' = FALSE
  /\ UNCHANGED <<drained, stopping, inflight, held, queue, ckpt, world, swallowed,
                 passed>>

ReadMalformed ==
  /\ CanRead /\ pos + 1 \in Malformed
  /\ pos' = pos + 1
  /\ dead' = dead \cup {pos + 1}
  /\ idle' = FALSE
  /\ UNCHANGED <<pc, back, drained, stopping, pending, batch, inflight, held, queue,
                 ckpt, world, history>>

\* The queue is full, or next_line has no complete line (the writer has not
\* written it yet).
ReadDone ==
  /\ pc = "read"
  /\ pc' = "expire"
  /\ UNCHANGED <<back, idle, drained, stopping, memory, files, world, history>>

\* framer.expire(): a timed-out record, or none.
Expire ==
  /\ pc = "expire"
  /\ \E r \in SUBSET pending : pending' = pending \ r /\ Admit(r)
  /\ pc' = "timer"
  /\ UNCHANGED <<back, idle, drained, stopping, pos, inflight, held, queue, ckpt,
                 world, swallowed, passed>>

\* flush_every elapsed with no half-assembled record: flush, then checkpoint_now.
TimerFires ==
  /\ pc = "timer" /\ pending = {}
  /\ pc' = IF batch # {} THEN "flush" ELSE "ckpt"
  /\ back' = "ckpt"
  /\ UNCHANGED <<idle, drained, stopping, memory, files, world, history>>

TimerSkips ==
  /\ pc = "timer"
  /\ pc' = "idle"
  /\ UNCHANGED <<back, idle, drained, stopping, memory, files, world, history>>
-----------------------------------------------------------------------------
(* flush, reap_one, checkpoint_now and the ship tasks *)

\* Mutant: a batch the queue refuses is dropped.
ReapDrops(t) ==
  /\ t.res # "running"
  /\ inflight' = inflight \ {t}
  /\ \/ /\ t.res = "ok"
        /\ dead' = dead \cup LinesOf(Rejected(t.recs))
        /\ UNCHANGED <<queue, held>>
     \/ t.res = "err" /\ queue' = Pushed(queue, t.recs, Space) /\ UNCHANGED <<dead, held>>

\* reap_one on the finished task t.
Reap(t) ==
  /\ t.res # "running"
  /\ inflight' = inflight \ {t}
  /\ \/ /\ t.res = "ok"
        /\ dead' = dead \cup LinesOf(Rejected(t.recs))
        /\ UNCHANGED <<queue, held>>
     \/ /\ t.res = "err"
        /\ IF Accepts(queue, t.recs, Space)
             THEN queue' = Pushed(queue, t.recs, Space) /\ UNCHANGED held
             ELSE /\ queue' = Forced(Pushed(queue, t.recs, Space), t.recs, Space)
                  /\ held' = IF Space THEN held ELSE Append(held, t.recs)
        /\ UNCHANGED dead

FlushReap ==
  /\ pc = "flush" /\ batch # {} /\ Cardinality(inflight) >= MaxInflight
  /\ \E t \in inflight : Reap(t)
  /\ UNCHANGED <<control, pos, pending, batch, ckpt, world, history>>

FlushSpawn ==
  /\ pc = "flush" /\ batch # {} /\ Cardinality(inflight) < MaxInflight
  /\ inflight' = inflight \cup {[recs |-> batch, res |-> "running"]}
  /\ batch' = {}
  /\ pc' = back
  /\ UNCHANGED <<back, idle, drained, stopping, pos, pending, held, files, world,
                 history>>

\* flush of an empty batch, on the way out, does nothing.
FlushEmpty ==
  /\ pc = "flush" /\ batch = {}
  /\ pc' = back
  /\ UNCHANGED <<back, idle, drained, stopping, memory, files, world, history>>

\* A spawned send_lines ends.  On an error the server may have stored any of
\* the records it does not reject.
ShipDone ==
  \E t \in inflight :
    /\ t.res = "running"
    /\ \/ /\ db = "up"
          /\ inflight' = (inflight \ {t}) \cup {[t EXCEPT !.res = "ok"]}
          /\ stored' = stored \cup LinesOf(t.recs \ Rejected(t.recs))
       \/ /\ db = "down"
          /\ inflight' = (inflight \ {t}) \cup {[t EXCEPT !.res = "err"]}
          /\ \E some \in SUBSET (t.recs \ Rejected(t.recs)) :
                stored' = stored \cup LinesOf(some)
    /\ UNCHANGED <<control, pos, pending, batch, held, files, db, disk, restarts,
                   history>>

\* checkpoint_now: drain_inflight ...
CkptReap ==
  /\ pc = "ckpt"
  /\ \E t \in inflight : Reap(t)
  /\ UNCHANGED <<control, pos, pending, batch, ckpt, world, history>>

\* ... then save_checkpoint.
CkptSave ==
  /\ pc = "ckpt" /\ inflight = {}
  /\ SaveCheckpoint
  /\ pc' = IF stopping THEN "drain" ELSE "idle"
  /\ drained' = FALSE
  /\ UNCHANGED <<back, idle, stopping, memory, queue, dead, world, history>>
-----------------------------------------------------------------------------
(* The end of a pass, shutdown, crash and restart *)

NextPass ==
  /\ pc = "idle"
  /\ pc' = "drain" /\ idle' = TRUE /\ drained' = FALSE
  /\ UNCHANGED <<back, stopping, memory, files, world, history>>

\* A stop request is only looked at in a pass that read nothing (--once ends
\* the same way).
Shutdown ==
  /\ pc = "idle" /\ idle /\ restarts < MaxRestarts
  /\ pc' = "stop" /\ stopping' = TRUE
  /\ UNCHANGED <<back, idle, drained, memory, files, world, history>>

\* framer.drain() on the way out; a record that cannot be built is discarded
\* without a dead letter.
StopFrame ==
  /\ pc = "stop" /\ pending # {}
  /\ \E r \in SUBSET pending \ {{}} :
       /\ pending' = pending \ r
       /\ IF r \cap Unmappable # {}
            THEN swallowed' = swallowed \cup r /\ UNCHANGED <<batch, dead, gone>>
            ELSE Admit(r) /\ UNCHANGED swallowed
  /\ UNCHANGED <<control, pos, inflight, held, queue, ckpt, world, passed>>

StopFlush ==
  /\ pc = "stop" /\ pending = {}
  /\ pc' = "flush" /\ back' = "ckpt"
  /\ UNCHANGED <<idle, drained, stopping, memory, files, world, history>>

\* The process is gone: what it held in memory is gone with it.
Die(how) ==
  /\ pc' = how /\ back' = "read" /\ idle' = TRUE /\ drained' = FALSE /\ stopping' = FALSE
  /\ pos' = ckpt /\ pending' = {} /\ batch' = {} /\ inflight' = {} /\ held' = <<>>
  /\ queue' = Opened(queue)
  /\ UNCHANGED <<ckpt, dead, world, history>>

Crash == pc \notin Halted /\ restarts < MaxRestarts /\ Die("down")

\* The next step writes a dead letter ...
WantsDeadLetter ==
  \/ CanRead /\ pos + 1 \in Malformed
  \/ CanRead /\ \E r \in Framed(pos + 1) : r \cap Unmappable # {}
  \/ pc = "expire" /\ pending \cap Unmappable # {}
  \/ /\ pc \in {"flush", "ckpt"}
     /\ \E t \in inflight : t.res = "ok" /\ Rejected(t.recs) # {}
  \/ pc = "heldAck" /\ Rejected(Head(held)) # {}
  \/ pc = "segAck" /\ Rejected(Head(queue.segs)) # {}

\* ... and the full disk refuses it: the error ends the source and the agent.
DeadLetterFails == disk = "full" /\ WantsDeadLetter /\ Die("exited")

\* run_file_source starts again from the checkpoint and the queue.
Restart ==
  /\ pc \in Halted /\ restarts < MaxRestarts
  /\ restarts' = restarts + 1
  /\ pc' = "drain" /\ back' = "read" /\ idle' = TRUE /\ drained' = FALSE
  /\ stopping' = FALSE
  /\ pos' = ckpt /\ pending' = {} /\ batch' = {} /\ inflight' = {} /\ held' = <<>>
  /\ queue' = Opened(queue)
  /\ UNCHANGED <<ckpt, dead, stored, db, disk, history>>
-----------------------------------------------------------------------------
(* The environment *)

DbFlip ==
  /\ db' = IF db = "up" THEN "down" ELSE "up"
  /\ UNCHANGED <<control, memory, files, stored, disk, restarts, history>>

DiskFlip ==
  /\ DiskFaults
  /\ disk' = IF disk = "ok" THEN "full" ELSE "ok"
  /\ UNCHANGED <<control, memory, files, stored, db, restarts, history>>

Drain == DrainHeldToDisk \/ DrainHeldSend \/ DrainHeldAck \/ DrainSend \/ DrainPop
         \/ DrainDone

Loop == \/ Drain
        \/ ReadLine \/ ReadMalformed \/ ReadDone \/ Expire \/ TimerFires \/ TimerSkips
        \/ FlushReap \/ FlushSpawn \/ FlushEmpty \/ CkptReap \/ CkptSave
        \/ NextPass \/ StopFrame \/ StopFlush

Next == Loop \/ ShipDone \/ Shutdown \/ Crash \/ DeadLetterFails \/ Restart
        \/ DbFlip \/ DiskFlip

Spec == Init /\ [][Next]_vars
-----------------------------------------------------------------------------
(* Correctness *)

Body == SUBSET (SUBSET Lines)
Task == [recs : Body, res : {"running", "ok", "err"}]

\* Every variable has its type; the disk position never passes the tailer's
\* while the process runs.
TypeOK ==
  /\ pc \in {"drain", "heldAck", "segAck", "read", "expire", "timer", "flush",
             "ckpt", "idle", "stop"} \cup Halted
  /\ back \in {"read", "ckpt"}
  /\ idle \in BOOLEAN /\ drained \in BOOLEAN /\ stopping \in BOOLEAN
  /\ pos \in 0..NLines /\ ckpt \in 0..pos
  /\ pending \in SUBSET Lines /\ batch \in Body /\ inflight \in SUBSET Task
  /\ held \in Seq(Body)
  /\ queue \in [segs : Seq(Body), bytes : Nat, full : BOOLEAN]
  /\ dead \in SUBSET Lines /\ stored \in SUBSET Lines
  /\ db \in {"up", "down"} /\ disk \in {"ok", "full"} /\ restarts \in 0..MaxRestarts
  /\ gone \in SUBSET Lines /\ swallowed \in SUBSET Lines /\ passed \in SUBSET Lines

\* Custody: every line the tailer has handed out is still somewhere the agent
\* answers for (framer, batch, ship task, held, queue, dead letter, database, a
\* counted drop), through spills, forced spills, holds, poison and replays.  The
\* two exceptions are named: a record the shutdown path discards, and a line
\* drain_queue's checkpoint had gone past while it was only in memory.
Custody == 1..pos \subseteq Durable \cup Volatile \cup swallowed \cup passed

\* What a crash may skip: every line the checkpoint file claims is durable
\* (database, queue, dead letter or a decided drop), with the same two
\* exceptions.  checkpoint_now waits for the ship tasks, and a held batch pins
\* the checkpoint, so neither adds one.
CheckpointCovered == 1..ckpt \subseteq Durable \cup swallowed \cup passed

\* A batch held in memory keeps the reader paused: nothing more can be read
\* while the disk and the database both refuse.
HeldPausesReading == held # <<>> => queue.full

\* Where the task stands: what an acknowledged send has stored, what is left in
\* memory when the checkpoint is taken, and what a step about to pop relies on.
Phase ==
  /\ pc = "segAck" => held = <<>> /\ queue.segs # <<>>
  /\ pc = "heldAck" => held # <<>>
  /\ pc = "flush" /\ back = "ckpt" => pending = {}
  /\ pc = "ckpt" => pending = {} /\ batch = {}

Acked(body) == LinesOf(body \ Rejected(body)) \subseteq stored

AckedIsStored ==
  /\ pc = "segAck" => Acked(Head(queue.segs))
  /\ pc = "heldAck" => Acked(Head(held))
  /\ \A t \in inflight : t.res = "ok" => Acked(t.recs)

\* The inductive invariant behind Custody and CheckpointCovered.
IInv == TypeOK /\ Phase /\ AckedIsStored /\ HeldPausesReading /\ Custody /\ CheckpointCovered

\* The rule save_checkpoint's comment states without an exception: never record
\* progress past bytes that are not durable somewhere.
CheckpointNeverPastMemory == 1..ckpt \subseteq Durable \cup swallowed
-----------------------------------------------------------------------------
(* Liveness.  The task keeps running (its waits are bounded, the ship tasks *)
(* time out), the writer keeps appending, timers elapse, and a supervisor   *)
(* restarts a process that died.                                           *)

FairSpec ==
  /\ Spec
  /\ WF_vars(Loop) /\ WF_vars(ShipDone) /\ WF_vars(Restart)
  /\ SF_vars(ReadLine \/ ReadMalformed)
  /\ SF_vars(TimerFires)
  /\ SF_vars(Expire /\ pending' = {})

Settled == stored \cup dead \cup gone \cup swallowed \cup passed

\* Once the database stays up, every line of the source is settled for good.
Delivered == <>[](db = "up") => <>[](Settled = Lines)

\* Once the database stays up and the disk stays writable, a paused reader
\* resumes.
PauseEnds == <>[](db = "up" /\ disk = "ok") => []<>(~queue.full)
=============================================================================
