----------------------------- MODULE PullSource -----------------------------
(***************************************************************************)
(* The two sources that are read through a cursor and not by tailing a     *)
(* file: run_journald (journald.rs) and run_winlog (winlog.rs).  The loops *)
(* differ in one thing, what is saved when a pass found nothing to ship,   *)
(* and in what seeking to a purged position does; `kind' says which runs.  *)
(*                                                                         *)
(* Abstractions.  An entry is its position in the journal, a batch the set *)
(* of entries that map to a record.  What map_entry makes of an entry is   *)
(* fixed by CONSTANTS.  Stamps are left to Stamper.tla.  The select that   *)
(* races the loop against the stop signal drops it at an await, which is   *)
(* one of the places where Crash ends it.                                  *)
(***************************************************************************)
EXTENDS QueueOps

CONSTANTS
  NEntries,     \* entries the journal ever holds (bound)
  BatchLines,   \* output.batch_lines
  MaxRestarts,  \* how many times the process may be restarted (bound)
  Fieldless,    \* entries without a declared field: map_entry returns None
  Bad,          \* entries map_entry fails on
  Poison        \* entries whose record the server answers 400 to

Entries == 1..NEntries
Shippable == Entries \ (Fieldless \cup Bad)

PullSourceAssumption ==
  /\ NEntries \in Nat /\ BatchLines \in Nat \ {0} /\ MaxRestarts \in Nat
  /\ Fieldless \subseteq Entries /\ Bad \subseteq Entries /\ Poison \subseteq Entries

VARIABLES
  kind,      \* "journald" or "winlog"
  once,      \* --once: stop at the tail
  pc,        \* where the loop is
  ending,    \* past the loop, in the last drain
  at,        \* the reader's position: the last entry it returned
  batch,     \* entries of the batch being read
  last,      \* last_cursor, last_bookmark; 0 is None
  atTail,    \* at_tail
  queue,     \* the queue; queue.segs is on disk
  ckpt,      \* on disk: the saved cursor; 0 is none
  appended,  \* entries written to the journal so far
  oldest,    \* the oldest entry not purged
  stored,    \* entries durable in the database
  db, restarts,
  refused,   \* history: entries of a batch that push did not take
  purged,    \* history: entries purged before the reader came to them
  skipped    \* history: entries there to be read that seek went past

loop    == <<pc, ending, at, batch, last, atTail>>
journal == <<appended, oldest>>
world   == <<db, restarts>>
history == <<refused, purged, skipped>>
fixed   == <<kind, once>>
vars    == <<fixed, loop, queue, ckpt, journal, stored, world, history>>

Halted == {"down", "exited"}
Queued == UNION {queue.segs[i] : i \in DOMAIN queue.segs}
Between(a, b) == {e \in Entries : a < e /\ e < b}
-----------------------------------------------------------------------------
Init ==
  /\ kind \in {"journald", "winlog"} /\ once \in BOOLEAN
  /\ pc = "start" /\ ending = FALSE /\ at = 0 /\ batch = {} /\ last = 0 /\ atTail = FALSE
  /\ queue = EmptyQueue /\ ckpt = 0
  /\ appended = 0 /\ oldest = 1 /\ stored = {}
  /\ db = "up" /\ restarts = 0
  /\ refused = {} /\ purged = {} /\ skipped = {}

\* The entry the reader returns after position p, when there is one.
After(p) == IF p + 1 >= oldest THEN p + 1 ELSE oldest

\* RealJournal::seek steps once after sd_journal_seek_cursor to stand on the
\* saved entry; when that entry has been purged, the first one left is what it
\* stands on.
LandedInJournal(c) == IF c = 0 \/ c >= oldest \/ oldest > appended THEN c ELSE oldest

\* RealEventLog::open_query asks for the event after the bookmark.
LandedInChannel(c) == c

\* Where seeking to cursor c leaves the reader.
Landed(c) == IF kind = "journald" THEN LandedInJournal(c) ELSE LandedInChannel(c)

\* Checkpoint::load, seek, Queue::open, and on to the drain before the loop.
Start ==
  /\ pc = "start" /\ pc' = "drain"
  /\ at' = Landed(ckpt)
  /\ purged' = purged \cup {e \in Between(ckpt, at' + 1) : e < oldest}
  /\ skipped' = skipped \cup {e \in Between(ckpt, at' + 1) : e >= oldest}
  /\ queue' = Opened(queue)
  /\ UNCHANGED <<fixed, ending, batch, last, atTail, ckpt, journal, stored, world, refused>>

\* Mutant: the cursor is saved as entries are read, not once they are queued.
SavedOnRead ==
  /\ pc = "read" /\ Cardinality(batch) < BatchLines /\ After(at) <= appended
  /\ at' = After(at) /\ last' = at' /\ ckpt' = at'
  /\ pc' = IF at' \in Bad THEN "down" ELSE pc
  /\ batch' = batch \cup ({at'} \cap Shippable)
  /\ purged' = purged \cup Between(at, at')
  /\ UNCHANGED <<fixed, ending, atTail, queue, journal, stored, world, refused, skipped>>

\* reader.next() returns an entry.  One that map_entry fails on ends the
\* source, and with it the agent.
Read ==
  /\ pc = "read" /\ Cardinality(batch) < BatchLines /\ After(at) <= appended
  /\ at' = After(at) /\ last' = at'
  /\ pc' = IF at' \in Bad THEN "down" ELSE pc
  /\ batch' = batch \cup ({at'} \cap Shippable)
  /\ purged' = purged \cup Between(at, at')
  /\ UNCHANGED <<fixed, ending, atTail, queue, ckpt, journal, stored, world, refused, skipped>>

\* The batch is full, or reader.next() is at the tail.
ReadDone ==
  /\ pc = "read" /\ (Cardinality(batch) = BatchLines \/ After(at) > appended)
  /\ atTail' = (Cardinality(batch) < BatchLines)
  /\ pc' = "push"
  /\ UNCHANGED <<fixed, ending, at, batch, last, queue, ckpt, journal, stored, world, history>>

\* queue.push(&body)?: the Ok(false) of a refusal is not looked at.
Push ==
  /\ pc = "push" /\ batch # {} /\ pc' = "save"
  /\ \E space \in BOOLEAN :
       /\ queue' = Pushed(queue, batch, space)
       /\ refused' = IF Accepts(queue, batch, space) THEN refused ELSE refused \cup batch
  /\ UNCHANGED <<fixed, ending, at, batch, last, atTail, ckpt, journal, stored, world,
                 purged, skipped>>

\* Nothing to ship.  Only winlog saves how far it looked.
PushNothing ==
  /\ pc = "push" /\ batch = {}
  /\ pc' = IF kind = "winlog" /\ last # 0 THEN "save" ELSE "turn"
  /\ UNCHANGED <<fixed, ending, at, batch, last, atTail, queue, ckpt, journal, stored, world, history>>

\* Checkpoint::save.  Its error, on a full disk, ends the source.
Save ==
  /\ pc = "save"
  /\ \/ pc' = (IF batch # {} THEN "drain" ELSE "turn") /\ ckpt' = last
     \/ pc' = "down" /\ UNCHANGED ckpt
  /\ UNCHANGED <<fixed, ending, at, batch, last, atTail, queue, journal, stored, world, history>>

\* drain, front segment: everything but what the server rejects is stored.  A
\* segment with a rejected record stays where it is.
DrainSend ==
  /\ pc = "drain" /\ queue.segs # <<>> /\ db = "up"
  /\ stored' = stored \cup (Head(queue.segs) \ Poison)
  /\ pc' = IF Head(queue.segs) \cap Poison = {} THEN "pop" ELSE "turn"
  /\ UNCHANGED <<fixed, ending, at, batch, last, atTail, queue, ckpt, journal, world, history>>

DrainPop ==
  /\ pc = "pop" /\ pc' = "drain"
  /\ queue' = Popped(queue)
  /\ UNCHANGED <<fixed, ending, at, batch, last, atTail, ckpt, journal, stored, world, history>>

\* The send failed; part of the segment may have been stored.
DrainFails ==
  /\ pc = "drain" /\ queue.segs # <<>> /\ db = "down"
  /\ \E part \in SUBSET (Head(queue.segs) \ Poison) : stored' = stored \cup part
  /\ pc' = "turn"
  /\ UNCHANGED <<fixed, ending, at, batch, last, atTail, queue, ckpt, journal, world, history>>

DrainDone ==
  /\ pc = "drain" /\ queue.segs = <<>> /\ pc' = "turn"
  /\ UNCHANGED <<fixed, ending, at, batch, last, atTail, queue, ckpt, journal, stored, world, history>>

\* The end of a pass: once more round the loop (after reader.wait at the
\* tail), the last drain, or the end.
Turn ==
  /\ pc = "turn"
  /\ pc' = IF ending THEN "exited" ELSE IF atTail /\ once THEN "drain" ELSE "read"
  /\ ending' = (~ending /\ atTail /\ once)
  /\ batch' = {} /\ last' = 0 /\ atTail' = FALSE
  /\ UNCHANGED <<fixed, at, queue, ckpt, journal, stored, world, history>>

\* The process ends; files survive it.  The stop signal is one of the causes.
Crash ==
  /\ pc \notin Halted /\ pc' = "down"
  /\ UNCHANGED <<fixed, ending, at, batch, last, atTail, queue, ckpt, journal, stored, world, history>>

Restart ==
  /\ pc = "down" /\ restarts < MaxRestarts /\ pc' = "start"
  /\ ending' = FALSE /\ at' = 0 /\ batch' = {} /\ last' = 0 /\ atTail' = FALSE
  /\ restarts' = restarts + 1
  /\ UNCHANGED <<fixed, queue, ckpt, journal, stored, db, history>>

Agent ==
  \/ Start \/ Read \/ ReadDone \/ Push \/ PushNothing \/ Save
  \/ DrainSend \/ DrainPop \/ DrainFails \/ DrainDone \/ Turn
-----------------------------------------------------------------------------
(* The world *)

AppendEntry ==
  /\ appended < NEntries /\ appended' = appended + 1
  /\ UNCHANGED <<fixed, loop, queue, ckpt, oldest, stored, world, history>>

\* The journal drops its oldest entry (rotation by size or age).
Purge ==
  /\ oldest <= appended /\ oldest' = oldest + 1
  /\ UNCHANGED <<fixed, loop, queue, ckpt, appended, stored, world, history>>

DbFlip ==
  /\ db' = IF db = "up" THEN "down" ELSE "up"
  /\ UNCHANGED <<fixed, loop, queue, ckpt, journal, stored, restarts, history>>

Next == Agent \/ Crash \/ Restart \/ AppendEntry \/ Purge \/ DbFlip

Spec == Init /\ [][Next]_vars
-----------------------------------------------------------------------------
TypeOK ==
  /\ kind \in {"journald", "winlog"} /\ once \in BOOLEAN
  /\ pc \in {"start", "read", "push", "save", "drain", "pop", "turn"} \cup Halted
  /\ ending \in BOOLEAN /\ atTail \in BOOLEAN
  /\ at \in 0..NEntries /\ last \in 0..NEntries /\ ckpt \in 0..NEntries
  /\ batch \subseteq Shippable /\ stored \subseteq Shippable
  /\ \A i \in DOMAIN queue.segs : queue.segs[i] \subseteq Shippable
  /\ queue.bytes \in Nat /\ queue.full \in BOOLEAN
  /\ appended \in 0..NEntries /\ oldest \in 1..(NEntries + 1)
  /\ db \in {"up", "down"} /\ restarts \in 0..MaxRestarts
  /\ refused \subseteq Entries /\ purged \subseteq Entries /\ skipped \subseteq Entries

\* Entries the saved cursor has gone past and that are nowhere any more.
Behind == {e \in Shippable : e <= ckpt} \ (stored \cup Queued \cup purged)

\* NoGap: an entry the saved cursor is past is stored or in the queue, or was
\* purged before it could be read; or it belongs to a batch the queue refused
\* (journald.rs:169, winlog.rs:192), or it is the one journald's seek goes past
\* when the saved entry has been purged (journald.rs:307).  A restart resumes
\* at the cursor, so nothing else would ever ship it.
NoGap == Behind \subseteq refused \cup skipped
=============================================================================
