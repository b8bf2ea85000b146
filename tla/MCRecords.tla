------------------------------ MODULE MCRecords ------------------------------
(***************************************************************************)
(* Five parts of the agent checked side by side: the framers, the          *)
(* watermark, the cursor-driven sources, and what the agent says of        *)
(* itself, its log and /healthz.  They share no state, so what holds of    *)
(* each alone holds of all together; one of them, chosen at the start,     *)
(* takes the steps of a behaviour.                                         *)
(***************************************************************************)
EXTENDS Integers, TLC, QueueOps

CONSTANTS
  (* Framers *)    JoinLines, JoinBytes, LineLengths, FramedLines,
  (* Watermark *)  Times, Floor, Ceiling, Window, MinSamples, Num, Den, ReadLines, ReadStarts,
  (* PullSource *) NEntries, BatchLines, MaxRestarts, Fieldless, Bad, Poison,
  (* LogFile *)    Limit, Every, Keeps, LogLengths, MaxLog, MaxSecond, LogStarts,
  (* Health *)     Loops, Handlers, Wedged, MaxSpawns

VARIABLES
  part,
  (* Framers *)    kind, offered, held, records, refused,
  (* Watermark *)  ts, batch, inflight, stored, samples, max, lateness, published,
                   counted, saved, row, starts,
  (* PullSource *) reader, once, pc, ending, at, reading, last, atTail, queue, ckpt, appended,
                   oldest, shipped, db, restarts, full, purged, skipped,
  (* LogFile *)    keep, live, rotated, stuck, written, opened, now, lines, opens, pruned,
                   named, reused, excused,
  (* Health *)     agent, on, snapOf, idle, queued, snaps, age, denied, cache, handler, clear,
                   raced

F == INSTANCE Framers WITH
       MaxLines <- JoinLines, MaxBytes <- JoinBytes, Lengths <- LineLengths,
       NLines <- FramedLines

W == INSTANCE Watermark WITH NLines <- ReadLines, MaxStarts <- ReadStarts

P == INSTANCE PullSource WITH
       kind <- reader, batch <- reading, stored <- shipped, refused <- full

L == INSTANCE LogFile WITH
       held <- stuck, starts <- opens, Lengths <- LogLengths, MaxStarts <- LogStarts

H == INSTANCE Health WITH kind <- agent

ASSUME RecordsAssumption ==
  /\ F!FramersAssumption /\ W!WatermarkAssumption
  /\ P!PullSourceAssumption /\ L!LogFileAssumption /\ H!HealthAssumption

\* Loops and requests differ in nothing but their names.
Symmetry == Permutations(Loops) \cup Permutations(Handlers)

Parts == {"framers", "watermark", "pull", "log", "health"}

\* A part that takes no step starts in one of its initial states.
Init ==
  /\ part \in Parts
  /\ F!Init /\ (part # "framers" => kind = "none")
  /\ W!Init
  /\ P!Init /\ (part # "pull" => reader = "journald" /\ once)
  /\ L!Init /\ (part # "log" => keep = 0)
  /\ H!Init /\ (part # "health" => agent = "files")

framer    == <<kind, offered, held, records, refused>>
watermark == <<ts, batch, inflight, stored, samples, max, lateness, published, counted, saved,
               row, starts>>
pull      == <<reader, once, pc, ending, at, reading, last, atTail, queue, ckpt, appended,
               oldest, shipped, db, restarts, full, purged, skipped>>
log       == <<keep, live, rotated, stuck, written, opened, now, lines, opens, pruned, named,
               reused, excused>>
health    == <<agent, on, snapOf, idle, queued, snaps, age, denied, cache, handler, clear, raced>>

Next ==
  \/ part = "framers"   /\ F!Next /\ UNCHANGED <<part, watermark, pull, log, health>>
  \/ part = "watermark" /\ W!Next /\ UNCHANGED <<part, framer, pull, log, health>>
  \/ part = "pull"      /\ P!Next /\ UNCHANGED <<part, framer, watermark, log, health>>
  \/ part = "log"       /\ L!Next /\ UNCHANGED <<part, framer, watermark, pull, health>>
  \/ part = "health"    /\ H!Next /\ UNCHANGED <<part, framer, watermark, pull, log>>

vars == <<part, framer, watermark, pull, log, health>>
Spec == Init /\ [][Next]_vars
-----------------------------------------------------------------------------
\* TypeOK: every variable of the five parts keeps its type.  Here and below, a
\* part is looked at in the states it takes; elsewhere it is in an initial one.
TypeOK ==
  CASE part = "framers"   -> F!TypeOK
    [] part = "watermark" -> W!TypeOK
    [] part = "pull"      -> P!TypeOK
    [] part = "log"       -> L!TypeOK
    [] part = "health"    -> H!TypeOK

\* FramingSound: what framers hold and release is the file's lines, message by
\* message (multiline.rs, docker.rs, cri.rs).
FramingSound == part = "framers" => F!FramingSound

\* ClaimSound: the watermark hides no late line and its allowance covers the
\* window (watermark.rs).
ClaimSound == part = "watermark" => W!ClaimSound

\* NoGap: no journal entry or event is lost behind the cursor (journald.rs,
\* winlog.rs), with the exceptions PullSource names.
NoGap == part = "pull" => P!NoGap

\* LogSound: rotation bounds the agent's log and loses the oldest only (logfile.rs).
LogSound == part = "log" => L!LogSound

\* ShippingHonest: /healthz does not say shipping over a backlog (server.rs).
ShippingHonest == part = "health" => H!ShippingHonest
=============================================================================
