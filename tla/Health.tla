------------------------------- MODULE Health -------------------------------
(***************************************************************************)
(* What /healthz says of the agent: the last tick and the per-source       *)
(* snapshots that a source's loop publishes at the end of a pass           *)
(* (main.rs), the aggregate over them (telemetry.rs) and the handlers that *)
(* refresh and read it (server.rs), several at a time.                     *)
(*                                                                         *)
(* Abstractions.  Of a snapshot the model keeps whether it shows a         *)
(* backlog: queue_bytes # 0 or queue_full.  A pass is any number of steps, *)
(* each of which does something (a segment drained, a batch flushed), and  *)
(* its end.  "pull" stands for the agents without a file tail, whose loops *)
(* are never given the telemetry: journald, winlog, and the OTLP drain.    *)
(***************************************************************************)
EXTENDS Naturals, Sequences

CONSTANTS
  Loops,      \* source loops
  Handlers,   \* HTTP requests under way
  Wedged,     \* WEDGED_AFTER_SECS
  MaxSpawns   \* loops ever started (bound)

HealthAssumption ==
  Loops # {} /\ Handlers # {} /\ Wedged \in Nat \ {0} /\ MaxSpawns \in Nat

VARIABLES
  kind,     \* "files" or "pull"
  on,       \* loops that run
  snapOf,   \* the snapshot of a loop; 0 is none
  idle,     \* seconds since a loop last did something, up to Wedged
  queued,   \* loops whose queue has a backlog
  snaps,    \* Telemetry::sources: does a snapshot show a backlog?
  age,      \* seconds since last_tick_ms, up to Wedged
  denied,   \* Counters::unauthorized is not 0
  cache,    \* the aggregate: does it show a backlog?
  handler,  \* where a handler is, what it has summed, the snapshot it reads next
  clear,    \* history: snapshots without a backlog at some time in its request
  raced     \* history: handlers whose aggregate another one has replaced

loops    == <<on, snapOf, idle, queued>>
requests == <<handler, clear, raced>>
health   == <<kind, loops, snaps, age, denied, cache, requests>>

Done == [at |-> "done", sum |-> FALSE, next |-> 1]
Clear(ss) == {i \in DOMAIN ss : ~ss[i]}
Witness(ss) ==
  [h \in Handlers |-> IF handler[h].at = "done" THEN clear[h] ELSE clear[h] \cup Clear(ss)]
-----------------------------------------------------------------------------
Init ==
  /\ kind \in {"files", "pull"}
  /\ on \in (IF kind = "pull" THEN {{l} : l \in Loops} ELSE {{}})
  /\ snapOf = [l \in Loops |-> 0] /\ idle = [l \in Loops |-> Wedged] /\ queued = {}
  /\ snaps = <<>> /\ age = 0 /\ denied = FALSE /\ cache = FALSE
  /\ handler = [h \in Handlers |-> Done] /\ clear = [h \in Handlers |-> {}] /\ raced = {}

\* run_file_source starts and registers its snapshot: a source of the file, one
\* a reload has added, or a file a glob has found.
Spawn(l) ==
  /\ kind = "files" /\ l \notin on /\ Len(snaps) < MaxSpawns
  /\ on' = on \cup {l} /\ snaps' = Append(snaps, FALSE)
  /\ snapOf' = [snapOf EXCEPT ![l] = Len(snaps')]
  /\ idle' = [idle EXCEPT ![l] = Wedged]
  /\ clear' = Witness(snaps')
  /\ UNCHANGED <<kind, queued, age, denied, cache, handler, raced>>

\* A step in the middle of a pass.  A batch may go to the queue and a segment
\* leave it; an answer may be 401.
Work(l) ==
  /\ l \in on /\ idle' = [idle EXCEPT ![l] = 0]
  /\ queued' \in {queued \cup {l}, queued \ {l}}
  /\ denied' \in {denied, TRUE}
  /\ UNCHANGED <<kind, on, snapOf, snaps, age, cache, requests>>

\* The end of a pass: tick, and the snapshot.
Publish(l) ==
  /\ l \in on /\ idle' = [idle EXCEPT ![l] = 0]
  /\ IF kind = "files"
       THEN age' = 0 /\ snaps' = [snaps EXCEPT ![snapOf[l]] = l \in queued]
       ELSE UNCHANGED <<age, snaps>>
  /\ clear' = Witness(snaps')
  /\ UNCHANGED <<kind, on, snapOf, queued, denied, cache, handler, raced>>

\* The source was removed, or its file has gone.  Its snapshot stays as it was,
\* and so does its queue.
Leave(l) ==
  /\ kind = "files" /\ l \in on /\ on' = on \ {l}
  /\ UNCHANGED <<kind, snapOf, idle, queued, snaps, age, denied, cache, requests>>

Second ==
  /\ age' = (IF age < Wedged THEN age + 1 ELSE age)
  /\ idle' = [l \in Loops |-> IF idle[l] < Wedged THEN idle[l] + 1 ELSE idle[l]]
  /\ UNCHANGED <<kind, on, snapOf, queued, snaps, denied, cache, requests>>
-----------------------------------------------------------------------------
(* GET /healthz and GET /metrics; both refresh the aggregate first *)

\* Mutant: /healthz reads the aggregate as the last scrape left it.
AskUnsummed(h) ==
  /\ handler[h].at = "done"
  /\ \E at \in {"sum", "load"} : handler' = [handler EXCEPT ![h] = [Done EXCEPT !.at = at]]
  /\ clear' = [clear EXCEPT ![h] = Clear(snaps)] /\ raced' = raced \ {h}
  /\ UNCHANGED <<kind, loops, snaps, age, denied, cache>>

Ask(h) ==
  /\ handler[h].at = "done"
  /\ handler' = [handler EXCEPT ![h] = [Done EXCEPT !.at = "sum"]]
  /\ clear' = [clear EXCEPT ![h] = Clear(snaps)] /\ raced' = raced \ {h}
  /\ UNCHANGED <<kind, loops, snaps, age, denied, cache>>

\* aggregate: the snapshots are read one after the other, while they change; the
\* lock keeps only new ones out.
Sum(h) ==
  /\ handler[h].at = "sum" /\ handler[h].next <= Len(snaps)
  /\ handler' = [handler EXCEPT ![h].sum = @ \/ snaps[handler[h].next], ![h].next = @ + 1]
  /\ UNCHANGED <<kind, loops, snaps, age, denied, cache, clear, raced>>

\* /metrics renders what it has, /healthz goes on to decide.
StoreSum(h) ==
  /\ handler[h].at = "sum" /\ handler[h].next > Len(snaps)
  /\ cache' = handler[h].sum
  /\ \E at \in {"done", "load"} : handler' = [handler EXCEPT ![h] = [Done EXCEPT !.at = at]]
  /\ raced' = raced \cup {g \in Handlers \ {h} : handler[g].at = "load"}
  /\ UNCHANGED <<kind, loops, snaps, age, denied, clear>>

\* What health answers: 503 unless live, and "shipping".
Live == age < Wedged
Shipping == ~cache /\ ~denied

Load(h) ==
  /\ handler[h].at = "load"
  /\ handler' = [handler EXCEPT ![h] = Done]
  /\ UNCHANGED <<kind, loops, snaps, age, denied, cache, clear, raced>>

Next ==
  \/ Second
  \/ \E l \in Loops : Spawn(l) \/ Work(l) \/ Publish(l) \/ Leave(l)
  \/ \E h \in Handlers : Ask(h) \/ Sum(h) \/ StoreSum(h) \/ Load(h)

Spec == Init /\ [][Next]_health
-----------------------------------------------------------------------------
TypeOK ==
  /\ kind \in {"files", "pull"} /\ on \subseteq Loops /\ queued \subseteq Loops
  /\ snaps \in Seq(BOOLEAN) /\ snapOf \in [Loops -> 0..Len(snaps)]
  /\ idle \in [Loops -> 0..Wedged] /\ age \in 0..Wedged
  /\ denied \in BOOLEAN /\ cache \in BOOLEAN /\ raced \subseteq Handlers
  /\ handler \in [Handlers -> [at : {"done", "sum", "load"}, sum : BOOLEAN,
                               next : 1..(Len(snaps) + 1)]]
  /\ \A h \in Handlers : clear[h] \subseteq DOMAIN snaps

\* ShippingHonest: when /healthz says "shipping":true, every source's snapshot
\* showed no backlog at some moment of the request, however sources and other
\* requests come in between; unless another request's older sum replaced the
\* aggregate just before it was read (telemetry.rs:187).
ShippingHonest ==
  \A h \in Handlers :
    handler[h].at = "load" /\ Shipping /\ h \notin raced => DOMAIN snaps \subseteq clear[h]

\* WorkingIsGreen: an agent that has done something in the last minute is not
\* reported as wedged (server.rs:14, deploy/k8s/README.md:54).
WorkingIsGreen == (\E l \in on : idle[l] < Wedged) => Live
=============================================================================
