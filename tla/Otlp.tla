-------------------------------- MODULE Otlp --------------------------------
(***************************************************************************)
(* The OTLP logs receiver, otlp.rs: connection handlers that map an export *)
(* and queue it before they answer, and the task that drains the queue.    *)
(* Both take the queue's lock, the drain once to look at the front and     *)
(* again to pop it.  The client is outside: it gives up waiting, sends the *)
(* export again while the first request is still being handled, and takes  *)
(* 200 as a promise.                                                       *)
(*                                                                         *)
(* Abstractions.  An export is the set of its records.  What build_record  *)
(* makes of a record and whether the server would answer 400 to it are     *)
(* CONSTANTS.  The stamper of this receiver has nanosecond resolution and  *)
(* changes nothing (stamp.rs:113).  Counters are left out.                 *)
(***************************************************************************)
EXTENDS QueueOps

CONSTANTS
  Exports,      \* the exports, sets of records; none of them empty
  Unmappable,   \* records build_record, stamp or encode refuses
  Poison,       \* records the server answers 400 to
  MaxTries,     \* how often a client sends an export (bound)
  MaxRestarts   \* how many times the process ends and is restarted (bound)

ASSUME OtlpAssumption ==
  /\ \A x \in Exports : x # {} /\ IsFiniteSet(x)
  /\ MaxTries \in Nat \ {0} /\ MaxRestarts \in Nat

VARIABLES
  tries,     \* requests sent per export
  client,    \* what its client knows of the last one
  handlers,  \* requests being handled
  drain,     \* where the drain task is
  front,     \* the segment it took from the front
  queue,     \* the queue; queue.segs is on disk
  stored,    \* records durable in the database
  discarded, \* records the drain popped although the server rejected them
  acked,     \* history: exports answered 200
  db, up, restarts

requests == <<tries, client, handlers>>
shipping == <<drain, front>>
world    == <<db, up, restarts>>
vars     == <<requests, shipping, queue, stored, discarded, acked, world>>

Records == UNION Exports
Mapped(x) == x \ Unmappable
Queued == UNION {queue.segs[i] : i \in DOMAIN queue.segs}
Request(x, at) == [export |-> x, try |-> tries[x], at |-> at]
Moved(h, at) == (handlers \ {h}) \cup {[h EXCEPT !.at = at]}
-----------------------------------------------------------------------------
Init ==
  /\ tries = [x \in Exports |-> 0] /\ client = [x \in Exports |-> "idle"]
  /\ handlers = {}
  /\ drain = "look" /\ front = {}
  /\ queue = EmptyQueue /\ stored = {} /\ discarded = {} /\ acked = {}
  /\ db = "up" /\ up = TRUE /\ restarts = 0

\* A connection is accepted and its request handed to a handler.
Send(x) ==
  /\ up /\ client[x] \in {"idle", "refused"} /\ tries[x] < MaxTries
  /\ tries' = [tries EXCEPT ![x] = @ + 1]
  /\ client' = [client EXCEPT ![x] = "waiting"]
  /\ handlers' = handlers \cup {[export |-> x, try |-> tries'[x], at |-> "ingest"]}
  /\ UNCHANGED <<shipping, queue, stored, discarded, acked, world>>

\* The client stops waiting: a timeout, a broken connection, an agent down.
GiveUp(x) ==
  /\ client[x] = "waiting"
  /\ client' = [client EXCEPT ![x] = "idle"]
  /\ UNCHANGED <<tries, handlers, shipping, queue, stored, discarded, acked, world>>

\* decode_body and the decoding, mapping, stamping and encoding of ingest.  A
\* request may have arrived with an unknown encoding, bad gzip, too long or no
\* protobuf.  A record that cannot be mapped is dropped; an export without any
\* record left is a success with nothing to do.
Map(h) ==
  /\ h.at = "ingest"
  /\ handlers' \in {Moved(h, "400"),
                    Moved(h, IF Mapped(h.export) = {} THEN "200" ELSE "push")}
  /\ UNCHANGED <<tries, client, shipping, queue, stored, discarded, acked, world>>

\* Mutant: the answer does not wait for the queue's.
AnswerFirst(h) ==
  /\ h.at = "push"
  /\ \E space \in BOOLEAN : queue' = Pushed(queue, Mapped(h.export), space)
  /\ handlers' = Moved(h, "200")
  /\ UNCHANGED <<tries, client, shipping, stored, discarded, acked, world>>

\* The end of ingest: push, under the queue's lock.  The disk may have no space.
Enqueue(h) ==
  /\ h.at = "push"
  /\ \E space \in BOOLEAN :
       /\ queue' = Pushed(queue, Mapped(h.export), space)
       /\ handlers' = Moved(h, IF Accepts(queue, Mapped(h.export), space) THEN "200" ELSE "503")
  /\ UNCHANGED <<tries, client, shipping, stored, discarded, acked, world>>

\* The answer goes out.  It is lost on a client that no longer waits for it.
Answer(h) ==
  /\ h.at \in {"200", "400", "503"}
  /\ handlers' = handlers \ {h}
  /\ acked' = IF h.at = "200" THEN acked \cup {h.export} ELSE acked
  /\ client' = IF client[h.export] = "waiting" /\ tries[h.export] = h.try
                 THEN [client EXCEPT ![h.export] =
                         IF h.at = "200" THEN "acked" ELSE IF h.at = "503" THEN "refused" ELSE "failed"]
                 ELSE client
  /\ UNCHANGED <<tries, shipping, queue, stored, discarded, world>>

\* The drain task locks the queue to look at the front, and reads the file.
DrainFront ==
  /\ up /\ drain = "look" /\ queue.segs # <<>>
  /\ drain' = "send" /\ front' = Head(queue.segs)
  /\ UNCHANGED <<requests, queue, stored, discarded, acked, world>>

\* Mutant: a rejected record takes its segment with it.
DrainSendOrDrop ==
  /\ up /\ drain = "send" /\ db = "up" /\ drain' = "pop"
  /\ IF front \cap Poison = {}
       THEN stored' = stored \cup front /\ UNCHANGED discarded
       ELSE discarded' = discarded \cup front /\ UNCHANGED stored
  /\ UNCHANGED <<requests, front, queue, acked, world>>

\* Mutant: a segment with a rejected record stays at the front, as in journald.rs.
DrainKeepsPoison ==
  /\ up /\ drain = "send" /\ db = "up"
  /\ drain' = (IF front \cap Poison = {} THEN "pop" ELSE "look")
  /\ stored' = stored \cup (front \ Poison)
  /\ UNCHANGED <<requests, front, queue, discarded, acked, world>>

\* send_lines, without the lock.  What the server rejects is dropped with the
\* segment: Ok(_poison).
DrainSend ==
  /\ up /\ drain = "send" /\ db = "up" /\ drain' = "pop"
  /\ stored' = stored \cup (front \ Poison)
  /\ discarded' = discarded \cup (front \cap Poison)
  /\ UNCHANGED <<requests, front, queue, acked, world>>

DrainFails ==
  /\ up /\ drain = "send" /\ db = "down" /\ drain' = "look" /\ front' = {}
  /\ \E part \in SUBSET (front \ Poison) : stored' = stored \cup part
  /\ UNCHANGED <<requests, queue, discarded, acked, world>>

\* pop(&path), under the lock again.
DrainPop ==
  /\ up /\ drain = "pop" /\ drain' = "look" /\ front' = {}
  /\ queue' = Popped(queue)
  /\ UNCHANGED <<requests, stored, discarded, acked, world>>

Drain == DrainFront \/ DrainSend \/ DrainFails \/ DrainPop

\* The process ends, on the stop signal too: run returns with handlers and
\* drain under way.  Clients are left waiting.
Crash ==
  /\ up /\ restarts < MaxRestarts
  /\ up' = FALSE /\ handlers' = {} /\ drain' = "look" /\ front' = {}
  /\ UNCHANGED <<tries, client, queue, stored, discarded, acked, db, restarts>>

Restart ==
  /\ ~up /\ up' = TRUE /\ restarts' = restarts + 1
  /\ queue' = Opened(queue)
  /\ UNCHANGED <<requests, shipping, stored, discarded, acked, db>>

DbFlip ==
  /\ db' = IF db = "up" THEN "down" ELSE "up"
  /\ UNCHANGED <<requests, shipping, queue, stored, discarded, acked, up, restarts>>

Handle == \E h \in handlers : Map(h) \/ Enqueue(h) \/ Answer(h)

Next ==
  \/ Handle \/ Drain \/ Crash \/ Restart \/ DbFlip
  \/ \E x \in Exports : Send(x) \/ GiveUp(x)

\* The drain task is a loop without an end, and the service manager restarts
\* the agent.
Fairness == WF_vars(Drain) /\ WF_vars(Restart)

Spec == Init /\ [][Next]_vars /\ Fairness
-----------------------------------------------------------------------------
TypeOK ==
  /\ tries \in [Exports -> 0..MaxTries]
  /\ client \in [Exports -> {"idle", "waiting", "acked", "refused", "failed"}]
  /\ handlers \subseteq [export : Exports, try : 1..MaxTries,
                         at : {"ingest", "push", "200", "400", "503"}]
  /\ drain \in {"look", "send", "pop"} /\ front \subseteq Records
  /\ \A i \in DOMAIN queue.segs : queue.segs[i] \subseteq Records
  /\ queue.bytes \in Nat /\ queue.full \in BOOLEAN
  /\ stored \subseteq Records /\ discarded \subseteq Poison /\ acked \subseteq Exports
  /\ db \in {"up", "down"} /\ up \in BOOLEAN
  /\ restarts \in 0..MaxRestarts

\* AckedDurable, the "ack trap" of otlp.rs:513: once any request for an export
\* was answered 200, every record of it that can be mapped is in the database
\* or in a segment on disk, across crashes and a full disk; only what the
\* server rejects has been dropped.
AckedDurable ==
  \A x \in acked : Mapped(x) \subseteq stored \cup Queued \cup discarded

\* AckedStored: once the database stays up and the agent runs, every
\* acknowledged record the server accepts reaches it, past any rejected one in
\* front of it.
AckedStored ==
  (<>[](db = "up" /\ up))
    => \A x \in Exports : (x \in acked) ~> (Mapped(x) \ Poison \subseteq stored)
=============================================================================
