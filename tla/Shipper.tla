------------------------------ MODULE Shipper ------------------------------
(***************************************************************************)
(* crates/tributary/src/ship.rs: the send_lines calls in flight at once,   *)
(* which share one HTTP client, its connection pool and its failure        *)
(* streak.  send_lines isolates what the server rejects by bisection; send *)
(* classifies each answer and decides when the pool must be dropped.       *)
(*                                                                         *)
(* A chunk is a slice <<lo, hi>> of the call's lines.  The pool            *)
(* is the peer its connections lead to: the router, a querier that         *)
(* inherited its address (501), or a stranger (404, or silence); a new     *)
(* client dials, and so resolves, afresh.  A caller whose call failed      *)
(* spools the whole batch and sends it again later.                        *)
(***************************************************************************)
EXTENDS Naturals, Sequences, FiniteSets

CONSTANTS
  Tasks,         \* the calls in flight: at most max_inflight
  Size,          \* lines of each call's batch
  Bad,           \* the sets of lines the server may answer 400 to
  RebuildAfter,  \* REBUILD_AFTER
  MaxReshapes    \* bound: how often the pool's address changes hands

ASSUME ShipperAssumption ==
  /\ Size \in [Tasks -> Nat \ {0}] /\ {} \in Bad
  /\ RebuildAfter \in Nat \ {0} /\ MaxReshapes \in Nat

VARIABLES
  poisonOf,  \* the lines the server answers 400 to, per call; fixed
  st,        \* where each call is
  stack,     \* send_lines' stack of chunks, top last
  chunk,     \* the chunk on the wire
  poison,    \* send_lines' poison: what it will return for quarantine
  peer,      \* who the request on the wire was sent to: one client load each
  stored,    \* lines durable in the database
  pool,      \* the client: the peer its connections lead to
  streak,    \* transport_streak, modulo RebuildAfter: all that is asked of it
  router,    \* the router answers "ok", "busy" (429), "denied" (401), "sick" (5xx)
  wire,      \* "good" or "bad": requests or their answers are lost
  identity,  \* can a client be built, or is its certificate unreadable?
  reshapes

calls == <<poisonOf, st, stack, chunk, poison, peer, stored>>
world == <<router, wire, identity, reshapes>>
vars  == <<calls, pool, streak, world>>

Lines(t) == 1..Size[t]
Slice(c) == c[1]..c[2]
NoChunk == <<1, 0>>

\* Mutant: the halves share a line.
HalvesOverlap(c) ==
  LET mid == (c[2] - c[1] + 1) \div 2
  IN  [left |-> <<c[1], c[1] + mid>>, right |-> <<c[1] + mid, c[2]>>]

Halves(c) ==
  LET mid == (c[2] - c[1] + 1) \div 2
  IN  [left |-> <<c[1], c[1] + mid - 1>>, right |-> <<c[1] + mid, c[2]>>]

Init ==
  /\ \E bad \in [Tasks -> Bad] : poisonOf = [t \in Tasks |-> bad[t] \cap Lines(t)]
  /\ st = [t \in Tasks |-> "idle"] /\ stack = [t \in Tasks |-> <<>>]
  /\ chunk = [t \in Tasks |-> NoChunk] /\ peer = [t \in Tasks |-> "router"]
  /\ poison = [t \in Tasks |-> {}] /\ stored = [t \in Tasks |-> {}]
  /\ pool = "router" /\ streak = 0
  /\ router = "ok" /\ wire = "good" /\ identity = TRUE /\ reshapes = 0
-----------------------------------------------------------------------------
(* send_lines *)

\* The caller starts the call, or sends a failed batch again.
Start(t) ==
  /\ st[t] \in {"idle", "err"}
  /\ st' = [st EXCEPT ![t] = "next"]
  /\ stack' = [stack EXCEPT ![t] = <<<<1, Size[t]>>>>]
  /\ poison' = [poison EXCEPT ![t] = {}]
  /\ UNCHANGED <<poisonOf, chunk, peer, stored, pool, streak, world>>

\* The next chunk goes on the wire, with the client of this moment.
Send(t) ==
  /\ st[t] = "next" /\ stack[t] # <<>>
  /\ chunk' = [chunk EXCEPT ![t] = stack[t][Len(stack[t])]]
  /\ stack' = [stack EXCEPT ![t] = SubSeq(@, 1, Len(@) - 1)]
  /\ peer' = [peer EXCEPT ![t] = pool]
  /\ st' = [st EXCEPT ![t] = "wire"]
  /\ UNCHANGED <<poisonOf, poison, stored, pool, streak, world>>

Finish(t) ==
  /\ st[t] = "next" /\ stack[t] = <<>>
  /\ st' = [st EXCEPT ![t] = "ok"]
  /\ UNCHANGED <<poisonOf, stack, chunk, poison, peer, stored, pool, streak, world>>

Answered(t, by, mode) ==
  st[t] = "wire" /\ peer[t] = by /\ (by = "router" => router = mode)

Clean(t) == Slice(chunk[t]) \cap poisonOf[t] = {}

Store(t) == stored' = [stored EXCEPT ![t] = @ \cup Slice(chunk[t])]

\* The next chunk, or the end of the call; chunks are the slices pushed back.
Continue(t, chunks) ==
  /\ stack' = [stack EXCEPT ![t] = @ \o chunks]
  /\ chunk' = [chunk EXCEPT ![t] = NoChunk]
  /\ st' = [st EXCEPT ![t] = "next"]
  /\ streak' = 0
  /\ UNCHANGED <<poisonOf, peer, pool, world>>

\* 204
AnswerStored(t) ==
  /\ Answered(t, "router", "ok") /\ Clean(t)
  /\ Store(t)
  /\ Continue(t, <<>>)
  /\ UNCHANGED poison

\* 400: the chunk is halved; the left half is on top.
AnswerBisect(t) ==
  /\ Answered(t, "router", "ok") /\ ~Clean(t) /\ chunk[t][1] < chunk[t][2]
  /\ Continue(t, <<Halves(chunk[t]).right, Halves(chunk[t]).left>>)
  /\ UNCHANGED <<poison, stored>>

\* Mutant: a rejected chunk is quarantined whole.
AnswerPoisonWhole(t) ==
  /\ Answered(t, "router", "ok") /\ ~Clean(t)
  /\ poison' = [poison EXCEPT ![t] = @ \cup Slice(chunk[t])]
  /\ Continue(t, <<>>)
  /\ UNCHANGED stored

\* 400 to a single line
AnswerPoison(t) ==
  /\ Answered(t, "router", "ok") /\ ~Clean(t) /\ chunk[t][1] = chunk[t][2]
  /\ poison' = [poison EXCEPT ![t] = @ \cup Slice(chunk[t])]
  /\ Continue(t, <<>>)
  /\ UNCHANGED stored

\* 429: wait as long as asked, then the same chunk.
AnswerBusy(t) ==
  /\ Answered(t, "router", "busy")
  /\ Continue(t, <<chunk[t]>>)
  /\ UNCHANGED <<poison, stored>>

\* Any other answer ends the call with an error.
Fail(t, state) ==
  /\ st' = [st EXCEPT ![t] = state]
  /\ chunk' = [chunk EXCEPT ![t] = NoChunk]
  /\ stack' = [stack EXCEPT ![t] = <<>>]
  /\ UNCHANGED <<poisonOf, poison, peer, pool, world>>

\* 401 or 403: a node with a write path.
AnswerDenied(t) ==
  /\ Answered(t, "router", "denied")
  /\ Fail(t, "err") /\ streak' = 0
  /\ UNCHANGED stored

\* 501: drop the pool now.
AnswerWrongNode(t) ==
  /\ Answered(t, "querier", "")
  /\ Fail(t, "rebuild") /\ UNCHANGED <<streak, stored>>

\* Mutant: the pool is dropped once the streak is past the threshold, no sooner.
TransportFailureLate(t) ==
  /\ streak' = streak + 1
  /\ Fail(t, IF streak' > RebuildAfter THEN "rebuild" ELSE "err")

\* note_transport_failure: every RebuildAfter-th in a row drops the pool.
TransportFailure(t) ==
  /\ streak' = (streak + 1) % RebuildAfter
  /\ Fail(t, IF streak' = 0 THEN "rebuild" ELSE "err")

\* Mutant: any answer at all resets the streak.
AnswerOtherResets(t) ==
  /\ Answered(t, "router", "sick") \/ Answered(t, "stranger", "")
  /\ Fail(t, "err") /\ streak' = 0
  /\ UNCHANGED stored

\* An answer that proves nothing about the peer.
AnswerOther(t) ==
  /\ Answered(t, "router", "sick") \/ Answered(t, "stranger", "")
  /\ TransportFailure(t)
  /\ UNCHANGED stored

\* No answer within the timeout; the router may have stored the chunk.
NoAnswer(t) ==
  /\ st[t] = "wire" /\ (wire = "bad" \/ peer[t] = "stranger")
  /\ TransportFailure(t)
  /\ \/ UNCHANGED stored
     \/ Answered(t, "router", "ok") /\ Clean(t) /\ Store(t)
-----------------------------------------------------------------------------
(* rebuild_transport: two stores, other calls may run between them.        *)

RebuildClient(t) ==
  /\ st[t] = "rebuild" /\ identity
  /\ pool' = "router"
  /\ st' = [st EXCEPT ![t] = "rebuilt"]
  /\ UNCHANGED <<poisonOf, stack, chunk, poison, peer, stored, streak, world>>

RebuildStreak(t) ==
  /\ st[t] = "rebuilt"
  /\ streak' = 0
  /\ st' = [st EXCEPT ![t] = "err"]
  /\ UNCHANGED <<poisonOf, stack, chunk, poison, peer, stored, pool, world>>

\* The client cannot be built: the existing pool is kept.
RebuildFails(t) ==
  /\ st[t] = "rebuild" /\ ~identity
  /\ st' = [st EXCEPT ![t] = "err"]
  /\ UNCHANGED <<poisonOf, stack, chunk, poison, peer, stored, pool, streak, world>>
-----------------------------------------------------------------------------
(* The environment *)

\* The address the pool is pinned to changes hands; DNS knows better.
Reshape ==
  /\ reshapes < MaxReshapes /\ pool = "router"
  /\ pool' \in {"querier", "stranger"}
  /\ reshapes' = reshapes + 1
  /\ UNCHANGED <<calls, streak, router, wire, identity>>

Weather ==
  /\ \/ router' \in {"ok", "busy", "denied", "sick"} \ {router} /\ UNCHANGED <<wire, identity>>
     \/ wire' \in {"good", "bad"} \ {wire} /\ UNCHANGED <<router, identity>>
     \/ identity' = ~identity /\ UNCHANGED <<router, wire>>
  /\ UNCHANGED <<calls, pool, streak, reshapes>>

Step(t) ==
  \/ Start(t) \/ Send(t) \/ Finish(t)
  \/ AnswerStored(t) \/ AnswerBisect(t) \/ AnswerPoison(t) \/ AnswerBusy(t)
  \/ AnswerDenied(t) \/ AnswerWrongNode(t) \/ AnswerOther(t) \/ NoAnswer(t)
  \/ RebuildClient(t) \/ RebuildStreak(t) \/ RebuildFails(t)

Next == (\E t \in Tasks : Step(t)) \/ Reshape \/ Weather

Spec == Init /\ [][Next]_vars
-----------------------------------------------------------------------------
(* Correctness *)

\* Every variable has its type; the streak never reaches the count at which
\* note_transport_failure drops the pool.
TypeOK ==
  /\ \A t \in Tasks : {poisonOf[t], poison[t], stored[t]} \subseteq SUBSET Lines(t)
  /\ st \in [Tasks -> {"idle", "next", "wire", "rebuild", "rebuilt", "ok", "err"}]
  /\ \A t \in Tasks : stack[t] \in Seq(Lines(t) \X Lines(t))
  /\ \A t \in Tasks : Slice(chunk[t]) \subseteq Lines(t)
  /\ peer \in [Tasks -> {"router", "querier", "stranger"}]
  /\ pool \in {"router", "querier", "stranger"} /\ streak \in 0..(RebuildAfter - 1)
  /\ router \in {"ok", "busy", "denied", "sick"} /\ wire \in {"good", "bad"}
  /\ identity \in BOOLEAN /\ reshapes \in 0..MaxReshapes

Stacked(t) == UNION {Slice(stack[t][i]) : i \in DOMAIN stack[t]}

\* While a call runs, each line is stored, isolated as poison, on the wire or
\* still on the stack, and the stacked chunks and the one on the wire never
\* overlap: bisection neither loses a line nor sends it twice in one call.
ChunksPartition ==
  \A t \in Tasks : st[t] \in {"next", "wire"} =>
    /\ Lines(t) = stored[t] \cup poison[t] \cup Slice(chunk[t]) \cup Stacked(t)
    /\ Slice(chunk[t]) \cap Stacked(t) = {}
    /\ poison[t] \cap (Slice(chunk[t]) \cup Stacked(t)) = {}
    /\ \A i, j \in DOMAIN stack[t] :
         i # j => Slice(stack[t][i]) \cap Slice(stack[t][j]) = {}

\* What a caller may rely on, whatever the answers, the order and the other
\* calls: Ok means that exactly the rejected lines came back and all others are
\* stored; a rejected line is never stored, and a good one never quarantined.
SendContract ==
  \A t \in Tasks :
    /\ stored[t] \cap poisonOf[t] = {} /\ poison[t] \subseteq poisonOf[t]
    /\ st[t] = "ok" => poison[t] = poisonOf[t] /\ stored[t] = Lines(t) \ poisonOf[t]

FairSpec == Spec /\ \A t \in Tasks : WF_vars(Step(t))

Calm == router = "ok" /\ wire = "good" /\ identity

\* Once the router is healthy, every call ends, whoever the pool was pinned to
\* and however far a streak had got.
Recovers == <>[]Calm => <>[](\A t \in Tasks : st[t] = "ok")
=============================================================================
