----------------------------- MODULE OtlpProofs -----------------------------
(***************************************************************************)
(* TypeOK and AckedDurable of Otlp, for every set of exports, every cap of *)
(* the queue, every mapping and every choice of rejected records, and any  *)
(* number of requests and restarts.                                        *)
(***************************************************************************)
EXTENDS Otlp, FiniteSetTheorems, SequenceTheorems, TLAPS

(***************************************************************************)
(* The queue: what the calls of QueueOps do to the bodies in it.  push     *)
(* adds the body or nothing, pop takes the front body and no other.        *)
(***************************************************************************)

\* A queue of bodies from B.
QueueOf(B) == [segs : Seq(B), bytes : Nat, full : BOOLEAN]

\* The records in a sequence of bodies.
Contents(s) == UNION {s[i] : i \in DOMAIN s}

\* Appending a body adds its records and no other, behind the same front.
LEMMA ContentsAppend ==
  ASSUME NEW B, NEW s \in Seq(B), NEW b \in B
  PROVE  /\ Append(s, b) \in Seq(B) /\ Append(s, b) # <<>>
         /\ Contents(Append(s, b)) = Contents(s) \cup b
         /\ s # <<>> => Head(Append(s, b)) = Head(s)
<1>1. /\ Append(s, b) \in Seq(B)
      /\ Len(Append(s, b)) = Len(s) + 1
      /\ DOMAIN Append(s, b) = 1..(Len(s) + 1)
      /\ DOMAIN s = 1..Len(s)
      /\ Len(s) \in Nat
  BY AppendProperties, LenProperties
<1>2. \A i \in DOMAIN s : Append(s, b)[i] = s[i]
  BY <1>1, AppendProperties
<1>3. Append(s, b)[Len(s) + 1] = b
  BY AppendProperties
<1>4. DOMAIN Append(s, b) = DOMAIN s \cup {Len(s) + 1}
  BY <1>1
<1>5. Contents(Append(s, b)) = Contents(s) \cup b
  BY <1>2, <1>3, <1>4, Zenon DEF Contents
<1>6. Append(s, b) # <<>>
  BY <1>1, EmptySeq
<1>7. ASSUME s # <<>> PROVE Head(Append(s, b)) = Head(s)
  <2>1. Head(s) = s[1] /\ 1 \in DOMAIN s
    BY <1>1, <1>7, HeadTailProperties, EmptySeq
  <2>2. Head(Append(s, b)) = Append(s, b)[1]
    BY <1>1, <1>6, HeadTailProperties
  <2> QED BY <1>2, <2>1, <2>2
<1> QED BY <1>1, <1>5, <1>6, <1>7

\* Taking the front off loses the front's records and keeps every other body.
LEMMA ContentsTail ==
  ASSUME NEW B, NEW s \in Seq(B), s # <<>>
  PROVE  /\ Head(s) \in B /\ Tail(s) \in Seq(B)
         /\ Contents(s) = Head(s) \cup Contents(Tail(s))
<1>1. /\ Head(s) \in B /\ Tail(s) \in Seq(B) /\ Head(s) = s[1]
      /\ Len(Tail(s)) = Len(s) - 1
      /\ \A i \in 1..Len(Tail(s)) : Tail(s)[i] = s[i + 1]
  BY HeadTailProperties
<1>2. /\ Len(s) \in Nat \ {0} /\ DOMAIN s = 1..Len(s)
      /\ DOMAIN Tail(s) = 1..(Len(s) - 1)
  BY <1>1, LenProperties, EmptySeq
<1>3. Head(s) \subseteq Contents(s)
  <2>1. 1 \in DOMAIN s
    BY <1>2
  <2> QED BY <2>1, <1>1 DEF Contents
<1>4. Contents(Tail(s)) \subseteq Contents(s)
  <2> SUFFICES ASSUME NEW r, NEW i \in DOMAIN Tail(s), r \in Tail(s)[i]
               PROVE  r \in Contents(s)
    BY DEF Contents
  <2>1. i + 1 \in DOMAIN s /\ Tail(s)[i] = s[i + 1]
    BY <1>1, <1>2
  <2> QED BY <2>1 DEF Contents
<1>5. Contents(s) \subseteq Head(s) \cup Contents(Tail(s))
  <2> SUFFICES ASSUME NEW r, NEW i \in DOMAIN s, r \in s[i], r \notin Head(s)
               PROVE  r \in Contents(Tail(s))
    BY DEF Contents
  <2>1. i # 1
    BY <1>1
  <2>2. i - 1 \in DOMAIN Tail(s) /\ Tail(s)[i - 1] = s[i]
    BY <1>1, <1>2, <2>1
  <2> QED BY <2>2 DEF Contents
<1> QED BY <1>1, <1>3, <1>4, <1>5

\* A queue of bodies from a set holds records of those bodies only.
LEMMA ContentsTyped ==
  ASSUME NEW R, NEW B, \A b \in B : b \subseteq R, NEW s \in Seq(B)
  PROVE  Contents(s) \subseteq R /\ \A i \in DOMAIN s : s[i] \subseteq R
<1>1. \A i \in DOMAIN s : s[i] \in B
  BY ElementOfSeq, LenProperties
<1> QED BY <1>1 DEF Contents

\* push: the body is appended when it is accepted, and nothing changes but the
\* pause when it is not.
LEMMA QueuePushed ==
  ASSUME NEW B, \A b \in B : Cardinality(b) \in Nat,
         NEW q \in QueueOf(B), NEW b \in B, NEW space \in BOOLEAN
  PROVE  /\ Pushed(q, b, space) \in QueueOf(B)
         /\ Accepts(q, b, space) \in BOOLEAN
         /\ Pushed(q, b, space).segs = IF Accepts(q, b, space) THEN Append(q.segs, b) ELSE q.segs
<1>1. q.segs \in Seq(B) /\ q.bytes \in Nat /\ q.full \in BOOLEAN
  BY DEF QueueOf
<1>2. Append(q.segs, b) \in Seq(B) /\ q.bytes + Cardinality(b) \in Nat
  BY <1>1, ContentsAppend
<1>3. Accepts(q, b, space) \in BOOLEAN
  BY DEF Accepts
<1>4. ASSUME Accepts(q, b, space)
      PROVE  Pushed(q, b, space) \in QueueOf(B) /\ Pushed(q, b, space).segs = Append(q.segs, b)
  BY <1>1, <1>2, <1>4 DEF Pushed, Spooled, QueueOf
<1>5. ASSUME ~Accepts(q, b, space)
      PROVE  Pushed(q, b, space) \in QueueOf(B) /\ Pushed(q, b, space).segs = q.segs
  BY <1>1, <1>5 DEF Pushed, Paused, QueueOf
<1> QED BY <1>3, <1>4, <1>5

\* open after a restart: every body is still there.
LEMMA QueueOpened ==
  ASSUME NEW B, NEW q \in QueueOf(B)
  PROVE  Opened(q) \in QueueOf(B) /\ Opened(q).segs = q.segs
  BY DEF Opened, Paused, QueueOf

\* The queue of a first start.
LEMMA QueueEmpty ==
  ASSUME NEW B
  PROVE  EmptyQueue \in QueueOf(B) /\ EmptyQueue.segs = <<>>
  BY EmptySeq DEF EmptyQueue, QueueOf

\* pop: the front body goes, whatever the byte count says.
LEMMA QueuePopped ==
  ASSUME NEW B, \A b \in B : Cardinality(b) \in Nat,
         NEW q \in QueueOf(B), q.segs # <<>>
  PROVE  Popped(q) \in QueueOf(B) /\ Popped(q).segs = Tail(q.segs)
<1>1. q.segs \in Seq(B) /\ q.bytes \in Nat /\ q.full \in BOOLEAN
  BY DEF QueueOf
<1>2. Head(q.segs) \in B /\ Tail(q.segs) \in Seq(B)
  BY <1>1, ContentsTail
<1>3. Cardinality(Head(q.segs)) \in Nat
  BY <1>2
<1> QED BY <1>1, <1>2, <1>3, MaxBytesAssumption DEF Popped, QueueOf

(***************************************************************************)
(* The inductive invariant                                                 *)
(***************************************************************************)

Body == {b \in SUBSET Records : IsFiniteSet(b)}

\* Where a record that a client was promised may be.
Safe == stored \cup Queued \cup discarded

\* The drain task works on the front of the queue: handlers only append, and
\* nobody else pops.
DrainHoldsFront ==
  /\ drain # "look" => queue.segs # <<>> /\ front = Head(queue.segs)
  /\ drain = "pop" => front \subseteq stored \cup discarded
  /\ ~up => drain = "look"

\* The process is down only when it may be started again.
DownMayRestart == ~up => restarts < MaxRestarts

\* A 200 that is still on its way is a promise too.
PromisedSafe ==
  \A h \in handlers : h.at = "200" => Mapped(h.export) \subseteq Safe

\* The inductive invariant.
IInv ==
  /\ TypeOK /\ queue \in QueueOf(Body)
  /\ DrainHoldsFront /\ DownMayRestart /\ PromisedSafe /\ AckedDurable

Handler == [export : Exports, try : 1..MaxTries,
            at : {"ingest", "push", "200", "400", "503"}]

(***************************************************************************)
(* Bodies and handlers                                                     *)
(***************************************************************************)

\* A body has a size.
LEMMA BodySize == \A b \in Body : Cardinality(b) \in Nat
  BY FS_CardinalityType DEF Body

\* What is left of an export after mapping is a body the queue can take.
LEMMA MappedIsBody == \A x \in Exports : Mapped(x) \in Body /\ Mapped(x) \subseteq x
<1> SUFFICES ASSUME NEW x \in Exports PROVE Mapped(x) \in Body /\ Mapped(x) \subseteq x
  OBVIOUS
<1>1. IsFiniteSet(x) /\ Mapped(x) \subseteq x /\ Mapped(x) \subseteq Records
  BY OtlpAssumption DEF Mapped, Records
<1>2. IsFiniteSet(Mapped(x))
  BY <1>1, FS_Subset
<1> QED BY <1>1, <1>2 DEF Body

\* A sequence of bodies holds records of exports.
LEMMA BodiesTyped ==
  ASSUME NEW s \in Seq(Body)
  PROVE  \A i \in DOMAIN s : s[i] \subseteq Records
  BY ContentsTyped DEF Body

\* Moving a handler on leaves the others where they are.
LEMMA MovedHandler ==
  ASSUME handlers \subseteq Handler, NEW h \in handlers,
         NEW at \in {"ingest", "push", "200", "400", "503"}
  PROVE  /\ Moved(h, at) \subseteq Handler
         /\ \A g \in Moved(h, at) : g \in handlers \/ (g.at = at /\ g.export = h.export)
<1>1. h \in Handler
  OBVIOUS
<1>2. [h EXCEPT !.at = at] \in Handler
  BY <1>1 DEF Handler
<1>3. [h EXCEPT !.at = at].at = at /\ [h EXCEPT !.at = at].export = h.export
  BY <1>1 DEF Handler
<1> QED BY <1>2, <1>3 DEF Moved

\* A step under which nothing promised is lost keeps both promises, when any
\* new 200 is for records that are safe.
LEMMA PromisesKept ==
  ASSUME IInv, Safe \subseteq Safe',
         \A h \in handlers' : h.at = "200" => h \in handlers \/ Mapped(h.export) \subseteq Safe',
         \A x \in acked' : x \in acked \/ Mapped(x) \subseteq Safe'
  PROVE  PromisedSafe' /\ AckedDurable'
<1>1. PromisedSafe'
  BY DEF IInv, PromisedSafe, Mapped
<1>2. AckedDurable'
  BY DEF IInv, AckedDurable, Safe, Mapped
<1> QED BY <1>1, <1>2

(***************************************************************************)
(* One step                                                                *)
(***************************************************************************)

LEMMA InitHolds == Init => IInv
<1> SUFFICES ASSUME Init PROVE IInv
  OBVIOUS
<1>1. queue \in QueueOf(Body) /\ queue.segs = <<>>
  BY QueueEmpty DEF Init
<1>2. /\ \A i \in DOMAIN queue.segs : queue.segs[i] \subseteq Records
      /\ queue.bytes \in Nat /\ queue.full \in BOOLEAN
  BY <1>1, BodiesTyped DEF QueueOf
<1>3. TypeOK
  BY <1>2, OtlpAssumption DEF Init, TypeOK
<1> QED BY <1>1, <1>3 DEF Init, IInv, DownMayRestart, DrainHoldsFront, PromisedSafe, AckedDurable

LEMMA SendHolds == ASSUME IInv, NEW x \in Exports, Send(x) PROVE IInv'
<1> DEFINE new == [export |-> x, try |-> tries'[x], at |-> "ingest"]
<1>1. /\ tries' \in [Exports -> 0..MaxTries] /\ tries'[x] \in 1..MaxTries
      /\ client' \in [Exports -> {"idle", "waiting", "acked", "refused", "failed"}]
  BY OtlpAssumption DEF IInv, TypeOK, Send
<1>2. handlers' = handlers \cup {new} /\ new \in Handler /\ new.at = "ingest"
  BY <1>1 DEF Send, Handler
<1>3. TypeOK' /\ (queue \in QueueOf(Body))'
  BY <1>1, <1>2 DEF IInv, TypeOK, Send, shipping, world, Handler, Records
<1>4. DrainHoldsFront' /\ DownMayRestart' /\ Safe' = Safe
  BY DEF IInv, DrainHoldsFront, DownMayRestart, Send, shipping, world, Safe, Queued
<1>5. PromisedSafe' /\ AckedDurable'
  BY <1>2, <1>4, PromisesKept DEF Send
<1> QED BY <1>3, <1>4, <1>5 DEF IInv

LEMMA GiveUpHolds == ASSUME IInv, NEW x \in Exports, GiveUp(x) PROVE IInv'
<1>1. TypeOK' /\ (queue \in QueueOf(Body))'
  BY DEF IInv, TypeOK, GiveUp, shipping, world, Records
<1>2. DrainHoldsFront' /\ DownMayRestart' /\ Safe' = Safe
  BY DEF IInv, DrainHoldsFront, DownMayRestart, GiveUp, shipping, world, Safe, Queued
<1>3. PromisedSafe' /\ AckedDurable'
  BY <1>2, PromisesKept DEF GiveUp
<1> QED BY <1>1, <1>2, <1>3 DEF IInv

LEMMA MapHolds == ASSUME IInv, NEW h \in handlers, Map(h) PROVE IInv'
<1>1. handlers \subseteq Handler
  BY DEF IInv, TypeOK, Handler
<1>2. PICK at \in {"400", "200", "push"} :
        handlers' = Moved(h, at) /\ (at = "200" => Mapped(h.export) = {})
  BY DEF Map
<1>3. /\ handlers' \subseteq Handler
      /\ \A g \in handlers' : g \in handlers \/ (g.at = at /\ g.export = h.export)
  BY <1>1, <1>2, MovedHandler
<1>4. TypeOK' /\ (queue \in QueueOf(Body))'
  BY <1>3 DEF IInv, TypeOK, Map, shipping, world, Handler, Records
<1>5. DrainHoldsFront' /\ DownMayRestart' /\ Safe' = Safe
  BY DEF IInv, DrainHoldsFront, DownMayRestart, Map, shipping, world, Safe, Queued
<1>6. PromisedSafe' /\ AckedDurable'
  BY <1>2, <1>3, <1>5, PromisesKept DEF Map
<1> QED BY <1>4, <1>5, <1>6 DEF IInv

LEMMA EnqueueHolds == ASSUME IInv, NEW h \in handlers, Enqueue(h) PROVE IInv'
<1>1. handlers \subseteq Handler /\ queue \in QueueOf(Body) /\ h.export \in Exports
  BY DEF IInv, TypeOK, Handler
<1> DEFINE b == Mapped(h.export)
<1>2. b \in Body
  BY <1>1, MappedIsBody
<1>3. PICK space \in BOOLEAN :
        /\ queue' = Pushed(queue, b, space)
        /\ handlers' = Moved(h, IF Accepts(queue, b, space) THEN "200" ELSE "503")
  BY DEF Enqueue
<1> DEFINE taken == Accepts(queue, b, space)
           at    == IF taken THEN "200" ELSE "503"
<1>4. /\ queue' \in QueueOf(Body) /\ taken \in BOOLEAN
      /\ queue'.segs = IF taken THEN Append(queue.segs, b) ELSE queue.segs
  BY <1>1, <1>2, <1>3, BodySize, QueuePushed
<1>5. /\ handlers' \subseteq Handler
      /\ \A g \in handlers' : g \in handlers \/ (g.at = at /\ g.export = h.export)
  BY <1>1, <1>3, MovedHandler
<1>6. TypeOK'
  <2>1. \A i \in DOMAIN queue'.segs : queue'.segs[i] \subseteq Records
    BY <1>4, BodiesTyped DEF QueueOf
  <2>2. queue'.bytes \in Nat /\ queue'.full \in BOOLEAN
    BY <1>4 DEF QueueOf
  <2> QED BY <1>5, <2>1, <2>2 DEF IInv, TypeOK, Enqueue, shipping, world, Handler, Records
<1>7. /\ queue.segs # <<>> => queue'.segs # <<>> /\ Head(queue'.segs) = Head(queue.segs)
      /\ Contents(queue.segs) \subseteq Contents(queue'.segs)
      /\ taken => b \subseteq Contents(queue'.segs)
  <2>1. queue.segs \in Seq(Body)
    BY <1>1 DEF QueueOf
  <2> QED BY <1>2, <1>4, <2>1, ContentsAppend
<1>8. DrainHoldsFront' /\ DownMayRestart'
  BY <1>7 DEF IInv, DrainHoldsFront, DownMayRestart, Enqueue, shipping, world
<1>9. Safe \subseteq Safe' /\ (taken => b \subseteq Safe')
  BY <1>7 DEF Enqueue, Safe, Queued, Contents
<1>10. PromisedSafe' /\ AckedDurable'
  BY <1>5, <1>9, PromisesKept DEF Enqueue
<1> QED BY <1>4, <1>6, <1>8, <1>10 DEF IInv

LEMMA AnswerHolds == ASSUME IInv, NEW h \in handlers, Answer(h) PROVE IInv'
<1>1. h.export \in Exports /\ handlers' \subseteq handlers
  BY DEF IInv, TypeOK, Answer
<1>2. acked' \subseteq Exports
      /\ client' \in [Exports -> {"idle", "waiting", "acked", "refused", "failed"}]
  BY <1>1 DEF IInv, TypeOK, Answer
<1>3. TypeOK' /\ (queue \in QueueOf(Body))'
  BY <1>1, <1>2 DEF IInv, TypeOK, Answer, shipping, world, Records
<1>4. DrainHoldsFront' /\ DownMayRestart' /\ Safe' = Safe
  BY DEF IInv, DrainHoldsFront, DownMayRestart, Answer, shipping, world, Safe, Queued
<1>5. \A x \in acked' : x \in acked \/ Mapped(x) \subseteq Safe'
  BY <1>4 DEF IInv, PromisedSafe, Answer
<1>6. PromisedSafe' /\ AckedDurable'
  BY <1>1, <1>4, <1>5, PromisesKept
<1> QED BY <1>3, <1>4, <1>6 DEF IInv

LEMMA DrainFrontHolds == ASSUME IInv, DrainFront PROVE IInv'
<1>1. queue.segs \in Seq(Body) /\ queue.segs # <<>>
  BY DEF IInv, QueueOf, DrainFront
<1>2. Head(queue.segs) \in Body
  BY <1>1, ContentsTail
<1>3. TypeOK' /\ (queue \in QueueOf(Body))'
  BY <1>2 DEF IInv, TypeOK, DrainFront, requests, world, Records, Body
<1>4. DrainHoldsFront' /\ DownMayRestart' /\ Safe' = Safe
  BY <1>1 DEF IInv, DrainHoldsFront, DownMayRestart, DrainFront, requests, world, Safe, Queued
<1>5. PromisedSafe' /\ AckedDurable'
  BY <1>4, PromisesKept DEF DrainFront, requests
<1> QED BY <1>3, <1>4, <1>5 DEF IInv

LEMMA DrainSendHolds == ASSUME IInv, DrainSend PROVE IInv'
<1>1. TypeOK' /\ (queue \in QueueOf(Body))'
  BY DEF IInv, TypeOK, DrainSend, requests, world, Records
<1>2. DrainHoldsFront' /\ DownMayRestart'
  BY DEF IInv, DrainHoldsFront, DownMayRestart, DrainSend, world
<1>3. Safe \subseteq Safe'
  BY DEF DrainSend, Safe, Queued
<1>4. PromisedSafe' /\ AckedDurable'
  BY <1>3, PromisesKept DEF DrainSend, requests
<1> QED BY <1>1, <1>2, <1>4 DEF IInv

LEMMA DrainFailsHolds == ASSUME IInv, DrainFails PROVE IInv'
<1>1. TypeOK' /\ (queue \in QueueOf(Body))'
  BY DEF IInv, TypeOK, DrainFails, requests, world, Records
<1>2. DrainHoldsFront' /\ DownMayRestart'
  BY DEF IInv, DrainHoldsFront, DownMayRestart, DrainFails, world
<1>3. Safe \subseteq Safe'
  BY DEF DrainFails, Safe, Queued
<1>4. PromisedSafe' /\ AckedDurable'
  BY <1>3, PromisesKept DEF DrainFails, requests
<1> QED BY <1>1, <1>2, <1>4 DEF IInv

\* The one step that takes records off the disk: they are the front's, and the
\* front has been stored or given up.
LEMMA DrainPopHolds == ASSUME IInv, DrainPop PROVE IInv'
<1>1. /\ queue \in QueueOf(Body) /\ queue.segs \in Seq(Body) /\ queue.segs # <<>>
      /\ front = Head(queue.segs) /\ front \subseteq stored \cup discarded
  BY DEF IInv, QueueOf, DrainHoldsFront, DrainPop
<1>2. queue' \in QueueOf(Body) /\ queue'.segs = Tail(queue.segs)
  BY <1>1, BodySize, QueuePopped DEF DrainPop
<1>3. Contents(queue.segs) = front \cup Contents(queue'.segs)
  BY <1>1, <1>2, ContentsTail
<1>4. TypeOK'
  <2>1. \A i \in DOMAIN queue'.segs : queue'.segs[i] \subseteq Records
    BY <1>2, BodiesTyped DEF QueueOf
  <2>2. queue'.bytes \in Nat /\ queue'.full \in BOOLEAN
    BY <1>2 DEF QueueOf
  <2> QED BY <2>1, <2>2 DEF IInv, TypeOK, DrainPop, requests, world, Records
<1>5. DrainHoldsFront' /\ DownMayRestart'
  BY DEF IInv, DrainHoldsFront, DownMayRestart, DrainPop, world
<1>6. Safe \subseteq Safe'
  BY <1>1, <1>3 DEF DrainPop, Safe, Queued, Contents
<1>7. PromisedSafe' /\ AckedDurable'
  BY <1>6, PromisesKept DEF DrainPop, requests
<1> QED BY <1>2, <1>4, <1>5, <1>7 DEF IInv

LEMMA CrashHolds == ASSUME IInv, Crash PROVE IInv'
<1>1. TypeOK' /\ (queue \in QueueOf(Body))'
  BY DEF IInv, TypeOK, Crash, Records
<1>2. DrainHoldsFront' /\ DownMayRestart' /\ Safe' = Safe
  BY DEF DrainHoldsFront, DownMayRestart, Crash, Safe, Queued
<1>3. PromisedSafe' /\ AckedDurable'
  BY <1>2, PromisesKept DEF Crash
<1> QED BY <1>1, <1>2, <1>3 DEF IInv

LEMMA RestartHolds == ASSUME IInv, Restart PROVE IInv'
<1>1. queue' \in QueueOf(Body) /\ queue'.segs = queue.segs
  BY QueueOpened DEF IInv, Restart
<1>2. TypeOK'
  BY <1>1, OtlpAssumption DEF IInv, TypeOK, DownMayRestart, Restart, requests, shipping, Records, QueueOf
<1>3. DrainHoldsFront' /\ DownMayRestart' /\ Safe' = Safe
  BY <1>1 DEF IInv, DrainHoldsFront, DownMayRestart, Restart, shipping, Safe, Queued
<1>4. PromisedSafe' /\ AckedDurable'
  BY <1>3, PromisesKept DEF Restart, requests
<1> QED BY <1>1, <1>2, <1>3, <1>4 DEF IInv

LEMMA DbFlipHolds == ASSUME IInv, DbFlip PROVE IInv'
<1>1. TypeOK' /\ (queue \in QueueOf(Body))'
  BY DEF IInv, TypeOK, DbFlip, requests, shipping, Records
<1>2. DrainHoldsFront' /\ DownMayRestart' /\ Safe' = Safe
  BY DEF IInv, DrainHoldsFront, DownMayRestart, DbFlip, shipping, Safe, Queued
<1>3. PromisedSafe' /\ AckedDurable'
  BY <1>2, PromisesKept DEF DbFlip, requests
<1> QED BY <1>1, <1>2, <1>3 DEF IInv

\* Every step keeps the inductive invariant.
LEMMA StepHolds == IInv /\ [Next]_vars => IInv'
<1> SUFFICES ASSUME IInv, [Next]_vars PROVE IInv'
  OBVIOUS
<1>1. CASE Handle
  BY <1>1, MapHolds, EnqueueHolds, AnswerHolds DEF Handle
<1>2. CASE Drain
  BY <1>2, DrainFrontHolds, DrainSendHolds, DrainFailsHolds, DrainPopHolds DEF Drain
<1>3. CASE \E x \in Exports : Send(x) \/ GiveUp(x)
  BY <1>3, SendHolds, GiveUpHolds
<1>4. CASE Crash \/ Restart \/ DbFlip
  BY <1>4, CrashHolds, RestartHolds, DbFlipHolds
<1>5. CASE UNCHANGED vars
  <2>1. TypeOK' /\ (queue \in QueueOf(Body))'
    BY <1>5 DEF IInv, TypeOK, vars, requests, shipping, world, Records
  <2>2. DrainHoldsFront' /\ DownMayRestart' /\ Safe' = Safe
    BY <1>5 DEF IInv, DrainHoldsFront, DownMayRestart, vars, shipping, world, Safe, Queued
  <2>3. PromisedSafe' /\ AckedDurable'
    BY <1>5, <2>2, PromisesKept DEF vars, requests
  <2> QED BY <2>1, <2>2, <2>3 DEF IInv
<1> QED BY <1>1, <1>2, <1>3, <1>4, <1>5 DEF Next

(***************************************************************************)
(* The theorems                                                            *)
(***************************************************************************)

LEMMA Invariance == Spec => []IInv
<1> QED BY InitHolds, StepHolds, PTL DEF Spec

\* The receiver's state keeps its type (otlp.rs: run, handle, drain).
THEOREM TypeCorrect == Spec => []TypeOK
<1>1. IInv => TypeOK
  BY DEF IInv
<1> QED BY <1>1, Invariance, PTL

\* The "ack trap" of otlp.rs:513 does not close: a 200 is answered only for
\* records that are on disk or in the database, and they stay in one of them, or
\* are refused by the server, whatever crashes, full disks and retries come
\* between.
THEOREM AckedDurableHolds == Spec => []AckedDurable
<1>1. IInv => AckedDurable
  BY DEF IInv
<1> QED BY <1>1, Invariance, PTL
=============================================================================
