--------------------------- MODULE PipelineProofs ---------------------------
(***************************************************************************)
(* Custody and CheckpointCovered of Pipeline, for every number of lines,   *)
(* batch size, in-flight bound, framer capacity, queue cap and number of   *)
(* restarts, with and without disk faults.                                 *)
(***************************************************************************)
EXTENDS Pipeline, FiniteSetTheorems, SequenceTheorems, TLAPS

QueueType == [segs : Seq(Body), bytes : Nat, full : BOOLEAN]

(***************************************************************************)
(* Bodies and sequences of bodies                                          *)
(***************************************************************************)

\* A body has a size: what Cardinality stands for in the queue's byte counts.
LEMMA BodySize == \A b \in Body : Cardinality(b) \in Nat
<1>1. IsFiniteSet(Lines)
  BY PipelineAssumption, FS_Interval DEF Lines
<1>2. IsFiniteSet(SUBSET Lines)
  BY <1>1, FS_SUBSET
<1>3. ASSUME NEW b \in Body PROVE Cardinality(b) \in Nat
  <2>1. b \in SUBSET (SUBSET Lines)
    BY DEF Body
  <2>2. IsFiniteSet(b)
    BY <1>2, <2>1, FS_Subset
  <2> QED BY <2>2, FS_CardinalityType
<1> QED BY <1>3

\* Appending a body adds its lines and no other.
LEMMA LinesInAppend ==
  ASSUME NEW s \in Seq(Body), NEW b \in Body
  PROVE  /\ Append(s, b) \in Seq(Body)
         /\ LinesIn(Append(s, b)) = LinesIn(s) \cup LinesOf(b)
<1>1. /\ Append(s, b) \in Seq(Body)
      /\ DOMAIN Append(s, b) = 1..(Len(s) + 1)
      /\ DOMAIN s = 1..Len(s)
      /\ Len(s) \in Nat
  BY AppendProperties, LenProperties
<1>2. \A i \in DOMAIN s : Append(s, b)[i] = s[i]
  BY <1>1, AppendProperties
<1>3. Append(s, b)[Len(s) + 1] = b
  BY AppendProperties
<1>4. DOMAIN Append(s, b) = DOMAIN s \cup {Len(s) + 1}
  BY <1>1
<1> QED BY <1>1, <1>2, <1>3, <1>4, Zenon DEF LinesIn

\* Taking the head off loses exactly the head's lines.
LEMMA LinesInTail ==
  ASSUME NEW s \in Seq(Body), s # <<>>
  PROVE  /\ Head(s) \in Body /\ Tail(s) \in Seq(Body)
         /\ LinesIn(s) = LinesOf(Head(s)) \cup LinesIn(Tail(s))
<1>1. /\ Head(s) \in Body /\ Tail(s) \in Seq(Body) /\ Head(s) = s[1]
      /\ Len(Tail(s)) = Len(s) - 1
      /\ \A i \in 1..Len(Tail(s)) : Tail(s)[i] = s[i + 1]
  BY HeadTailProperties
<1>2. /\ Len(s) \in Nat \ {0} /\ DOMAIN s = 1..Len(s)
      /\ DOMAIN Tail(s) = 1..(Len(s) - 1)
  BY <1>1, LenProperties, EmptySeq
<1>3. LinesOf(Head(s)) \subseteq LinesIn(s)
  <2>1. 1 \in DOMAIN s
    BY <1>2
  <2> QED BY <2>1, <1>1 DEF LinesIn
<1>4. LinesIn(Tail(s)) \subseteq LinesIn(s)
  <2> SUFFICES ASSUME NEW l, NEW i \in DOMAIN Tail(s), l \in LinesOf(Tail(s)[i])
               PROVE  l \in LinesIn(s)
    BY DEF LinesIn
  <2>1. i + 1 \in DOMAIN s /\ Tail(s)[i] = s[i + 1]
    BY <1>1, <1>2
  <2> QED BY <2>1 DEF LinesIn
<1>5. LinesIn(s) \subseteq LinesOf(Head(s)) \cup LinesIn(Tail(s))
  <2> SUFFICES ASSUME NEW l, NEW i \in DOMAIN s, l \in LinesOf(s[i]), l \notin LinesOf(Head(s))
               PROVE  l \in LinesIn(Tail(s))
    BY DEF LinesIn
  <2>1. i # 1
    BY <1>1
  <2>2. i - 1 \in DOMAIN Tail(s) /\ Tail(s)[i - 1] = s[i]
    BY <1>1, <1>2, <2>1
  <2> QED BY <2>2 DEF LinesIn
<1> QED BY <1>1, <1>3, <1>4, <1>5

\* No bodies, no lines.
LEMMA LinesInEmpty == LinesIn(<<>>) = {}
  BY DEF LinesIn

(***************************************************************************)
(* The queue's calls                                                       *)
(***************************************************************************)

\* push and push_forced: well-typed, and the body is in the queue iff it was
\* accepted (push) or the disk had space (push_forced).
LEMMA QueueCalls ==
  ASSUME NEW q \in QueueType, NEW b \in Body, NEW space \in BOOLEAN
  PROVE  /\ Pushed(q, b, space) \in QueueType
         /\ Forced(q, b, space) \in QueueType
         /\ Opened(q) \in QueueType
         /\ Forced(q, b, space).full
         /\ Opened(q).segs = q.segs
         /\ Accepts(q, b, space) => Pushed(q, b, space).segs = Append(q.segs, b)
         /\ Accepts(q, b, space) => Pushed(q, b, space).full = q.full
         /\ ~Accepts(q, b, space) => Pushed(q, b, space).segs = q.segs
         /\ space => Forced(q, b, space).segs = Append(q.segs, b)
         /\ ~space => Forced(q, b, space).segs = q.segs
<1>1. Cardinality(b) \in Nat
  BY BodySize
<1>2. Append(q.segs, b) \in Seq(Body)
  BY LinesInAppend DEF QueueType
<1>3. q.segs \in Seq(Body) /\ q.bytes \in Nat /\ q.full \in BOOLEAN
  BY DEF QueueType
<1>4. Accepts(q, b, space) \in BOOLEAN
  BY <1>1, <1>3 DEF Accepts
<1>5. q.bytes + Cardinality(b) \in Nat
  BY <1>1, <1>3
<1>6. Pushed(q, b, space) \in QueueType /\ Forced(q, b, space) \in QueueType
      /\ Opened(q) \in QueueType
  BY <1>2, <1>3, <1>5 DEF Pushed, Forced, Opened, Spooled, Paused, QueueType
<1> QED BY <1>6 DEF Pushed, Forced, Opened, Spooled, Paused

\* pop: well-typed, and it drops the front body and nothing else.
LEMMA QueuePop ==
  ASSUME NEW q \in QueueType, q.segs # <<>>
  PROVE  /\ Popped(q) \in QueueType
         /\ Popped(q).segs = Tail(q.segs)
<1>1. q.segs \in Seq(Body) /\ q.bytes \in Nat /\ q.full \in BOOLEAN
  BY DEF QueueType
<1>2. Head(q.segs) \in Body /\ Tail(q.segs) \in Seq(Body)
  BY <1>1, LinesInTail
<1>3. Cardinality(Head(q.segs)) \in Nat
  BY <1>2, BodySize
<1> QED BY <1>1, <1>2, <1>3, MaxBytesAssumption DEF Popped, QueueType

(***************************************************************************)
(* One step                                                                *)
(***************************************************************************)

\* What a crash cannot take, with the two named exceptions.
Kept == Durable \cup swallowed \cup passed

\* A step that records no progress keeps both properties when whatever it moves
\* out of memory ends up kept.
LEMMA Keeps ==
  ASSUME IInv, pos' = pos, ckpt' = ckpt, Kept \subseteq Kept',
         Volatile \subseteq Kept' \cup Volatile'
  PROVE  Custody' /\ CheckpointCovered'
<1>1. Custody' = (1..pos \subseteq Kept' \cup Volatile')
  BY DEF Custody, Kept
<1>2. CheckpointCovered' = (1..ckpt \subseteq Kept')
  BY DEF CheckpointCovered, Kept
<1>3. 1..pos \subseteq Kept \cup Volatile /\ 1..ckpt \subseteq Kept
  BY DEF IInv, Custody, CheckpointCovered, Kept
<1> QED BY <1>1, <1>2, <1>3

\* A step that moves nothing at all.
LEMMA KeepsUnmoved ==
  ASSUME IInv, UNCHANGED <<memory, files, stored, history>>
  PROVE  Custody' /\ CheckpointCovered'
<1>1. Kept' = Kept /\ Volatile' = Volatile
  BY DEF Kept, Durable, Volatile, InflightLines, LinesIn, LinesOf, memory, files, history
<1> QED BY <1>1, Keeps DEF memory, files

\* The steps that only move the program counter or the environment.
LEMMA QuietSteps ==
  ASSUME IInv,
         ReadDone \/ TimerFires \/ TimerSkips \/ FlushEmpty \/ NextPass \/ Shutdown
         \/ StopFlush \/ DbFlip \/ DiskFlip \/ UNCHANGED vars
  PROVE  IInv'
<1>1. UNCHANGED <<memory, files, stored, history>>
  BY DEF ReadDone, TimerFires, TimerSkips, FlushEmpty, NextPass, Shutdown, StopFlush,
         DbFlip, DiskFlip, vars, world
<1>2. TypeOK'
  <2>1. /\ pc' \in {"drain", "heldAck", "segAck", "read", "expire", "timer", "flush",
                    "ckpt", "idle", "stop"} \cup Halted
        /\ back' \in {"read", "ckpt"}
        /\ idle' \in BOOLEAN /\ drained' \in BOOLEAN /\ stopping' \in BOOLEAN
    BY DEF IInv, TypeOK, ReadDone, TimerFires, TimerSkips, FlushEmpty, NextPass,
           Shutdown, StopFlush, DbFlip, DiskFlip, vars, control
  <2>2. db' \in {"up", "down"} /\ disk' \in {"ok", "full"} /\ restarts' = restarts
    BY DEF IInv, TypeOK, ReadDone, TimerFires, TimerSkips, FlushEmpty, NextPass,
           Shutdown, StopFlush, DbFlip, DiskFlip, vars, world
  <2> QED BY <1>1, <2>1, <2>2 DEF IInv, TypeOK, memory, files, history
<1>3. Phase' /\ HeldPausesReading'
  BY DEF IInv, TypeOK, Phase, HeldPausesReading, ReadDone, TimerFires, TimerSkips,
         FlushEmpty, NextPass, Shutdown, StopFlush, DbFlip, DiskFlip, vars, control,
         memory, files, world, history
<1>4. AckedIsStored'
  BY DEF IInv, TypeOK, AckedIsStored, Acked, LinesOf, Rejected, ReadDone, TimerFires,
         TimerSkips, FlushEmpty, NextPass, Shutdown, StopFlush, DbFlip, DiskFlip, vars,
         control, memory, files, world, history
<1> QED BY <1>1, <1>2, <1>3, <1>4, KeepsUnmoved DEF IInv

\* The parts of a body are bodies, and their lines are lines.
LEMMA BodyParts ==
  ASSUME NEW b \in Body, NEW s \in SUBSET b
  PROVE  /\ s \in Body /\ b \ s \in Body /\ Rejected(b) \in SUBSET b
         /\ LinesOf(s) \in SUBSET Lines
         /\ LinesOf(b) = LinesOf(b \ s) \cup LinesOf(s)
  BY DEF Body, LinesOf, Rejected

\* The rejected records of a body and the others make it up.
LEMMA RejectedParts ==
  ASSUME NEW b \in Body
  PROVE  /\ LinesOf(Rejected(b)) \in SUBSET Lines
         /\ LinesOf(b) = LinesOf(b \ Rejected(b)) \cup LinesOf(Rejected(b))
  BY DEF Body, LinesOf, Rejected

\* Space came back: the held batch moves to the queue.
LEMMA DrainHeldToDiskStep == IInv /\ DrainHeldToDisk => IInv'
<1> SUFFICES ASSUME IInv, DrainHeldToDisk PROVE IInv'
  OBVIOUS
<1> DEFINE b == Head(held)
<1>1. queue \in QueueType /\ held \in Seq(Body) /\ held # <<>>
  BY DEF IInv, TypeOK, QueueType, DrainHeldToDisk
<1>2. /\ b \in Body /\ Tail(held) \in Seq(Body)
      /\ LinesIn(held) = LinesOf(b) \cup LinesIn(Tail(held))
  BY <1>1, LinesInTail
<1>3. /\ queue' \in QueueType /\ queue'.full
      /\ queue'.segs = Append(queue.segs, b)
  BY <1>1, <1>2, QueueCalls DEF DrainHeldToDisk
<1>4. LinesIn(queue'.segs) = LinesIn(queue.segs) \cup LinesOf(b)
  BY <1>1, <1>2, <1>3, LinesInAppend DEF QueueType
<1>5. TypeOK'
  BY <1>2, <1>3 DEF IInv, TypeOK, QueueType, DrainHeldToDisk, control, world, history
<1>6. Phase' /\ AckedIsStored' /\ HeldPausesReading'
  BY <1>3 DEF IInv, Phase, AckedIsStored, Acked, LinesOf, Rejected, HeldPausesReading,
              DrainHeldToDisk, control, world
<1>7. Kept \subseteq Kept' /\ Volatile \subseteq Kept' \cup Volatile'
  BY <1>2, <1>4
     DEF Kept, Durable, Volatile, InflightLines, DrainHeldToDisk, world, history, LinesOf
<1>8. Custody' /\ CheckpointCovered'
  BY <1>7, Keeps DEF DrainHeldToDisk
<1> QED BY <1>5, <1>6, <1>8 DEF IInv

\* The disk still refuses: the held batch is sent from memory, and stays held.
LEMMA DrainHeldSendStep == IInv /\ DrainHeldSend => IInv'
<1> SUFFICES ASSUME IInv, DrainHeldSend PROVE IInv'
  OBVIOUS
<1> DEFINE b == Head(held)
<1>1. queue \in QueueType /\ held \in Seq(Body) /\ held # <<>>
  BY DEF IInv, TypeOK, QueueType, DrainHeldSend
<1>2. b \in Body
  BY <1>1, LinesInTail
<1>3. queue' \in QueueType /\ queue'.full /\ queue'.segs = queue.segs
  BY <1>1, <1>2, QueueCalls DEF DrainHeldSend
<1>4. stored \subseteq stored' /\ stored' \in SUBSET Lines
  <2>1. stored \in SUBSET Lines
    BY DEF IInv, TypeOK
  <2>2. PICK s \in SUBSET b : stored' = stored \cup LinesOf(s)
    BY BodyParts, <1>2 DEF DrainHeldSend
  <2> QED BY <2>1, <2>2, BodyParts, <1>2
<1>5. pc' \in {"heldAck", "stopped", "read"} /\ (pc' = "heldAck" => Acked(b)')
  BY DEF DrainHeldSend, DrainReturn, Acked, memory, LinesOf, Rejected
<1>6. TypeOK'
  BY <1>3, <1>4, <1>5
     DEF IInv, TypeOK, Halted, QueueType, DrainHeldSend, memory, history
<1>7. Phase' /\ HeldPausesReading'
  BY <1>1, <1>3, <1>5 DEF IInv, Phase, HeldPausesReading, DrainHeldSend, memory
<1>8. AckedIsStored'
  <2>1. \A t \in inflight' : t.res = "ok" => Acked(t.recs)'
    BY <1>4 DEF IInv, AckedIsStored, Acked, LinesOf, Rejected, DrainHeldSend, memory
  <2> QED BY <2>1, <1>5 DEF AckedIsStored, DrainHeldSend, memory
<1>9. Kept \subseteq Kept' /\ Volatile \subseteq Kept' \cup Volatile'
  BY <1>3, <1>4
     DEF Kept, Durable, Volatile, InflightLines, DrainHeldSend, memory, history, LinesOf
<1>10. Custody' /\ CheckpointCovered'
  BY <1>9, Keeps DEF DrainHeldSend, memory
<1> QED BY <1>6, <1>7, <1>8, <1>10 DEF IInv

\* A held batch landed: its rejected records are quarantined, the rest stored.
LEMMA DrainHeldAckStep == IInv /\ DrainHeldAck => IInv'
<1> SUFFICES ASSUME IInv, DrainHeldAck PROVE IInv'
  OBVIOUS
<1> DEFINE b == Head(held)
<1>1. held \in Seq(Body) /\ held # <<>> /\ Acked(b)
  BY DEF IInv, TypeOK, Phase, AckedIsStored, DrainHeldAck
<1>2. /\ b \in Body /\ Tail(held) \in Seq(Body)
      /\ LinesIn(held) = LinesOf(b) \cup LinesIn(Tail(held))
  BY <1>1, LinesInTail
<1>3. /\ LinesOf(b) \subseteq stored \cup LinesOf(Rejected(b))
      /\ LinesOf(Rejected(b)) \in SUBSET Lines
  BY <1>1, <1>2, RejectedParts DEF Acked
<1>4. TypeOK'
  BY <1>2, <1>3 DEF IInv, TypeOK, DrainHeldAck, world, history
<1>5. Phase' /\ AckedIsStored' /\ HeldPausesReading'
  BY <1>1 DEF IInv, Phase, AckedIsStored, Acked, LinesOf, Rejected, HeldPausesReading,
              DrainHeldAck, world
<1>6. Kept \subseteq Kept' /\ Volatile \subseteq Kept' \cup Volatile'
  BY <1>2, <1>3
     DEF Kept, Durable, Volatile, InflightLines, DrainHeldAck, world, history, LinesOf
<1>7. Custody' /\ CheckpointCovered'
  BY <1>6, Keeps DEF DrainHeldAck
<1> QED BY <1>4, <1>5, <1>7 DEF IInv

\* The front segment is sent; it stays in the queue until it is popped.
LEMMA DrainSendStep == IInv /\ DrainSend => IInv'
<1> SUFFICES ASSUME IInv, DrainSend PROVE IInv'
  OBVIOUS
<1> DEFINE b == Head(queue.segs)
<1>1. queue.segs \in Seq(Body) /\ queue.segs # <<>> /\ held = <<>>
  BY DEF IInv, TypeOK, DrainSend
<1>2. b \in Body
  BY <1>1, LinesInTail
<1>3. stored \subseteq stored' /\ stored' \in SUBSET Lines
  <2>1. stored \in SUBSET Lines
    BY DEF IInv, TypeOK
  <2>2. PICK s \in SUBSET b : stored' = stored \cup LinesOf(s)
    BY BodyParts, <1>2 DEF DrainSend
  <2> QED BY <2>1, <2>2, BodyParts, <1>2
<1>4. pc' \in {"segAck", "stopped", "read"} /\ (pc' = "segAck" => Acked(b)')
  BY DEF DrainSend, DrainReturn, Acked, files, LinesOf, Rejected
<1>5. TypeOK'
  BY <1>3, <1>4 DEF IInv, TypeOK, Halted, DrainSend, memory, files, history
<1>6. Phase' /\ HeldPausesReading'
  BY <1>1, <1>4 DEF IInv, Phase, HeldPausesReading, DrainSend, memory, files
<1>7. AckedIsStored'
  <2>1. \A t \in inflight' : t.res = "ok" => Acked(t.recs)'
    BY <1>3 DEF IInv, AckedIsStored, Acked, LinesOf, Rejected, DrainSend, memory
  <2> QED BY <2>1, <1>4 DEF AckedIsStored, DrainSend, files
<1>8. Kept \subseteq Kept' /\ Volatile \subseteq Kept' \cup Volatile'
  BY <1>3
     DEF Kept, Durable, Volatile, InflightLines, DrainSend, memory, files, history, LinesOf
<1>9. Custody' /\ CheckpointCovered'
  BY <1>8, Keeps DEF DrainSend, memory, files
<1> QED BY <1>5, <1>6, <1>7, <1>9 DEF IInv

\* The front segment landed: quarantine its rejected records, then pop it.
LEMMA DrainPopStep == IInv /\ DrainPop => IInv'
<1> SUFFICES ASSUME IInv, DrainPop PROVE IInv'
  OBVIOUS
<1> DEFINE b == Head(queue.segs)
<1>1. /\ queue \in QueueType /\ queue.segs \in Seq(Body) /\ queue.segs # <<>>
      /\ Acked(b) /\ held = <<>>
  BY DEF IInv, TypeOK, QueueType, Phase, AckedIsStored, DrainPop
<1>2. /\ b \in Body
      /\ LinesIn(queue.segs) = LinesOf(b) \cup LinesIn(Tail(queue.segs))
  BY <1>1, LinesInTail
<1>3. queue' \in QueueType /\ queue'.segs = Tail(queue.segs)
  BY <1>1, QueuePop DEF DrainPop
<1>4. /\ LinesOf(b) \subseteq stored \cup LinesOf(Rejected(b))
      /\ LinesOf(Rejected(b)) \in SUBSET Lines
  BY <1>1, <1>2, RejectedParts DEF Acked
<1>5. TypeOK'
  BY <1>3, <1>4 DEF IInv, TypeOK, QueueType, DrainPop, memory, world, history
<1>6. Phase' /\ AckedIsStored' /\ HeldPausesReading'
  BY <1>1 DEF IInv, Phase, AckedIsStored, Acked, LinesOf, Rejected, HeldPausesReading,
              DrainPop, memory, world
<1>7. Kept \subseteq Kept' /\ Volatile \subseteq Kept' \cup Volatile'
  BY <1>2, <1>3, <1>4
     DEF Kept, Durable, Volatile, InflightLines, DrainPop, memory, world, history, LinesOf
<1>8. Custody' /\ CheckpointCovered'
  BY <1>7, Keeps DEF DrainPop, memory
<1> QED BY <1>5, <1>6, <1>8 DEF IInv

\* drain_queue's own checkpoint: what it goes past in memory is in `passed'.
LEMMA DrainDoneStep == IInv /\ DrainDone => IInv'
<1> SUFFICES ASSUME IInv, DrainDone PROVE IInv'
  OBVIOUS
<1>1. /\ UNCHANGED <<memory, queue, dead, world, gone, swallowed>>
      /\ pc' \in {"stopped", "read"} /\ UNCHANGED <<back, idle, drained, stopping>>
  BY DEF DrainDone, DrainReturn
<1>2. \/ UNCHANGED <<ckpt, passed>>
      \/ ckpt' = pos /\ passed' = passed \cup (Volatile \ Durable)
      \/ ckpt' = ckpt /\ ckpt' # pos /\ passed' = passed
  BY DEF DrainDone, SaveCheckpoint
<1>3. Durable' = Durable /\ Volatile' = Volatile
  BY <1>1 DEF Durable, Volatile, InflightLines, LinesOf, LinesIn, memory, world
<1>4. Durable \in SUBSET Lines /\ Volatile \in SUBSET Lines
  BY DEF IInv, TypeOK, Durable, Volatile, InflightLines, LinesIn, LinesOf, Body, Task
<1>5. passed' \in SUBSET Lines /\ ckpt' \in 0..pos /\ passed \subseteq passed'
  BY <1>2, <1>4 DEF IInv, TypeOK
<1>6. TypeOK'
  BY <1>1, <1>5 DEF IInv, TypeOK, Halted, memory, world
<1>7. Phase' /\ HeldPausesReading'
  BY <1>1 DEF IInv, Phase, HeldPausesReading, memory
<1>8. AckedIsStored'
  BY <1>1 DEF IInv, AckedIsStored, Acked, LinesOf, Rejected, memory, world
<1>9. Custody'
  BY <1>1, <1>3, <1>5 DEF IInv, Custody, memory
<1>10. CheckpointCovered'
  <2>1. CASE ckpt' = ckpt
    BY <2>1, <1>1, <1>3, <1>5 DEF IInv, CheckpointCovered
  <2>2. CASE ckpt' = pos /\ passed' = passed \cup (Volatile \ Durable)
    BY <2>2, <1>1, <1>3 DEF IInv, Custody, CheckpointCovered
  <2> QED BY <2>1, <2>2, <1>2
<1> QED BY <1>6, <1>7, <1>8, <1>9, <1>10 DEF IInv

\* A released record ends in the batch, the dead letter or a counted drop.
LEMMA AdmitKeeps ==
  ASSUME IInv, NEW r \in SUBSET Lines, Admit(r)
  PROVE  /\ batch' \in Body /\ dead' \in SUBSET Lines /\ gone' \in SUBSET Lines
         /\ dead \subseteq dead' /\ gone \subseteq gone'
         /\ LinesOf(batch) \subseteq LinesOf(batch')
         /\ r \subseteq dead' \cup gone' \cup LinesOf(batch')
<1>1. batch \in Body /\ dead \in SUBSET Lines /\ gone \in SUBSET Lines
  BY DEF IInv, TypeOK
<1>2. CASE r = {}
  BY <1>1, <1>2 DEF Admit
<1>3. CASE r # {} /\ r \cap Unmappable # {}
  BY <1>1, <1>3 DEF Admit
<1>4. CASE r # {} /\ r \cap Unmappable = {} /\ r \cap Dropped # {}
  BY <1>1, <1>4 DEF Admit
<1>5. CASE r # {} /\ r \cap Unmappable = {} /\ r \cap Dropped = {}
  BY <1>1, <1>5 DEF Admit, Body, LinesOf
<1> QED BY <1>2, <1>3, <1>4, <1>5

\* ReadLine: the line goes to the framer, and the record it releases is admitted.
LEMMA ReadLineStep == IInv /\ ReadLine => IInv'
<1> SUFFICES ASSUME IInv, ReadLine PROVE IInv'
  OBVIOUS
<1>1. PICK r \in Framed(pos + 1) :
        /\ pos' = pos + 1
        /\ pending' = (pending \cup {pos + 1}) \ r
        /\ Admit(r)
        /\ IF r # {} /\ Cardinality(batch') >= BatchLines /\ pending' = {}
             THEN pc' = "flush" /\ back' = "read"
             ELSE UNCHANGED <<pc, back>>
  BY DEF ReadLine
<1>2. /\ pc = "read" /\ pos < NLines /\ idle' = FALSE
      /\ UNCHANGED <<drained, stopping, inflight, held, queue, ckpt, world, swallowed, passed>>
  BY DEF ReadLine, CanRead
<1>3. pos + 1 \in Lines /\ pending \in SUBSET Lines /\ r \in SUBSET (pending \cup {pos + 1})
  BY <1>2, PipelineAssumption DEF IInv, TypeOK, Lines, Framed
<1>4. /\ batch' \in Body /\ dead' \in SUBSET Lines /\ gone' \in SUBSET Lines
      /\ dead \subseteq dead' /\ gone \subseteq gone'
      /\ LinesOf(batch) \subseteq LinesOf(batch')
      /\ r \subseteq dead' \cup gone' \cup LinesOf(batch')
  <2>1. r \in SUBSET Lines
    BY <1>3
  <2> QED BY <1>1, <2>1, AdmitKeeps
<1>5. pc' \in {"read", "flush"} /\ (pc' = "flush" => back' = "read") /\ back' \in {"read", "ckpt"}
  BY <1>1, <1>2 DEF IInv, TypeOK
<1>6. TypeOK'
  <2>1. pos' \in 0..NLines /\ ckpt' \in 0..pos'
    BY <1>1, <1>2, PipelineAssumption DEF IInv, TypeOK
  <2>2. pending' \in SUBSET Lines
    BY <1>1, <1>3
  <2> QED BY <1>2, <1>4, <1>5, <2>1, <2>2 DEF IInv, TypeOK, world
<1>7. Phase' /\ HeldPausesReading'
  BY <1>2, <1>5 DEF IInv, Phase, HeldPausesReading
<1>8. AckedIsStored'
  BY <1>2, <1>5 DEF IInv, AckedIsStored, Acked, LinesOf, Rejected, world
<1>9. Kept \subseteq Kept'
  BY <1>2, <1>4 DEF Kept, Durable, world, LinesIn, LinesOf
<1>10. Volatile \cup {pos + 1} \subseteq Kept' \cup Volatile'
  BY <1>1, <1>2, <1>4 DEF Kept, Durable, Volatile, InflightLines, LinesIn, LinesOf
<1>11. Custody'
  <2>1. 1..pos' = 1..pos \cup {pos + 1}
    BY <1>1 DEF IInv, TypeOK
  <2>2. 1..pos \subseteq Kept \cup Volatile
    BY DEF IInv, Custody, Kept
  <2> QED BY <2>1, <2>2, <1>9, <1>10 DEF Custody, Kept
<1>12. CheckpointCovered'
  <2>1. 1..ckpt \subseteq Kept
    BY DEF IInv, CheckpointCovered, Kept
  <2> QED BY <2>1, <1>2, <1>9 DEF CheckpointCovered, Kept
<1> QED BY <1>6, <1>7, <1>8, <1>11, <1>12 DEF IInv

\* ReadMalformed: a line the framer refuses becomes a dead letter.
LEMMA ReadMalformedStep == IInv /\ ReadMalformed => IInv'
<1> SUFFICES ASSUME IInv, ReadMalformed PROVE IInv'
  OBVIOUS
<1>1. pos + 1 \in Lines /\ pos' = pos + 1 /\ pos < NLines /\ dead' = dead \cup {pos + 1}
  BY PipelineAssumption DEF IInv, TypeOK, Lines, ReadMalformed, CanRead
<1>2. TypeOK'
  <2>1. pos' \in 0..NLines /\ ckpt' \in 0..pos'
    BY <1>1, PipelineAssumption DEF IInv, TypeOK, ReadMalformed
  <2> QED BY <1>1, <2>1 DEF IInv, TypeOK, ReadMalformed, world, history
<1>3. Phase' /\ HeldPausesReading' /\ AckedIsStored'
  BY DEF IInv, Phase, HeldPausesReading, AckedIsStored, Acked, LinesOf, Rejected,
         ReadMalformed, world
<1>4. Kept \subseteq Kept' /\ Volatile = Volatile' /\ pos + 1 \in Kept'
  BY <1>1 DEF Kept, Durable, Volatile, InflightLines, LinesIn, LinesOf, ReadMalformed,
              world, history
<1>5. Custody' /\ CheckpointCovered'
  <2>1. 1..pos' = 1..pos \cup {pos + 1}
    BY <1>1 DEF IInv, TypeOK
  <2>2. 1..pos \subseteq Kept \cup Volatile /\ 1..ckpt \subseteq Kept /\ ckpt' = ckpt
    BY DEF IInv, Custody, CheckpointCovered, Kept, ReadMalformed
  <2> QED BY <2>1, <2>2, <1>4 DEF Custody, CheckpointCovered, Kept
<1> QED BY <1>2, <1>3, <1>5 DEF IInv

\* Expire: a timed-out record leaves the framer and is admitted.
LEMMA ExpireStep == IInv /\ Expire => IInv'
<1> SUFFICES ASSUME IInv, Expire PROVE IInv'
  OBVIOUS
<1>1. PICK r \in SUBSET pending : pending' = pending \ r /\ Admit(r)
  BY DEF Expire
<1>2. pending \in SUBSET Lines /\ r \in SUBSET Lines
  BY <1>1 DEF IInv, TypeOK
<1>3. /\ batch' \in Body /\ dead' \in SUBSET Lines /\ gone' \in SUBSET Lines
      /\ dead \subseteq dead' /\ gone \subseteq gone'
      /\ LinesOf(batch) \subseteq LinesOf(batch')
      /\ r \subseteq dead' \cup gone' \cup LinesOf(batch')
  BY <1>1, <1>2, AdmitKeeps
<1>4. TypeOK'
  BY <1>1, <1>2, <1>3 DEF IInv, TypeOK, Expire, world
<1>5. Phase' /\ HeldPausesReading' /\ AckedIsStored'
  BY DEF IInv, Phase, HeldPausesReading, AckedIsStored, Acked, LinesOf, Rejected, Expire,
         world
<1>6. Kept \subseteq Kept' /\ Volatile \subseteq Kept' \cup Volatile'
  BY <1>1, <1>3 DEF Kept, Durable, Volatile, InflightLines, LinesIn, LinesOf, Expire, world
<1>7. Custody' /\ CheckpointCovered'
  BY <1>6, Keeps DEF Expire
<1> QED BY <1>4, <1>5, <1>7 DEF IInv

\* StopFrame: what shutdown drains from the framer is admitted or named swallowed.
LEMMA StopFrameStep == IInv /\ StopFrame => IInv'
<1> SUFFICES ASSUME IInv, StopFrame PROVE IInv'
  OBVIOUS
<1>1. PICK r \in SUBSET pending \ {{}} :
        /\ pending' = pending \ r
        /\ IF r \cap Unmappable # {}
             THEN swallowed' = swallowed \cup r /\ UNCHANGED <<batch, dead, gone>>
             ELSE Admit(r) /\ UNCHANGED swallowed
  BY DEF StopFrame
<1>2. pending \in SUBSET Lines /\ r \in SUBSET Lines
  BY <1>1 DEF IInv, TypeOK
<1>3. /\ batch' \in Body /\ dead' \in SUBSET Lines /\ gone' \in SUBSET Lines
      /\ swallowed' \in SUBSET Lines
      /\ dead \subseteq dead' /\ gone \subseteq gone' /\ swallowed \subseteq swallowed'
      /\ LinesOf(batch) \subseteq LinesOf(batch')
      /\ r \subseteq dead' \cup gone' \cup swallowed' \cup LinesOf(batch')
  <2>1. CASE r \cap Unmappable # {}
    BY <1>1, <1>2, <2>1 DEF IInv, TypeOK
  <2>2. CASE r \cap Unmappable = {}
    BY <1>1, <1>2, <2>2, AdmitKeeps DEF IInv, TypeOK
  <2> QED BY <2>1, <2>2
<1>4. TypeOK'
  BY <1>1, <1>2, <1>3 DEF IInv, TypeOK, StopFrame, control, world
<1>5. Phase' /\ HeldPausesReading' /\ AckedIsStored'
  BY DEF IInv, Phase, HeldPausesReading, AckedIsStored, Acked, LinesOf, Rejected,
         StopFrame, control, world
<1>6. Kept \subseteq Kept' /\ Volatile \subseteq Kept' \cup Volatile'
  BY <1>1, <1>3 DEF Kept, Durable, Volatile, InflightLines, LinesIn, LinesOf, StopFrame,
                    world
<1>7. Custody' /\ CheckpointCovered'
  BY <1>6, Keeps DEF StopFrame
<1> QED BY <1>4, <1>5, <1>7 DEF IInv

\* reap_one: a batch that did not ship ends in the queue or is held; one that
\* did has its rejected records quarantined.
LEMMA ReapKeeps ==
  ASSUME IInv, NEW t \in inflight, Reap(t)
  PROVE  /\ inflight' = inflight \ {t} /\ queue' \in QueueType /\ held' \in Seq(Body)
         /\ dead' \in SUBSET Lines /\ dead \subseteq dead'
         /\ LinesIn(queue.segs) \subseteq LinesIn(queue'.segs)
         /\ LinesIn(held) \subseteq LinesIn(held')
         /\ LinesOf(t.recs) \subseteq
              stored \cup dead' \cup LinesIn(queue'.segs) \cup LinesIn(held')
         /\ held' # <<>> => queue'.full
<1> DEFINE b == t.recs
<1>1. /\ b \in Body /\ t.res \in {"running", "ok", "err"} /\ held \in Seq(Body)
      /\ queue \in QueueType /\ queue.segs \in Seq(Body) /\ dead \in SUBSET Lines
      /\ Space \in BOOLEAN /\ (held # <<>> => queue.full)
  BY DEF IInv, TypeOK, Task, QueueType, Space, HeldPausesReading
<1>2. CASE t.res = "ok"
  <2>1. Acked(b)
    BY <1>2 DEF IInv, AckedIsStored
  <2>2. /\ LinesOf(b) \subseteq stored \cup LinesOf(Rejected(b))
        /\ LinesOf(Rejected(b)) \in SUBSET Lines
    BY <1>1, <2>1, RejectedParts DEF Acked
  <2> QED BY <1>1, <1>2, <2>2 DEF Reap
<1>3. CASE t.res = "err" /\ Accepts(queue, b, Space)
  <2>1. queue' = Pushed(queue, b, Space) /\ held' = held /\ dead' = dead /\ inflight' = inflight \ {t}
    BY <1>3 DEF Reap
  <2>2. /\ queue' \in QueueType /\ queue'.segs = Append(queue.segs, b)
        /\ queue'.full = queue.full
    BY <1>1, <1>3, <2>1, QueueCalls
  <2>3. LinesIn(queue'.segs) = LinesIn(queue.segs) \cup LinesOf(b)
    BY <1>1, <2>2, LinesInAppend
  <2> QED BY <1>1, <2>1, <2>2, <2>3
<1>4. CASE t.res = "err" /\ ~Accepts(queue, b, Space)
  <2> DEFINE q1 == Pushed(queue, b, Space)
  <2>1. /\ queue' = Forced(q1, b, Space) /\ dead' = dead /\ inflight' = inflight \ {t}
        /\ held' = IF Space THEN held ELSE Append(held, b)
    BY <1>4 DEF Reap
  <2>2. q1 \in QueueType /\ q1.segs = queue.segs
    BY <1>1, <1>4, QueueCalls
  <2> HIDE DEF q1
  <2>3. /\ Forced(q1, b, Space) \in QueueType /\ Forced(q1, b, Space).full
        /\ Space => Forced(q1, b, Space).segs = Append(q1.segs, b)
        /\ ~Space => Forced(q1, b, Space).segs = q1.segs
    BY <1>1, <2>2, QueueCalls
  <2>4. /\ queue' \in QueueType /\ queue'.full
        /\ Space => queue'.segs = Append(queue.segs, b)
        /\ ~Space => queue'.segs = queue.segs
    BY <2>1, <2>2, <2>3
  <2>5. /\ LinesIn(Append(queue.segs, b)) = LinesIn(queue.segs) \cup LinesOf(b)
        /\ LinesIn(Append(held, b)) = LinesIn(held) \cup LinesOf(b)
        /\ Append(held, b) \in Seq(Body)
    BY <1>1, LinesInAppend
  <2>6. CASE Space
    BY <1>1, <2>1, <2>4, <2>5, <2>6
  <2>7. CASE ~Space
    BY <1>1, <2>1, <2>4, <2>5, <2>7
  <2> QED BY <2>6, <2>7
<1> QED BY <1>1, <1>2, <1>3, <1>4 DEF Reap

\* A finished task is reaped by flush or by checkpoint_now: its batch is stored,
\* dead-lettered, queued or held.
LEMMA ReapStep == IInv /\ (FlushReap \/ CkptReap) => IInv'
<1> SUFFICES ASSUME IInv, FlushReap \/ CkptReap PROVE IInv'
  OBVIOUS
<1>1. PICK t \in inflight : Reap(t)
  BY DEF FlushReap, CkptReap
<1>2. /\ pc \in {"flush", "ckpt"}
      /\ UNCHANGED <<control, pos, pending, batch, ckpt, world, history>>
  BY DEF FlushReap, CkptReap
<1>3. /\ inflight' = inflight \ {t} /\ queue' \in QueueType /\ held' \in Seq(Body)
      /\ dead' \in SUBSET Lines /\ dead \subseteq dead'
      /\ LinesIn(queue.segs) \subseteq LinesIn(queue'.segs)
      /\ LinesIn(held) \subseteq LinesIn(held')
      /\ LinesOf(t.recs) \subseteq
           stored \cup dead' \cup LinesIn(queue'.segs) \cup LinesIn(held')
      /\ held' # <<>> => queue'.full
  BY <1>1, ReapKeeps
<1>4. TypeOK'
  BY <1>2, <1>3 DEF IInv, TypeOK, QueueType, control, world, history
<1>5. Phase' /\ HeldPausesReading'
  BY <1>2, <1>3 DEF IInv, Phase, HeldPausesReading, control
<1>6. AckedIsStored'
  BY <1>2, <1>3 DEF IInv, AckedIsStored, Acked, LinesOf, Rejected, control, world
<1>7. InflightLines \subseteq InflightLines' \cup LinesOf(t.recs)
  BY <1>3 DEF InflightLines
<1>8. Kept \subseteq Kept' /\ Volatile \subseteq Kept' \cup Volatile'
  BY <1>2, <1>3, <1>7 DEF Kept, Durable, Volatile, LinesOf, world, history
<1>9. Custody' /\ CheckpointCovered'
  BY <1>2, <1>8, Keeps
<1> QED BY <1>4, <1>5, <1>6, <1>9 DEF IInv

\* FlushSpawn: the batch moves into a ship task.
LEMMA FlushSpawnStep == IInv /\ FlushSpawn => IInv'
<1> SUFFICES ASSUME IInv, FlushSpawn PROVE IInv'
  OBVIOUS
<1> DEFINE t == [recs |-> batch, res |-> "running"]
<1>1. /\ inflight' = inflight \cup {t} /\ batch' = {} /\ pc' = back /\ pc = "flush"
      /\ UNCHANGED <<back, idle, drained, stopping, pos, pending, held, files, world, history>>
  BY DEF FlushSpawn
<1>2. t \in Task /\ t.recs = batch /\ t.res = "running" /\ {} \in Body
  BY DEF IInv, TypeOK, Task, Body
<1> HIDE DEF t
<1>3. TypeOK'
  BY <1>1, <1>2 DEF IInv, TypeOK, files, world, history
<1>4. Phase' /\ HeldPausesReading'
  BY <1>1 DEF IInv, TypeOK, Phase, HeldPausesReading, files
<1>5. AckedIsStored'
  BY <1>1, <1>2 DEF IInv, TypeOK, AckedIsStored, Acked, LinesOf, Rejected, files, world
<1>6. InflightLines' = InflightLines \cup LinesOf(batch)
  BY <1>1, <1>2 DEF InflightLines
<1>7. Kept \subseteq Kept' /\ Volatile \subseteq Kept' \cup Volatile'
  BY <1>1, <1>6 DEF Kept, Durable, Volatile, LinesIn, LinesOf, files, world, history
<1>8. Custody' /\ CheckpointCovered'
  BY <1>1, <1>7, Keeps DEF files
<1> QED BY <1>3, <1>4, <1>5, <1>8 DEF IInv

\* A ship task ends; its batch stays in the in-flight set until it is reaped.
LEMMA ShipDoneStep == IInv /\ ShipDone => IInv'
<1> SUFFICES ASSUME IInv, ShipDone PROVE IInv'
  OBVIOUS
<1>1. PICK t \in inflight :
        /\ t.res = "running"
        /\ \/ /\ db = "up"
              /\ inflight' = (inflight \ {t}) \cup {[t EXCEPT !.res = "ok"]}
              /\ stored' = stored \cup LinesOf(t.recs \ Rejected(t.recs))
           \/ /\ db = "down"
              /\ inflight' = (inflight \ {t}) \cup {[t EXCEPT !.res = "err"]}
              /\ \E some \in SUBSET (t.recs \ Rejected(t.recs)) :
                    stored' = stored \cup LinesOf(some)
  BY DEF ShipDone
<1>2. UNCHANGED <<control, pos, pending, batch, held, files, db, disk, restarts, history>>
  BY DEF ShipDone
<1>3. t \in Task /\ t.recs \in Body
  BY DEF IInv, TypeOK, Task
<1>4. stored \subseteq stored' /\ stored' \in SUBSET Lines
  <2>1. stored \in SUBSET Lines
    BY DEF IInv, TypeOK
  <2>2. PICK s \in SUBSET t.recs : stored' = stored \cup LinesOf(s)
    BY <1>1
  <2> QED BY <2>1, <2>2, BodyParts, <1>3
<1>5. PICK u \in Task :
        /\ inflight' = (inflight \ {t}) \cup {u} /\ u.recs = t.recs
        /\ u.res = "ok" => Acked(u.recs)'
  <2>1. CASE db = "up"
    <3>1. [t EXCEPT !.res = "ok"] \in Task /\ [t EXCEPT !.res = "ok"].recs = t.recs
      BY <1>3 DEF Task
    <3>2. Acked(t.recs)'
      BY <1>1, <2>1 DEF Acked, LinesOf, Rejected
    <3> QED BY <1>1, <2>1, <3>1, <3>2 DEF Acked
  <2>2. CASE db = "down"
    <3>1. /\ [t EXCEPT !.res = "err"] \in Task /\ [t EXCEPT !.res = "err"].recs = t.recs
          /\ [t EXCEPT !.res = "err"].res = "err"
      BY <1>3 DEF Task
    <3> QED BY <1>1, <2>2, <3>1
  <2> QED BY <1>1, <2>1, <2>2
<1>6. TypeOK'
  BY <1>2, <1>4, <1>5 DEF IInv, TypeOK, control, files, history
<1>7. Phase' /\ HeldPausesReading'
  BY <1>2 DEF IInv, Phase, HeldPausesReading, control, files
<1>8. AckedIsStored'
  BY <1>2, <1>4, <1>5 DEF IInv, AckedIsStored, Acked, LinesOf, Rejected, control, files
<1>9. InflightLines' = InflightLines
  BY <1>5 DEF InflightLines
<1>10. Kept \subseteq Kept' /\ Volatile \subseteq Kept' \cup Volatile'
  BY <1>2, <1>4, <1>9 DEF Kept, Durable, Volatile, LinesIn, LinesOf, files, history
<1>11. Custody' /\ CheckpointCovered'
  BY <1>2, <1>10, Keeps DEF files
<1> QED BY <1>6, <1>7, <1>8, <1>11 DEF IInv

\* checkpoint_now's save: nothing is in memory but held batches, and those pin it.
LEMMA CkptSaveStep == IInv /\ CkptSave => IInv'
<1> SUFFICES ASSUME IInv, CkptSave PROVE IInv'
  OBVIOUS
<1>1. /\ pc = "ckpt" /\ inflight = {} /\ pc' \in {"drain", "idle"} /\ drained' = FALSE
      /\ UNCHANGED <<back, idle, stopping, memory, queue, dead, world, history>>
  BY DEF CkptSave
<1>2. ckpt' = ckpt \/ (ckpt' = pos /\ held = <<>>)
  BY DEF CkptSave, SaveCheckpoint
<1>3. pending = {} /\ batch = {}
  BY <1>1 DEF IInv, Phase
<1>4. TypeOK'
  <2>1. ckpt' \in 0..pos' /\ pos' = pos
    BY <1>1, <1>2 DEF IInv, TypeOK, memory
  <2> QED BY <1>1, <2>1 DEF IInv, TypeOK, memory, world, history
<1>5. Phase' /\ HeldPausesReading'
  BY <1>1 DEF IInv, Phase, HeldPausesReading, memory
<1>6. AckedIsStored'
  BY <1>1 DEF IInv, AckedIsStored, Acked, LinesOf, Rejected, memory, world
<1>7. Kept' = Kept /\ Volatile' = Volatile /\ pos' = pos
  BY <1>1 DEF Kept, Durable, Volatile, InflightLines, LinesIn, LinesOf, memory, world, history
<1>8. held = <<>> => Volatile = {}
  BY <1>1, <1>3, LinesInEmpty DEF Volatile, InflightLines, LinesOf
<1>9. 1..pos \subseteq Kept \cup Volatile /\ 1..ckpt \subseteq Kept
  BY DEF IInv, Custody, CheckpointCovered, Kept
<1>10. Custody' /\ CheckpointCovered'
  BY <1>2, <1>7, <1>8, <1>9 DEF Custody, CheckpointCovered, Kept
<1> QED BY <1>4, <1>5, <1>6, <1>10 DEF IInv

\* The process ends: memory is lost, and the tailer will resume at the checkpoint.
LEMMA DieStep ==
  ASSUME IInv, pc' \in Halted \cup {"drain"},
         back' = "read" /\ idle' = TRUE /\ drained' = FALSE /\ stopping' = FALSE,
         pos' = ckpt /\ pending' = {} /\ batch' = {} /\ inflight' = {} /\ held' = <<>>,
         queue' = Opened(queue), restarts' \in 0..MaxRestarts,
         UNCHANGED <<ckpt, dead, stored, db, disk, history>>
  PROVE  IInv'
<1>1. queue \in QueueType
  BY DEF IInv, TypeOK, QueueType
<1>2. queue' \in QueueType /\ queue'.segs = queue.segs
  <2>1. {} \in Body
    BY DEF Body
  <2> QED BY <1>1, <2>1, QueueCalls
<1>3. TypeOK'
  <2>1. pos' \in 0..NLines /\ ckpt' \in 0..pos'
    BY PipelineAssumption DEF IInv, TypeOK
  <2>2. batch' \in Body /\ inflight' \in SUBSET Task /\ held' \in Seq(Body)
    BY EmptySeq DEF Body
  <2> QED BY <1>2, <2>1, <2>2 DEF IInv, TypeOK, QueueType, Halted, history
<1>4. Phase' /\ HeldPausesReading' /\ AckedIsStored'
  BY DEF Phase, HeldPausesReading, AckedIsStored, Halted
<1>5. Kept' = Kept
  BY <1>2 DEF Kept, Durable, LinesIn, LinesOf, history
<1>6. 1..ckpt \subseteq Kept
  BY DEF IInv, CheckpointCovered, Kept
<1>7. Custody' /\ CheckpointCovered'
  BY <1>5, <1>6 DEF Custody, CheckpointCovered, Kept
<1> QED BY <1>3, <1>4, <1>7 DEF IInv

\* A crash, the fatal dead-letter write and a restart all come down to DieStep.
LEMMA CrashStep == IInv /\ (Crash \/ DeadLetterFails \/ Restart) => IInv'
<1> SUFFICES ASSUME IInv, Crash \/ DeadLetterFails \/ Restart PROVE IInv'
  OBVIOUS
<1>1. restarts' \in 0..MaxRestarts
  BY PipelineAssumption DEF IInv, TypeOK, Crash, DeadLetterFails, Die, Restart, world
<1> QED BY <1>1, DieStep DEF Crash, DeadLetterFails, Die, Restart, world, Halted

(***************************************************************************)
(* The theorems                                                            *)
(***************************************************************************)

\* A fresh source satisfies the inductive invariant.
LEMMA InitIInv == Init => IInv
<1> SUFFICES ASSUME Init PROVE IInv
  OBVIOUS
<1>1. TypeOK
  <2>1. held \in Seq(Body) /\ queue.segs \in Seq(Body) /\ batch \in Body
    BY EmptySeq DEF Init, EmptyQueue, Body
  <2>2. queue \in [segs : Seq(Body), bytes : Nat, full : BOOLEAN]
    BY <2>1 DEF Init, EmptyQueue
  <2>3. pos \in 0..NLines /\ ckpt \in 0..pos /\ restarts \in 0..MaxRestarts
    BY PipelineAssumption DEF Init
  <2> QED BY <2>1, <2>2, <2>3 DEF Init, TypeOK
<1>2. Phase /\ AckedIsStored /\ HeldPausesReading
  BY DEF Init, Phase, AckedIsStored, HeldPausesReading
<1>3. 1..pos = {} /\ 1..ckpt = {}
  BY DEF Init
<1>4. Custody /\ CheckpointCovered
  BY <1>3 DEF Custody, CheckpointCovered
<1> QED BY <1>1, <1>2, <1>4 DEF IInv

\* The inductive invariant is preserved by every step.
LEMMA NextIInv == IInv /\ [Next]_vars => IInv'
  BY QuietSteps, DrainHeldToDiskStep, DrainHeldSendStep, DrainHeldAckStep, DrainSendStep,
     DrainPopStep, DrainDoneStep, ReadLineStep, ReadMalformedStep, ExpireStep,
     StopFrameStep, ReapStep, FlushSpawnStep, ShipDoneStep, CkptSaveStep, CrashStep
     DEF Next, Loop, Drain

\* The types of a file source's state, in every reachable state.
THEOREM TypeCorrect == Spec => []TypeOK
<1>1. IInv => TypeOK
  BY DEF IInv
<1> QED BY <1>1, InitIInv, NextIInv, PTL DEF Spec

\* No line the tailer handed out is ever out of the agent's hands, apart from the
\* two named exceptions: run_file_source, flush, reap_one, drain_queue.
THEOREM CustodyHolds == Spec => []Custody
<1>1. IInv => Custody
  BY DEF IInv
<1> QED BY <1>1, InitIInv, NextIInv, PTL DEF Spec

\* A crash skips no line that is not durable, apart from the two named
\* exceptions: save_checkpoint, checkpoint_now.
THEOREM CheckpointCoveredHolds == Spec => []CheckpointCovered
<1>1. IInv => CheckpointCovered
  BY DEF IInv
<1> QED BY <1>1, InitIInv, NextIInv, PTL DEF Spec

\* Held batches keep the reader paused (reap_one, push_forced, pop's hysteresis).
THEOREM HeldPausesReadingHolds == Spec => []HeldPausesReading
<1>1. IInv => HeldPausesReading
  BY DEF IInv
<1> QED BY <1>1, InitIInv, NextIInv, PTL DEF Spec
=============================================================================
