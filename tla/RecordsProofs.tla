---------------------------- MODULE RecordsProofs ----------------------------
(***************************************************************************)
(* TypeOK, FramingSound of Framers, ClaimSound of Watermark, NoGap of      *)
(* PullSource, LogSound of LogFile and ShippingHonest of Health, for every *)
(* value of their constants, over the composition MCRecords.               *)
(***************************************************************************)
EXTENDS
  MCRecords, FiniteSetTheorems, SequenceTheorems, FunctionTheorems, WellFoundedInduction, TLAPS

(***************************************************************************)
(* The sources read through a cursor                                       *)
(***************************************************************************)

\* The records in a sequence of bodies.
Contents(s) == UNION {s[i] : i \in DOMAIN s}

\* Where an entry is safe, or is one of the losses NoGap names.
Accounted == shipped \cup Contents(queue.segs) \cup purged \cup full \cup skipped

\* Every entry up to position c is accounted for.
Covered(c) == \A e \in P!Shippable : e <= c => e \in Accounted

PullTyped ==
  /\ reader \in {"journald", "winlog"}
  /\ at \in Nat /\ last \in Nat /\ ckpt \in Nat /\ appended \in Nat /\ oldest \in Nat
  /\ reading \subseteq P!Shippable
  /\ queue.segs \in Seq(SUBSET P!Shippable)

\* The saved cursor is covered.  The reader's position is covered too, up to the
\* entries of the batch while there is one that is not queued; the cursor to be
\* saved is never past it; and a segment is popped only once it is stored.
PullInv ==
  /\ PullTyped
  /\ Covered(ckpt)
  /\ last <= at /\ (pc = "start" => last = 0)
  /\ pc \in {"read", "push"} =>
       \A e \in P!Shippable : e <= at => e \in Accounted \cup reading
  /\ pc \in {"save", "drain", "pop", "turn"} => Covered(at)
  /\ pc = "pop" => queue.segs # <<>> /\ Head(queue.segs) \subseteq shipped

\* What has been accounted for stays so.
LEMMA CoveredGrows ==
  ASSUME NEW c, Covered(c), Accounted \subseteq Accounted'
  PROVE  \A e \in P!Shippable : e <= c => e \in Accounted'
  BY DEF Covered

LEMMA ShippableNat == P!Shippable \subseteq Nat /\ NEntries \in Nat /\ P!Entries = 1..NEntries
  BY RecordsAssumption DEF P!Shippable, P!Entries, P!PullSourceAssumption

LEMMA PullInit == P!Init => PullInv
<1> SUFFICES ASSUME P!Init PROVE PullInv
  OBVIOUS
<1>1. PullTyped
  BY DEF PullTyped, P!Init, P!EmptyQueue
<1>2. Covered(0)
  BY ShippableNat DEF Covered, P!Shippable
<1> QED BY <1>1, <1>2 DEF PullInv, P!Init

\* Steps that leave what is accounted for alone and move the loop on.
LEMMA PullMoves ==
  ASSUME PullInv,
         \/ P!ReadDone \/ P!PushNothing \/ P!DrainDone \/ P!Turn \/ P!Crash \/ P!Restart
         \/ P!AppendEntry \/ P!Purge \/ P!DbFlip \/ UNCHANGED pull
  PROVE  PullInv'
<1>1. UNCHANGED <<reader, queue, ckpt, shipped, full, purged, skipped>>
  BY DEF P!ReadDone, P!PushNothing, P!DrainDone, P!Turn, P!Crash, P!Restart, P!AppendEntry,
         P!Purge, P!DbFlip, pull, P!fixed, P!history
<1>2. Accounted' = Accounted /\ (\A c : Covered(c)' <=> Covered(c))
  BY <1>1 DEF Accounted, Covered, Contents, P!Shippable, P!Entries
<1>3. /\ at' \in Nat /\ last' \in Nat /\ appended' \in Nat /\ oldest' \in Nat
      /\ reading' \subseteq P!Shippable
      /\ last' <= at' /\ (pc' = "start" => last' = 0)
  BY DEF PullInv, PullTyped, P!ReadDone, P!PushNothing, P!DrainDone, P!Turn, P!Crash, P!Restart,
         P!AppendEntry, P!Purge, P!DbFlip, pull, P!loop, P!journal
<1>4. PullTyped'
  BY <1>1, <1>3 DEF PullInv, PullTyped
<1>5. Covered(ckpt)'
  BY <1>1, <1>2 DEF PullInv
<1>6. /\ pc' \in {"read", "push"} =>
           \A e \in P!Shippable : e <= at' => e \in Accounted' \cup reading'
      /\ pc' \in {"save", "drain", "pop", "turn"} => Covered(at')
      /\ pc' = "pop" => pc = "pop"
  <2>1. CASE P!ReadDone
    BY <1>2, <2>1 DEF PullInv, P!ReadDone
  <2>2. CASE P!PushNothing
    BY <1>2, <2>2 DEF PullInv, P!PushNothing, Covered
  <2>3. CASE P!DrainDone
    BY <1>2, <2>3 DEF PullInv, P!DrainDone
  <2>4. CASE P!Turn
    BY <1>2, <2>4 DEF PullInv, P!Turn, Covered
  <2>5. CASE P!Crash \/ P!Restart
    BY <2>5 DEF P!Crash, P!Restart
  <2>6. CASE P!AppendEntry \/ P!Purge \/ P!DbFlip \/ UNCHANGED pull
    BY <1>2, <2>6 DEF PullInv, P!AppendEntry, P!Purge, P!DbFlip, pull, P!loop
  <2> QED BY <2>1, <2>2, <2>3, <2>4, <2>5, <2>6
<1>7. pc' = "pop" => queue'.segs # <<>> /\ Head(queue'.segs) \subseteq shipped'
  BY <1>1, <1>6 DEF PullInv
<1>8. pc' \in {"save", "drain", "pop", "turn"} => Covered(at)'
  BY <1>2, <1>6 DEF Covered, P!Shippable, P!Entries
<1> QED BY <1>3, <1>4, <1>5, <1>6, <1>7, <1>8 DEF PullInv, P!Shippable, P!Entries

\* Start resumes at the saved cursor, or where seeking to it lands.
LEMMA PullStart == ASSUME PullInv, P!Start PROVE PullInv'
<1>1. /\ pc = "start" /\ pc' = "drain" /\ at' = P!Landed(ckpt)
      /\ purged' = purged \cup {e \in P!Between(ckpt, at' + 1) : e < oldest}
      /\ skipped' = skipped \cup {e \in P!Between(ckpt, at' + 1) : e >= oldest}
      /\ queue' = P!Opened(queue)
      /\ UNCHANGED <<reader, reading, last, ckpt, appended, oldest, shipped, full>>
  BY DEF P!Start, P!fixed, P!journal
<1>2. queue'.segs = queue.segs
  BY <1>1 DEF P!Opened, P!Paused
<1>3. at' \in Nat /\ ckpt \in Nat /\ oldest \in Nat /\ last = 0
  BY <1>1 DEF PullInv, PullTyped, P!Landed, P!LandedInJournal, P!LandedInChannel
<1>4. Accounted \subseteq Accounted'
  BY <1>1, <1>2 DEF Accounted, Contents
<1>5. Covered(ckpt)'
  BY <1>1, <1>4, CoveredGrows DEF PullInv, Covered
<1>6. Covered(at)'
  <2> SUFFICES ASSUME NEW e \in P!Shippable, e <= at' PROVE e \in Accounted'
    BY DEF Covered
  <2>1. CASE e <= ckpt
    BY <1>4, <2>1, CoveredGrows DEF PullInv
  <2>2. CASE ~(e <= ckpt)
    <3>1. e \in P!Entries /\ e \in Nat
      BY ShippableNat DEF P!Shippable
    <3>2. e \in P!Between(ckpt, at' + 1)
      <4>1. \A a, b, c \in Nat : a <= b /\ ~(a <= c) => c < a /\ a < b + 1
        OBVIOUS
      <4>2. ckpt < e /\ e < at' + 1
        BY <1>3, <2>2, <3>1, <4>1
      <4> QED BY <3>1, <4>2, Zenon DEF P!Between
    <3>3. e \in purged' \/ e \in skipped'
      BY <1>1, <1>3, <3>1, <3>2
    <3> QED BY <3>3 DEF Accounted
  <2> QED BY <2>1, <2>2
<1>7. PullTyped'
  BY <1>1, <1>2, <1>3 DEF PullInv, PullTyped
<1> QED BY <1>1, <1>3, <1>5, <1>6, <1>7 DEF PullInv

\* An entry is read: it is in the batch, or it maps to no record; those between
\* it and the one before have been purged.
LEMMA PullRead == ASSUME PullInv, P!Read PROVE PullInv'
<1>1. /\ pc = "read" /\ pc' \in {"read", "down"}
      /\ at' = P!After(at) /\ last' = P!After(at)
      /\ reading' = reading \cup ({at'} \cap P!Shippable)
      /\ purged' = purged \cup P!Between(at, at')
      /\ UNCHANGED <<reader, queue, ckpt, appended, oldest, shipped, full, skipped>>
  BY DEF P!Read, P!fixed, P!journal
<1>2. at \in Nat /\ at' \in Nat /\ at' > at
  BY <1>1 DEF PullInv, PullTyped, P!After
<1>3. Accounted \subseteq Accounted' /\ P!Between(at, at') \subseteq Accounted'
  BY <1>1 DEF Accounted, Contents
<1>4. \A e \in P!Shippable : e <= at' => e \in Accounted' \cup reading'
  <2> SUFFICES ASSUME NEW e \in P!Shippable, e <= at' PROVE e \in Accounted' \cup reading'
    OBVIOUS
  <2>1. e \in P!Entries /\ e \in Nat
    BY ShippableNat DEF P!Shippable
  <2>2. CASE e <= at
    BY <1>1, <1>3, <2>2 DEF PullInv
  <2>3. CASE e = at'
    BY <1>1, <2>3
  <2>4. CASE at < e /\ e < at'
    <3>1. e \in P!Between(at, at')
      BY <2>1, <2>4 DEF P!Between
    <3> QED BY <1>3, <3>1
  <2> QED BY <1>2, <2>1, <2>2, <2>3, <2>4
<1>5. PullTyped'
  BY <1>1, <1>2 DEF PullInv, PullTyped
<1>6. Covered(ckpt)'
  BY <1>1, <1>3, CoveredGrows DEF PullInv, Covered
<1>7. last' <= at'
  BY <1>1, <1>2
<1> QED BY <1>1, <1>4, <1>5, <1>6, <1>7 DEF PullInv, P!Shippable, P!Entries

\* Appending a body adds its records and no other, behind the same front.
LEMMA ContentsAppend ==
  ASSUME NEW B, NEW s \in Seq(B), NEW b \in B
  PROVE  /\ Append(s, b) \in Seq(B) /\ Append(s, b) # <<>>
         /\ Contents(Append(s, b)) = Contents(s) \cup b
         /\ s # <<>> => Head(Append(s, b)) = Head(s)
<1>1. /\ Append(s, b) \in Seq(B)
      /\ Len(Append(s, b)) = Len(s) + 1
      /\ DOMAIN Append(s, b) = 1..(Len(s) + 1)
      /\ DOMAIN s = 1..Len(s)
      /\ Len(s) \in Nat
  BY AppendProperties, LenProperties
<1>2. \A i \in DOMAIN s : Append(s, b)[i] = s[i]
  BY <1>1, AppendProperties
<1>3. Append(s, b)[Len(s) + 1] = b
  BY AppendProperties
<1>4. DOMAIN Append(s, b) = DOMAIN s \cup {Len(s) + 1}
  BY <1>1
<1>5. Contents(Append(s, b)) = Contents(s) \cup b
  BY <1>2, <1>3, <1>4, Zenon DEF Contents
<1>6. Append(s, b) # <<>>
  BY <1>1, EmptySeq
<1>7. ASSUME s # <<>> PROVE Head(Append(s, b)) = Head(s)
  <2>1. Head(s) = s[1] /\ 1 \in DOMAIN s
    BY <1>1, <1>7, HeadTailProperties, EmptySeq
  <2>2. Head(Append(s, b)) = Append(s, b)[1]
    BY <1>1, <1>6, HeadTailProperties
  <2> QED BY <1>2, <2>1, <2>2
<1> QED BY <1>1, <1>5, <1>6, <1>7

\* Taking the front off loses the front's records and keeps every other body.
LEMMA ContentsTail ==
  ASSUME NEW B, NEW s \in Seq(B), s # <<>>
  PROVE  /\ Head(s) \in B /\ Tail(s) \in Seq(B)
         /\ Contents(s) = Head(s) \cup Contents(Tail(s))
<1>1. /\ Head(s) \in B /\ Tail(s) \in Seq(B) /\ Head(s) = s[1]
      /\ Len(Tail(s)) = Len(s) - 1
      /\ \A i \in 1..Len(Tail(s)) : Tail(s)[i] = s[i + 1]
  BY HeadTailProperties
<1>2. /\ Len(s) \in Nat \ {0} /\ DOMAIN s = 1..Len(s)
      /\ DOMAIN Tail(s) = 1..(Len(s) - 1)
  BY <1>1, LenProperties, EmptySeq
<1>3. Head(s) \subseteq Contents(s)
  <2>1. 1 \in DOMAIN s
    BY <1>2
  <2> QED BY <2>1, <1>1 DEF Contents
<1>4. Contents(Tail(s)) \subseteq Contents(s)
  <2> SUFFICES ASSUME NEW r, NEW i \in DOMAIN Tail(s), r \in Tail(s)[i]
               PROVE  r \in Contents(s)
    BY DEF Contents
  <2>1. i + 1 \in DOMAIN s /\ Tail(s)[i] = s[i + 1]
    BY <1>1, <1>2
  <2> QED BY <2>1 DEF Contents
<1>5. Contents(s) \subseteq Head(s) \cup Contents(Tail(s))
  <2> SUFFICES ASSUME NEW r, NEW i \in DOMAIN s, r \in s[i], r \notin Head(s)
               PROVE  r \in Contents(Tail(s))
    BY DEF Contents
  <2>1. i # 1
    BY <1>1
  <2>2. i - 1 \in DOMAIN Tail(s) /\ Tail(s)[i - 1] = s[i]
    BY <1>1, <1>2, <2>1
  <2> QED BY <2>2 DEF Contents
<1> QED BY <1>1, <1>3, <1>4, <1>5

\* The batch is queued, or it is one the queue refused.
LEMMA PullPush == ASSUME PullInv, P!Push PROVE PullInv'
<1>1. /\ pc = "push" /\ pc' = "save"
      /\ UNCHANGED <<reader, at, reading, last, ckpt, appended, oldest, shipped, purged, skipped>>
  BY DEF P!Push, P!fixed, P!journal
<1>2. PICK space \in BOOLEAN :
        /\ queue' = P!Pushed(queue, reading, space)
        /\ full' = IF P!Accepts(queue, reading, space) THEN full ELSE full \cup reading
  BY DEF P!Push
<1>3. /\ Append(queue.segs, reading) \in Seq(SUBSET P!Shippable)
      /\ Contents(Append(queue.segs, reading)) = Contents(queue.segs) \cup reading
  <2> DEFINE B == SUBSET P!Shippable
             t == queue.segs
  <2>1. t \in Seq(B) /\ reading \in B
    BY DEF PullInv, PullTyped
  <2> HIDE DEF B, t
  <2>2. Append(t, reading) \in Seq(B) /\ Contents(Append(t, reading)) = Contents(t) \cup reading
    BY <2>1, ContentsAppend
  <2> QED BY <2>2 DEF B, t
<1>4. queue'.segs \in Seq(SUBSET P!Shippable) /\ Accounted' = Accounted \cup reading
  <2>1. CASE P!Accepts(queue, reading, space)
    <3>1. queue'.segs = Append(queue.segs, reading) /\ full' = full
      BY <1>2, <2>1 DEF P!Pushed, P!Spooled
    <3>2. Contents(queue'.segs) = Contents(queue.segs) \cup reading
      BY <1>3, <3>1
    <3>3. Accounted' = shipped \cup Contents(queue'.segs) \cup purged \cup full \cup skipped
      BY <1>1, <3>1 DEF Accounted, Contents
    <3> QED BY <1>3, <3>1, <3>2, <3>3 DEF Accounted
  <2>2. CASE ~P!Accepts(queue, reading, space)
    <3>1. queue'.segs = queue.segs /\ full' = full \cup reading
      BY <1>2, <2>2 DEF P!Pushed, P!Paused
    <3>2. Accounted' = shipped \cup Contents(queue.segs) \cup purged \cup full' \cup skipped
      BY <1>1, <3>1 DEF Accounted, Contents
    <3> QED BY <3>1, <3>2 DEF PullInv, PullTyped, Accounted
  <2> QED BY <2>1, <2>2
<1>5. PullTyped'
  BY <1>1, <1>4 DEF PullInv, PullTyped
<1>6. Covered(ckpt)' /\ Covered(at)'
  BY <1>1, <1>4 DEF PullInv, Covered, P!Shippable, P!Entries
<1> QED BY <1>1, <1>5, <1>6 DEF PullInv

\* The cursor is saved once the batch behind it is queued.
LEMMA PullSave == ASSUME PullInv, P!Save PROVE PullInv'
<1>1. /\ pc = "save" /\ pc' \in {"drain", "turn", "down"} /\ ckpt' \in {ckpt, last}
      /\ UNCHANGED <<reader, queue, at, reading, last, appended, oldest, shipped, full, purged, skipped>>
  BY DEF P!Save, P!fixed, P!journal, P!history
<1>2. Accounted' = Accounted
  BY <1>1 DEF Accounted, Contents
<1>3. Covered(at) /\ Covered(ckpt) /\ last <= at /\ last \in Nat /\ at \in Nat
  BY <1>1 DEF PullInv, PullTyped
<1>4. Covered(last)
  BY <1>3, ShippableNat DEF Covered
<1>5. Covered(ckpt)' /\ Covered(at)'
  BY <1>1, <1>2, <1>3, <1>4 DEF Covered, P!Shippable, P!Entries
<1>6. PullTyped'
  BY <1>1 DEF PullInv, PullTyped
<1> QED BY <1>1, <1>3, <1>5, <1>6 DEF PullInv

\* A segment is sent, in part or as a whole, and popped when it is stored.
LEMMA PullDrain ==
  ASSUME PullInv, P!DrainSend \/ P!DrainPop \/ P!DrainFails
  PROVE  PullInv'
<1>1. /\ pc \in {"drain", "pop"} /\ pc' \in {"pop", "turn", "drain"}
      /\ UNCHANGED <<reader, at, reading, last, ckpt, appended, oldest, full, purged, skipped>>
  BY DEF P!DrainSend, P!DrainPop, P!DrainFails, P!fixed, P!journal, P!history
<1>2. /\ queue.segs \in Seq(SUBSET P!Shippable) /\ queue.segs # <<>>
      /\ Tail(queue.segs) \in Seq(SUBSET P!Shippable)
      /\ Contents(queue.segs) = Head(queue.segs) \cup Contents(Tail(queue.segs))
  <2> DEFINE B == SUBSET P!Shippable
             t == queue.segs
  <2>1. t \in Seq(B) /\ t # <<>>
    BY DEF PullInv, PullTyped, P!DrainSend, P!DrainPop, P!DrainFails
  <2> HIDE DEF B, t
  <2>2. Tail(t) \in Seq(B) /\ Contents(t) = Head(t) \cup Contents(Tail(t))
    BY <2>1, ContentsTail
  <2> QED BY <2>1, <2>2 DEF B, t
<1>3. /\ queue'.segs \in Seq(SUBSET P!Shippable) /\ Accounted \subseteq Accounted'
      /\ pc' = "pop" => queue'.segs # <<>> /\ Head(queue'.segs) \subseteq shipped'
  <2>1. CASE P!DrainPop
    <3>1. /\ queue'.segs = Tail(queue.segs) /\ shipped' = shipped /\ pc' = "drain"
          /\ Head(queue.segs) \subseteq shipped
      BY <2>1 DEF P!DrainPop, P!Popped, PullInv
    <3>2. Accounted' = shipped \cup Contents(Tail(queue.segs)) \cup purged \cup full \cup skipped
      BY <1>1, <3>1 DEF Accounted, Contents
    <3> QED BY <1>2, <3>1, <3>2 DEF Accounted
  <2>2. CASE P!DrainSend \/ P!DrainFails
    <3>1. /\ queue' = queue /\ shipped \subseteq shipped'
          /\ pc' = "pop" => Head(queue.segs) \subseteq shipped'
      BY <2>2 DEF P!DrainSend, P!DrainFails
    <3>2. Accounted' = shipped' \cup Contents(queue.segs) \cup purged \cup full \cup skipped
      BY <1>1, <3>1 DEF Accounted, Contents
    <3> QED BY <1>2, <3>1, <3>2 DEF Accounted
  <2> QED BY <2>1, <2>2
<1>4. PullTyped'
  BY <1>1, <1>3 DEF PullInv, PullTyped
<1>5. Covered(ckpt) /\ Covered(at)
  BY <1>1 DEF PullInv
<1>6. Covered(ckpt)' /\ Covered(at)'
  BY <1>1, <1>3, <1>5 DEF Covered, P!Shippable, P!Entries
<1> QED BY <1>1, <1>3, <1>4, <1>6 DEF PullInv

LEMMA PullNext == ASSUME PullInv, P!Next \/ UNCHANGED pull PROVE PullInv'
  BY PullStart, PullRead, PullPush, PullSave, PullDrain, PullMoves DEF P!Next, P!Agent

LEMMA PullNoGap == PullInv => P!NoGap
  BY DEF PullInv, Covered, Accounted, Contents, P!NoGap, P!Behind, P!Queued

(***************************************************************************)
(* /healthz                                                                *)
(***************************************************************************)

HandlerType == [at : {"done", "sum", "load"}, sum : BOOLEAN, next : Nat \ {0}]

\* What a request under way knows.  Every snapshot that shows no backlog now
\* is one it has a witness for; so are those it has gone past, while its sum is
\* clear; and so are all of them, while the aggregate that is its own is.
Knows(h) ==
  /\ handler[h].at # "done" => \A i \in DOMAIN snaps : ~snaps[i] => i \in clear[h]
  /\ handler[h].at = "sum" /\ ~handler[h].sum =>
       \A i \in DOMAIN snaps : i < handler[h].next => i \in clear[h]
  /\ handler[h].at = "load" /\ h \notin raced /\ ~cache => DOMAIN snaps \subseteq clear[h]

\* The inductive invariant of the requests.
HealthInv ==
  /\ snaps \in Seq(BOOLEAN) /\ cache \in BOOLEAN
  /\ handler \in [Handlers -> HandlerType] /\ clear \in [Handlers -> SUBSET Nat]
  /\ \A h \in Handlers : Knows(h)

\* Requests go on knowing what they know when snapshots change or are added,
\* since clear is kept up with them.
LEMMA SnapshotsChange ==
  ASSUME HealthInv, snaps' \in Seq(BOOLEAN), UNCHANGED <<handler, cache, raced>>,
         DOMAIN snaps \subseteq DOMAIN snaps',
         \A i \in DOMAIN snaps' : i \notin DOMAIN snaps => ~snaps'[i],
         \A i \in DOMAIN snaps : i \in 1..Len(snaps) /\ i \in 1..Len(snaps'),
         clear' = H!Witness(snaps')
  PROVE  HealthInv'
<1>1. \A h \in Handlers : handler[h].at # "done" =>
        \A i : i \in clear'[h] <=> (i \in clear[h] \/ (i \in DOMAIN snaps' /\ ~snaps'[i]))
  BY DEF H!Witness, H!Clear
<1>2. ASSUME NEW h \in Handlers PROVE Knows(h)'
  <2>1. Knows(h)
    BY DEF HealthInv
  <2>2. handler[h].at # "done" => \A i \in DOMAIN snaps' : ~snaps'[i] => i \in clear'[h]
    BY <1>1
  <2>3. handler[h].at = "sum" /\ ~handler[h].sum =>
          \A i \in DOMAIN snaps' : i < handler[h].next => i \in clear'[h]
    BY <1>1, <2>1 DEF Knows
  <2>4. handler[h].at = "load" /\ h \notin raced /\ ~cache => DOMAIN snaps' \subseteq clear'[h]
    BY <1>1, <2>1 DEF Knows
  <2> QED BY <2>2, <2>3, <2>4 DEF Knows
<1>3. clear' \in [Handlers -> SUBSET Nat]
  <2>1. H!Clear(snaps') \subseteq Nat
    BY LenProperties DEF H!Clear
  <2> QED BY <2>1 DEF H!Witness, HealthInv
<1> QED BY <1>2, <1>3 DEF HealthInv, HandlerType

\* Steps of the loops and of the clock.
LEMMA HealthLoops ==
  ASSUME HealthInv, NEW l \in Loops,
         H!Spawn(l) \/ H!Work(l) \/ H!Publish(l) \/ H!Leave(l) \/ H!Second \/ UNCHANGED health
  PROVE  HealthInv'
<1>1. UNCHANGED <<handler, cache, raced>>
  BY DEF H!Spawn, H!Work, H!Publish, H!Leave, H!Second, health, H!requests
<1>2. snaps \in Seq(BOOLEAN) /\ DOMAIN snaps = 1..Len(snaps) /\ Len(snaps) \in Nat
  BY LenProperties DEF HealthInv
<1>3. CASE H!Spawn(l)
  <2>1. snaps' = Append(snaps, FALSE) /\ clear' = H!Witness(snaps')
    BY <1>3 DEF H!Spawn
  <2>2. /\ snaps' \in Seq(BOOLEAN) /\ DOMAIN snaps' = 1..(Len(snaps) + 1)
        /\ Len(snaps') = Len(snaps) + 1 /\ snaps'[Len(snaps) + 1] = FALSE
    BY <1>2, <2>1, AppendProperties
  <2> QED BY <1>1, <1>2, <2>1, <2>2, SnapshotsChange
<1>4. CASE H!Publish(l)
  <2>1. clear' = H!Witness(snaps')
    BY <1>4 DEF H!Publish
  <2>2. snaps' \in [1..Len(snaps) -> BOOLEAN]
    <3>1. snaps \in [1..Len(snaps) -> BOOLEAN]
      BY <1>2
    <3>2. snaps' = snaps \/ \E b \in BOOLEAN : snaps' = [snaps EXCEPT ![snapOf[l]] = b]
      <4>1. (l \in queued) \in BOOLEAN
        OBVIOUS
      <4> QED BY <1>4, <4>1 DEF H!Publish
    <3> QED BY <3>1, <3>2
  <2>3. snaps' \in Seq(BOOLEAN) /\ DOMAIN snaps' = DOMAIN snaps /\ Len(snaps') = Len(snaps)
    BY <1>2, <2>2
  <2> QED BY <1>1, <1>2, <2>1, <2>3, SnapshotsChange
<1>5. CASE H!Work(l) \/ H!Leave(l) \/ H!Second \/ UNCHANGED health
  <2>1. UNCHANGED <<snaps, clear>>
    BY <1>5 DEF H!Work, H!Leave, H!Second, health, H!requests
  <2> QED BY <1>1, <2>1 DEF HealthInv, Knows, HandlerType
<1> QED BY <1>3, <1>4, <1>5
  DEF H!Spawn, H!Work, H!Publish, H!Leave, H!Second

\* A handler that has moved on.
LEMMA HandlerMoves ==
  ASSUME NEW x \in HandlerType, NEW to \in {"done", "sum", "load"}
  PROVE  /\ [x EXCEPT !.at = to] \in HandlerType
         /\ [x EXCEPT !.at = to].at = to /\ [x EXCEPT !.at = to].next = x.next
<1>1. x.sum \in BOOLEAN /\ x.next \in Nat \ {0}
  BY DEF HandlerType
<1>2. [x EXCEPT !.at = to] = [at |-> to, sum |-> x.sum, next |-> x.next]
  BY DEF HandlerType
<1> QED BY <1>1, <1>2 DEF HandlerType

LEMMA HandlerSums ==
  ASSUME NEW x \in HandlerType, NEW s \in BOOLEAN, NEW n \in Nat \ {0}
  PROVE  /\ [x EXCEPT !.sum = s, !.next = n] \in HandlerType
         /\ [x EXCEPT !.sum = s, !.next = n].at = x.at
         /\ [x EXCEPT !.sum = s, !.next = n].next = n
         /\ [x EXCEPT !.sum = s, !.next = n].sum <=> s
<1>1. [x EXCEPT !.sum = s, !.next = n] \in HandlerType
  BY DEF HandlerType
<1>2. /\ [x EXCEPT !.sum = s, !.next = n].at = x.at
      /\ [x EXCEPT !.sum = s, !.next = n].next = n
  BY DEF HandlerType
<1>3. [x EXCEPT !.sum = s, !.next = n].sum <=> s
  BY DEF HandlerType
<1> QED BY <1>1, <1>2, <1>3

LEMMA DoneTyped == H!Done \in HandlerType /\ H!Done.at = "done" /\ H!Done.next = 1
  BY DEF H!Done, HandlerType

LEMMA HealthInit == H!Init => HealthInv
<1> SUFFICES ASSUME H!Init PROVE HealthInv
  OBVIOUS
<1>1. \A h \in Handlers : handler[h] = H!Done /\ H!Done \in HandlerType /\ H!Done.at = "done"
  BY DEF H!Init, H!Done, HandlerType
<1>2. handler \in [Handlers -> HandlerType]
  BY <1>1 DEF H!Init
<1>3. \A h \in Handlers : Knows(h)
  BY <1>1 DEF Knows
<1>4. snaps \in Seq(BOOLEAN) /\ cache \in BOOLEAN
  <2>1. snaps = <<>> /\ cache = FALSE
    BY DEF H!Init
  <2>2. cache \in BOOLEAN
    BY <2>1, Zenon
  <2> QED BY <2>1, <2>2
<1>5. clear \in [Handlers -> SUBSET Nat]
  BY DEF H!Init
<1> QED BY <1>2, <1>3, <1>4, <1>5 DEF HealthInv

\* One request moves; the others know what they knew.
LEMMA RequestMoves ==
  ASSUME HealthInv, NEW h \in Handlers, NEW r \in HandlerType,
         handler' = [handler EXCEPT ![h] = r], UNCHANGED <<snaps, cache>>,
         clear' \in [Handlers -> SUBSET Nat],
         \A g \in Handlers : g # h => clear'[g] = clear[g] /\ (g \in raced => g \in raced'),
         Knows(h)'
  PROVE  HealthInv'
<1>1. /\ handler' \in [Handlers -> HandlerType]
      /\ \A g \in Handlers : g # h => handler'[g] = handler[g]
  BY DEF HealthInv
<1>2. ASSUME NEW g \in Handlers, g # h PROVE Knows(g)'
  <2>1. Knows(g) /\ handler'[g] = handler[g] /\ clear'[g] = clear[g] /\ (g \in raced => g \in raced')
    BY <1>1, <1>2 DEF HealthInv
  <2> QED BY <2>1 DEF Knows
<1> QED BY <1>1, <1>2 DEF HealthInv, HandlerType

\* A request is answered afresh: what shows no backlog now is witnessed.
LEMMA HealthAsk == ASSUME HealthInv, NEW h \in Handlers, H!Ask(h) PROVE HealthInv'
<1> DEFINE r == [H!Done EXCEPT !.at = "sum"]
<1>1. /\ UNCHANGED <<snaps, cache>> /\ handler' = [handler EXCEPT ![h] = r]
      /\ clear' = [clear EXCEPT ![h] = H!Clear(snaps)] /\ raced' = raced \ {h}
  BY DEF H!Ask
<1>2. r \in HandlerType /\ r.at = "sum" /\ r.next = 1
  BY DoneTyped, HandlerMoves
<1>3. handler'[h] = r
  BY <1>1 DEF HealthInv
<1>4. DOMAIN snaps \subseteq Nat \ {0}
  BY LenProperties DEF HealthInv
<1>5. /\ clear' \in [Handlers -> SUBSET Nat] /\ clear'[h] = H!Clear(snaps)
      /\ \A g \in Handlers : g # h => clear'[g] = clear[g] /\ (g \in raced => g \in raced')
  <2>1. H!Clear(snaps) \in SUBSET Nat
    BY <1>4 DEF H!Clear
  <2> QED BY <1>1, <2>1 DEF HealthInv
<1>6. Knows(h)'
  <2>1. \A i \in DOMAIN snaps : ~snaps[i] => i \in clear'[h]
    BY <1>5 DEF H!Clear
  <2>2. \A i \in DOMAIN snaps : ~(i < r.next)
    BY <1>2, <1>4
  <2> HIDE DEF r
  <2> QED BY <1>1, <1>2, <1>3, <2>1, <2>2 DEF Knows
<1> HIDE DEF r
<1> QED BY <1>1, <1>2, <1>5, <1>6, RequestMoves

\* A snapshot is added to the sum: one that shows no backlog is witnessed.
LEMMA HealthSum == ASSUME HealthInv, NEW h \in Handlers, H!Sum(h) PROVE HealthInv'
<1> DEFINE n == handler[h].next
           r == [handler[h] EXCEPT !.sum = handler[h].sum \/ snaps[n], !.next = n + 1]
<1>1. /\ UNCHANGED <<snaps, cache, clear, raced>>
      /\ handler[h].at = "sum" /\ n <= Len(snaps)
  BY DEF H!Sum
<1>2. handler[h] \in HandlerType /\ n \in Nat \ {0} /\ Knows(h)
  BY DEF HealthInv, HandlerType
<1>3. handler' = [handler EXCEPT ![h] = r]
  BY <1>2 DEF H!Sum, HealthInv, HandlerType
<1>4. snaps[n] \in BOOLEAN /\ DOMAIN snaps = 1..Len(snaps) /\ n \in DOMAIN snaps
  BY <1>1, <1>2, LenProperties DEF HealthInv
<1>5. (handler[h].sum \/ snaps[n]) \in BOOLEAN
  OBVIOUS
<1>6. /\ r \in HandlerType /\ r.at = "sum" /\ r.next = n + 1
      /\ r.sum <=> (handler[h].sum \/ snaps[n])
  <2> DEFINE x == handler[h]
             s == handler[h].sum \/ snaps[n]
  <2>1. x \in HandlerType /\ s \in BOOLEAN /\ n + 1 \in Nat \ {0}
    BY <1>2, <1>5
  <2>2. r = [x EXCEPT !.sum = s, !.next = n + 1]
    OBVIOUS
  <2> HIDE DEF x, s, n, r
  <2>3. [x EXCEPT !.sum = s, !.next = n + 1] \in HandlerType
    BY <2>1, HandlerSums, Zenon
  <2>4. [x EXCEPT !.sum = s, !.next = n + 1].at = x.at
    BY <2>1 DEF HandlerType
  <2>7. [x EXCEPT !.sum = s, !.next = n + 1].next = n + 1
    BY <2>1 DEF HandlerType
  <2>5. [x EXCEPT !.sum = s, !.next = n + 1].sum <=> s
    BY <2>1, HandlerSums, Zenon
  <2>6. x.at = "sum"
    BY <1>1 DEF x
  <2> QED BY <2>2, <2>3, <2>4, <2>5, <2>6, <2>7, Zenon DEF s
<1>7. handler'[h] = r
  BY <1>3 DEF HealthInv
<1>8. Knows(h)'
  <2>1. ASSUME ~r.sum, NEW i \in DOMAIN snaps, i < n + 1 PROVE i \in clear[h]
    <3>1. ~handler[h].sum /\ ~snaps[n]
      BY <1>6, <2>1
    <3>2. CASE i = n
      BY <1>1, <1>2, <1>4, <3>1, <3>2 DEF Knows
    <3>3. CASE i # n
      <4>1. i < n
        BY <1>2, <1>4, <2>1, <3>3
      <4> QED BY <1>1, <1>2, <3>1, <4>1 DEF Knows
    <3> QED BY <3>2, <3>3
  <2>2. \A i \in DOMAIN snaps : ~snaps[i] => i \in clear[h]
    BY <1>1, <1>2 DEF Knows
  <2> HIDE DEF r
  <2> QED BY <1>1, <1>6, <1>7, <2>1, <2>2 DEF Knows
<1>9. clear' \in [Handlers -> SUBSET Nat]
  BY <1>1 DEF HealthInv
<1> HIDE DEF r, n
<1> QED BY <1>1, <1>3, <1>6, <1>8, <1>9, RequestMoves

\* The sum becomes the aggregate, and everybody else's is out of date.
LEMMA HealthStore == ASSUME HealthInv, NEW h \in Handlers, H!StoreSum(h) PROVE HealthInv'
<1>1. /\ UNCHANGED <<snaps, clear>> /\ cache' = handler[h].sum
      /\ handler[h].at = "sum" /\ handler[h].next > Len(snaps)
      /\ raced' = raced \cup {g \in Handlers \ {h} : handler[g].at = "load"}
  BY DEF H!StoreSum
<1>2. PICK at_ \in {"done", "load"} : handler' = [handler EXCEPT ![h] = [H!Done EXCEPT !.at = at_]]
  BY DEF H!StoreSum
<1> DEFINE r == [H!Done EXCEPT !.at = at_]
<1>3. r \in HandlerType /\ r.at = at_
  BY DoneTyped, HandlerMoves
<1>4. /\ handler' \in [Handlers -> HandlerType] /\ handler'[h] = r
      /\ \A g \in Handlers : g # h => handler'[g] = handler[g]
  BY <1>2, <1>3 DEF HealthInv
<1>5. handler[h] \in HandlerType /\ Knows(h) /\ DOMAIN snaps = 1..Len(snaps) /\ Len(snaps) \in Nat
  BY LenProperties DEF HealthInv
<1>6. ~handler[h].sum => DOMAIN snaps \subseteq clear[h]
  BY <1>1, <1>5 DEF Knows, HandlerType
<1>7. Knows(h)'
  <2>1. \A i \in DOMAIN snaps : ~snaps[i] => i \in clear[h]
    BY <1>1, <1>5 DEF Knows
  <2> HIDE DEF r
  <2> QED BY <1>1, <1>3, <1>4, <1>6, <2>1 DEF Knows
<1>8. ASSUME NEW g \in Handlers, g # h PROVE Knows(g)'
  <2>1. Knows(g) /\ handler'[g] = handler[g]
    BY <1>4, <1>8 DEF HealthInv
  <2>2. handler[g].at = "load" => g \in raced'
    BY <1>1, <1>8
  <2> QED BY <1>1, <2>1, <2>2 DEF Knows
<1>9. cache' \in BOOLEAN
  BY <1>1, <1>5 DEF HandlerType
<1> QED BY <1>1, <1>4, <1>7, <1>8, <1>9 DEF HealthInv, HandlerType

\* /healthz decides, and the request is over.
LEMMA HealthLoad == ASSUME HealthInv, NEW h \in Handlers, H!Load(h) PROVE HealthInv'
<1>1. /\ UNCHANGED <<snaps, cache, clear, raced>> /\ handler' = [handler EXCEPT ![h] = H!Done]
  BY DEF H!Load
<1>2. H!Done \in HandlerType /\ H!Done.at = "done"
  BY DEF H!Done, HandlerType
<1>3. handler'[h] = H!Done
  BY <1>1 DEF HealthInv
<1>4. Knows(h)' /\ clear' \in [Handlers -> SUBSET Nat]
  BY <1>1, <1>2, <1>3 DEF Knows, HealthInv
<1> QED BY <1>1, <1>2, <1>4, RequestMoves

LEMMA HealthNext == ASSUME HealthInv, H!Next \/ UNCHANGED health PROVE HealthInv'
<1>1. PICK l : l \in Loops
  BY RecordsAssumption DEF H!HealthAssumption
<1> QED BY <1>1, HealthLoops, HealthAsk, HealthSum, HealthStore, HealthLoad DEF H!Next

LEMMA HealthHonest == HealthInv => H!ShippingHonest
  BY DEF HealthInv, Knows, H!ShippingHonest, H!Shipping

(***************************************************************************)
(* The agent's own log                                                     *)
(***************************************************************************)

LogText == [ids : SUBSET (1..MaxLog), size : Nat]

LogTyped ==
  /\ keep \in Nat /\ lines \in 0..MaxLog /\ now \in 0..MaxSecond
  /\ written \in Nat /\ opened \in Nat
  /\ live \in LogText /\ rotated \in [DOMAIN rotated -> LogText]
  /\ stuck \in DOMAIN rotated \cup {L!NoName}
  /\ pruned \subseteq 1..MaxLog
  /\ reused \in BOOLEAN /\ excused \in BOOLEAN

\* Every name was given at a rotation, which a line caused; the counters of a
\* second are given from 0 on.
NamesGiven ==
  /\ DOMAIN rotated \subseteq named /\ named \subseteq L!Names
  /\ IsFiniteSet(named) /\ Cardinality(named) <= lines
  /\ \A x \in named : x[1] <= now /\ \A n \in Nat : n < x[2] => <<x[1], n>> \in named

\* Names sort as the files were rotated, and the descriptor that was left on a
\* rotated file was left on the last of them.
Ordered ==
  /\ \A x, y \in DOMAIN rotated : L!Sorted(x, y) =>
       \A i \in rotated[x].ids : \A j \in rotated[y].ids : i < j
  /\ \A x \in DOMAIN rotated : \A i \in rotated[x].ids : \A j \in live.ids : i < j
  /\ \A i \in pruned : \A j \in live.ids \cup L!Lines(rotated) : i < j
  /\ stuck # L!NoName => \A x \in DOMAIN rotated : x = stuck \/ L!Sorted(x, stuck)

\* The size that decides is that of the file.
Sized ==
  /\ stuck = L!NoName => written = live.size
  /\ stuck # L!NoName => live = L!Empty
  /\ live.size = 0 => live.ids = {}
  /\ live.size <= Limit \/ Cardinality(live.ids) <= 1 \/ excused

\* The inductive invariant of the log.
LogInv ==
  /\ LogTyped /\ NamesGiven /\ Sized
  /\ live.ids \cup L!Lines(rotated) \cup pruned = 1..lines
  /\ reused \/ Ordered

LEMMA LogCardinality == \A S : L!Cardinality(S) = Cardinality(S)
  BY DEF L!Cardinality, Cardinality

LEMMA LogConstants ==
  /\ MaxLog \in Nat /\ MaxSecond \in Nat /\ Limit \in Nat /\ Keeps \subseteq 0..MaxLog
  /\ LogLengths \subseteq Nat \ {0} /\ L!NoName \notin L!Names
  /\ L!Names = (0..MaxSecond) \X (0..MaxLog) /\ L!Empty \in LogText
<1>1. /\ MaxLog \in Nat /\ MaxSecond \in Nat /\ Limit \in Nat /\ Keeps \subseteq 0..MaxLog
      /\ LogLengths \subseteq Nat \ {0}
  BY RecordsAssumption DEF L!LogFileAssumption
<1>2. L!NoName \notin L!Names
  BY <1>1 DEF L!NoName, L!Names
<1>3. L!Empty \in LogText
  BY DEF L!Empty, LogText
<1> QED BY <1>1, <1>2, <1>3 DEF L!Names

\* A nonempty set of naturals has a least element.
LEMMA LeastNumber ==
  ASSUME NEW S \in SUBSET Nat, S # {}
  PROVE  \E m \in S : \A k \in S : m <= k
<1>1. PICK m \in S : \A k \in S : ~(<<k, m>> \in OpToRel(<, Nat))
  BY NatLessThanWellFounded, WFMin, Zenon
<1>2. \A k \in S : ~(k < m)
  BY <1>1, Zenon DEF OpToRel
<1>3. m \in Nat /\ \A k \in S : k \in Nat
  OBVIOUS
<1> QED BY <1>2, <1>3

\* The oldest of the files.
LEMMA LeastExists ==
  ASSUME NEW S \in SUBSET Nat, S # {}
  PROVE  L!Min(S) \in S /\ \A k \in S : L!Min(S) <= k
  BY LeastNumber DEF L!Min

\* A file under a new name adds its lines; under the name of a file, it replaces
\* that file's.
LEMMA PutNew ==
  ASSUME NEW fs, fs \in [DOMAIN fs -> LogText], NEW x, NEW f \in LogText
  PROVE  /\ L!Put(fs, x, f) \in [DOMAIN L!Put(fs, x, f) -> LogText]
         /\ DOMAIN L!Put(fs, x, f) = DOMAIN fs \cup {x}
         /\ L!Put(fs, x, f)[x] = f
         /\ \A y \in DOMAIN fs : y # x => L!Put(fs, x, f)[y] = fs[y]
         /\ x \notin DOMAIN fs => L!Lines(L!Put(fs, x, f)) = L!Lines(fs) \cup f.ids
<1> DEFINE p == L!Put(fs, x, f)
<1>1. /\ p \in [DOMAIN p -> LogText] /\ DOMAIN p = DOMAIN fs \cup {x}
      /\ p[x] = f /\ \A y \in DOMAIN fs : y # x => p[y] = fs[y]
  BY DEF L!Put
<1>2. ASSUME x \notin DOMAIN fs PROVE L!Lines(p) = L!Lines(fs) \cup f.ids
  <2> HIDE DEF p
  <2>1. L!Lines(p) \subseteq L!Lines(fs) \cup f.ids
    <3> SUFFICES ASSUME NEW i, NEW y \in DOMAIN p, i \in p[y].ids
                 PROVE  i \in L!Lines(fs) \cup f.ids
      BY DEF L!Lines
    <3> QED BY <1>1 DEF L!Lines
  <2>2. L!Lines(fs) \cup f.ids \subseteq L!Lines(p)
    <3>1. ASSUME NEW i, NEW y \in DOMAIN fs, i \in fs[y].ids PROVE i \in L!Lines(p)
      <4>1. y \in DOMAIN p /\ p[y] = fs[y]
        BY <1>1, <1>2
      <4> QED BY <3>1, <4>1 DEF L!Lines
    <3>2. f.ids \subseteq L!Lines(p)
      BY <1>1 DEF L!Lines
    <3> QED BY <3>1, <3>2 DEF L!Lines
  <2> QED BY <2>1, <2>2
<1> QED BY <1>1, <1>2

\* There is a name that no rotated file has, and the one that is taken is the
\* first of its second.
LEMMA TargetFree ==
  ASSUME LogInv, lines < MaxLog
  PROVE  \E n \in 0..MaxLog :
           /\ L!Target = <<now, n>> /\ <<now, n>> \notin DOMAIN rotated
           /\ \A k \in 0..MaxLog : k < n => <<now, k>> \in DOMAIN rotated
<1> DEFINE S == {n \in 0..MaxLog : <<now, n>> \notin DOMAIN rotated}
           f == [n \in 0..MaxLog |-> <<now, n>>]
<1>1. MaxLog \in Nat /\ lines \in Nat /\ IsFiniteSet(named) /\ Cardinality(named) <= lines
  BY LogConstants DEF LogInv, LogTyped, NamesGiven
<1>2. S # {}
  <2> SUFFICES ASSUME S = {} PROVE FALSE
    OBVIOUS
  <2>1. f \in [0..MaxLog -> named] /\ \A a, b \in 0..MaxLog : f[a] = f[b] => a = b
    <3>1. \A n \in 0..MaxLog : <<now, n>> \in named
      BY DEF LogInv, NamesGiven
    <3> QED BY <3>1
  <2> HIDE DEF f
  <2>2. f \in Injection(0..MaxLog, named)
    BY <2>1, Fun_IsInj
  <2>3. Cardinality(0..MaxLog) <= Cardinality(named)
    BY <1>1, <2>2, FS_Injection
  <2>4. Cardinality(0..MaxLog) = MaxLog + 1
    <3>1. 0 \in Int /\ MaxLog \in Int /\ ~(0 > MaxLog)
      BY <1>1
    <3>2. Cardinality(0..MaxLog) = IF 0 > MaxLog THEN 0 ELSE MaxLog - 0 + 1
      BY <3>1, FS_Interval
    <3> QED BY <1>1, <3>1, <3>2
  <2> QED BY <1>1, <2>3, <2>4, FS_CardinalityType
<1>3. S \in SUBSET (0..MaxLog)
  OBVIOUS
<1>4. L!Min(S) \in S /\ \A k \in S : L!Min(S) <= k
  <2> HIDE DEF S
  <2> QED BY <1>1, <1>2, <1>3, LeastExists
<1>5. L!Target = <<now, L!Min(S)>>
  BY DEF L!Target
<1>6. ASSUME NEW k \in 0..MaxLog, k < L!Min(S) PROVE <<now, k>> \in DOMAIN rotated
  <2>1. k \notin S
    BY <1>4, <1>6
  <2> QED BY <2>1
<1> QED BY <1>4, <1>5, <1>6

LEMMA LogInit == L!Init => LogInv
<1> SUFFICES ASSUME L!Init PROVE LogInv
  OBVIOUS
<1>1. /\ rotated = [x \in {} |-> L!Empty] /\ DOMAIN rotated = {} /\ L!Lines(rotated) = {}
      /\ live = L!Empty /\ live.ids = {} /\ live.size = 0 /\ lines = 0
  BY DEF L!Init, L!Lines, L!Empty
<1>2. LogTyped
  <2>1. keep \in Nat
    BY LogConstants DEF L!Init
  <2>2. reused \in BOOLEAN /\ excused \in BOOLEAN
    BY Zenon DEF L!Init
  <2>3. rotated \in [DOMAIN rotated -> LogText]
    BY <1>1
  <2> QED BY <1>1, <2>1, <2>2, <2>3, LogConstants DEF LogTyped, L!Init
<1>3. NamesGiven
  BY <1>1, FS_EmptySet DEF NamesGiven, L!Init
<1>4. Sized
  BY <1>1, LogConstants DEF Sized, L!Init
<1>5. live.ids \cup L!Lines(rotated) \cup pruned = 1..lines
  BY <1>1 DEF L!Init
<1>6. Ordered
  BY <1>1 DEF Ordered, L!Init
<1> QED BY <1>2, <1>3, <1>4, <1>5, <1>6 DEF LogInv

\* The number of a line that is about to be written is above every other's.
LEMMA NextLine ==
  ASSUME LogInv, lines < MaxLog, lines' = lines + 1
  PROVE  /\ lines + 1 \in 1..MaxLog /\ lines' \in 0..MaxLog
         /\ 1..lines' = 1..lines \cup {lines + 1}
         /\ \A i \in live.ids \cup L!Lines(rotated) \cup pruned : i < lines + 1 /\ i \in Nat
         /\ \A x \in DOMAIN rotated : \A i \in rotated[x].ids : i < lines + 1 /\ i \in Nat
<1>1. lines \in Nat /\ MaxLog \in Nat
  BY LogConstants DEF LogInv, LogTyped
<1>2. \A i \in live.ids \cup L!Lines(rotated) \cup pruned : i < lines + 1 /\ i \in Nat
  <2>1. \A i \in 1..lines : i < lines + 1 /\ i \in Nat
    BY <1>1
  <2> QED BY <2>1 DEF LogInv
<1>3. \A x \in DOMAIN rotated : rotated[x].ids \subseteq L!Lines(rotated)
  BY DEF L!Lines
<1>4. 1..(lines + 1) = 1..lines \cup {lines + 1}
  BY <1>1
<1> QED BY <1>1, <1>2, <1>3, <1>4

\* A log text with one line more.
LEMMA PlusTyped ==
  ASSUME NEW f \in LogText, NEW len \in Nat \ {0}, lines + 1 \in 1..MaxLog
  PROVE  /\ L!Plus(f, len) \in LogText /\ L!Plus(f, len).ids = f.ids \cup {lines + 1}
         /\ L!Plus(f, len).size = f.size + len /\ f.size \in Nat /\ f.size + len # 0
<1>1. f.ids \in SUBSET (1..MaxLog) /\ f.size \in Nat
  BY DEF LogText
<1>2. f.ids \cup {lines + 1} \in SUBSET (1..MaxLog) /\ f.size + len \in Nat /\ f.size + len # 0
  BY <1>1
<1> QED BY <1>1, <1>2 DEF L!Plus, LogText

\* The clock, and a restart, which finds the live file as it was left.
LEMMA LogOpen ==
  ASSUME LogInv, L!Open \/ L!Tick \/ UNCHANGED log
  PROVE  LogInv'
<1>1. UNCHANGED <<keep, live, rotated, lines, pruned, named, reused, excused>>
  BY DEF L!Open, L!Tick, log, L!history
<1>2. /\ now' \in 0..MaxSecond /\ now <= now' /\ written' \in Nat /\ opened' \in Nat
      /\ stuck' \in {stuck, L!NoName}
      /\ (stuck' = stuck /\ written' = written) \/ (stuck' = L!NoName /\ written' = live.size)
  <2>1. now \in 0..MaxSecond /\ written \in Nat /\ opened \in Nat /\ live.size \in Nat
    BY DEF LogInv, LogTyped, LogText
  <2>2. CASE L!Open
    BY <2>1, <2>2 DEF L!Open
  <2>3. CASE L!Tick
    BY <2>1, <2>3, LogConstants DEF L!Tick
  <2>4. CASE UNCHANGED log
    BY <2>1, <2>4 DEF log
  <2> QED BY <2>2, <2>3, <2>4
<1>3. LogTyped'
  BY <1>1, <1>2 DEF LogInv, LogTyped, L!NoName
<1>4. NamesGiven'
  <2>1. \A x \in named : x[1] \in Nat
    BY LogConstants DEF LogInv, NamesGiven
  <2>2. now \in Nat /\ now' \in Nat
    BY <1>2 DEF LogInv, LogTyped
  <2>3. \A x \in named : x[1] <= now'
    BY <1>2, <2>1, <2>2 DEF LogInv, NamesGiven
  <2> QED BY <1>1, <2>3 DEF LogInv, NamesGiven, L!Names
<1>5. Sized'
  BY <1>1, <1>2 DEF LogInv, Sized, L!NoName, L!Empty
<1>6. reused' \/ Ordered'
  BY <1>1, <1>2 DEF LogInv, Ordered, L!Sorted, L!NoName, L!Lines
<1>7. (live.ids \cup L!Lines(rotated) \cup pruned = 1..lines)'
  BY <1>1 DEF LogInv, L!Lines
<1> QED BY <1>3, <1>4, <1>5, <1>6, <1>7 DEF LogInv

\* A line goes to the live file, or to the file the descriptor was left on.
LEMMA LogWriteLine ==
  ASSUME LogInv, NEW len \in LogLengths, L!WriteLine(len)
  PROVE  LogInv'
<1>1. /\ UNCHANGED <<keep, stuck, opened, now, pruned, named, reused>>
      /\ lines < MaxLog /\ lines' = lines + 1 /\ written' = written + len
      /\ excused' = (excused \/ L!Due(len))
  BY DEF L!WriteLine
<1>2. /\ lines + 1 \in 1..MaxLog /\ lines' \in 0..MaxLog /\ 1..lines' = 1..lines \cup {lines + 1}
      /\ \A i \in live.ids \cup L!Lines(rotated) \cup pruned : i < lines + 1
      /\ \A x \in DOMAIN rotated : \A i \in rotated[x].ids : i < lines + 1
  BY <1>1, NextLine
<1>3. len \in Nat \ {0} /\ written \in Nat /\ live \in LogText
  BY LogConstants DEF LogInv, LogTyped
<1>4. rotated \in [DOMAIN rotated -> LogText] /\ L!NoName \notin DOMAIN rotated
  BY LogConstants DEF LogInv, LogTyped, NamesGiven
<1>5. NamesGiven'
  <2>1. DOMAIN rotated' = DOMAIN rotated
    <3>1. CASE stuck = L!NoName
      BY <3>1 DEF L!WriteLine
    <3>2. CASE stuck # L!NoName
      BY <3>2 DEF L!WriteLine, L!Put, LogInv, LogTyped
    <3> QED BY <3>1, <3>2
  <2>2. Cardinality(named) \in Nat /\ lines \in Nat
    BY FS_CardinalityType DEF LogInv, NamesGiven, LogTyped
  <2>3. Cardinality(named) <= lines'
    BY <1>1, <2>2 DEF LogInv, NamesGiven
  <2> QED BY <1>1, <2>1, <2>3 DEF LogInv, NamesGiven, L!Names
<1>6. excused' \in BOOLEAN
  BY <1>1, Zenon
<1>7. CASE stuck = L!NoName
  <2>1. live' = L!Plus(live, len) /\ rotated' = rotated /\ written = live.size
    BY <1>7 DEF L!WriteLine, LogInv, Sized
  <2>2. /\ live' \in LogText /\ live'.ids = live.ids \cup {lines + 1}
        /\ live'.size = live.size + len /\ live.size \in Nat /\ live'.size # 0
    BY <1>2, <1>3, <2>1, PlusTyped
  <2>3. LogTyped'
    BY <1>1, <1>2, <1>3, <1>6, <2>1, <2>2 DEF LogInv, LogTyped, L!NoName
  <2>4. Sized'
    <3>1. live'.size <= Limit \/ Cardinality(live'.ids) <= 1 \/ excused'
      <4>1. CASE live.size = 0
        <5>1. live'.ids = {lines + 1}
          BY <2>2, <4>1 DEF LogInv, Sized
        <5>2. Cardinality(live'.ids) = 1
          BY <5>1, FS_Singleton
        <5> QED BY <5>2
      <4>2. CASE live.size # 0 /\ ~L!Due(len)
        <5>1. written + len <= Limit
          BY <1>3, <2>1, <2>2, <4>2, LogConstants DEF L!Due
        <5> QED BY <2>1, <2>2, <5>1
      <4>3. CASE L!Due(len)
        BY <1>1, <4>3
      <4> QED BY <4>1, <4>2, <4>3
    <3> QED BY <1>1, <1>7, <2>1, <2>2, <3>1 DEF Sized, L!NoName
  <2>5. (live.ids \cup L!Lines(rotated) \cup pruned = 1..lines)'
    BY <1>1, <1>2, <2>1, <2>2 DEF LogInv, L!Lines
  <2>6. reused' \/ Ordered'
    <3> SUFFICES ASSUME ~reused PROVE Ordered'
      BY <1>1
    <3>1. Ordered
      BY DEF LogInv
    <3>2. \A x \in DOMAIN rotated : \A i \in rotated[x].ids : \A j \in live'.ids : i < j
      BY <1>2, <2>2, <3>1 DEF Ordered
    <3>3. \A i \in pruned : \A j \in live'.ids \cup L!Lines(rotated) : i < j
      BY <1>2, <2>2, <3>1 DEF Ordered
    <3> QED BY <1>1, <1>7, <2>1, <3>1, <3>2, <3>3 DEF Ordered, L!Sorted, L!Lines, L!NoName
  <2> QED BY <1>5, <2>3, <2>4, <2>5, <2>6 DEF LogInv
<1>8. CASE stuck # L!NoName
  <2> DEFINE f == L!Plus(rotated[stuck], len)
  <2>1. /\ stuck \in DOMAIN rotated /\ rotated[stuck] \in LogText
        /\ rotated' = L!Put(rotated, stuck, f) /\ live' = live /\ live = L!Empty
    BY <1>4, <1>8 DEF L!WriteLine, LogInv, LogTyped, Sized
  <2>2. f \in LogText /\ f.ids = rotated[stuck].ids \cup {lines + 1}
    BY <1>2, <1>3, <2>1, PlusTyped
  <2>3. /\ rotated' \in [DOMAIN rotated' -> LogText] /\ DOMAIN rotated' = DOMAIN rotated
        /\ rotated'[stuck] = f
        /\ \A y \in DOMAIN rotated : y # stuck => rotated'[y] = rotated[y]
    <3> DEFINE p == L!Put(rotated, stuck, f)
    <3> HIDE DEF f
    <3>1. /\ p \in [DOMAIN p -> LogText] /\ DOMAIN p = DOMAIN rotated \cup {stuck}
          /\ p[stuck] = f /\ \A y \in DOMAIN rotated : y # stuck => p[y] = rotated[y]
      BY <1>4, <2>1, <2>2 DEF L!Put
    <3>2. DOMAIN rotated \cup {stuck} = DOMAIN rotated
      BY <2>1
    <3> HIDE DEF p
    <3>3. rotated' = p
      BY <2>1 DEF p
    <3> QED BY <3>1, <3>2, <3>3
  <2> HIDE DEF f
  <2>4. L!Lines(rotated)' = L!Lines(rotated) \cup {lines + 1}
    BY <2>1, <2>2, <2>3 DEF L!Lines
  <2>5. LogTyped'
    <3>1. written' \in Nat
      BY <1>1, <1>3
    <3> QED BY <1>1, <1>2, <1>6, <2>1, <2>3, <3>1 DEF LogInv, LogTyped, L!NoName
  <2>6. Sized'
    BY <1>1, <1>8, <2>1, LogConstants DEF LogInv, Sized, L!NoName, L!Empty
  <2>7. (live.ids \cup L!Lines(rotated) \cup pruned = 1..lines)'
    BY <1>1, <1>2, <2>1, <2>4 DEF LogInv
  <2>8. reused' \/ Ordered'
    <3> SUFFICES ASSUME ~reused PROVE Ordered'
      BY <1>1
    <3>1. Ordered
      BY DEF LogInv
    <3>2. live'.ids = {}
      BY <2>1 DEF L!Empty
    <3>3. \A i \in pruned : \A j \in L!Lines(rotated)' : i < j
      BY <1>2, <2>4, <3>1 DEF Ordered
    <3>4. ASSUME NEW x \in DOMAIN rotated, NEW y \in DOMAIN rotated, L!Sorted(x, y),
                 NEW i \in rotated'[x].ids, NEW j \in rotated'[y].ids
          PROVE  i < j
      <4>1. x # stuck
        <5> SUFFICES ASSUME x = stuck PROVE FALSE
          OBVIOUS
        <5>1. y = stuck \/ L!Sorted(y, stuck)
          BY <1>8, <3>1 DEF Ordered
        <5>2. x[1] \in Nat /\ x[2] \in Nat /\ y[1] \in Nat /\ y[2] \in Nat
          BY LogConstants DEF LogInv, NamesGiven
        <5> QED BY <3>4, <5>1, <5>2 DEF L!Sorted
      <4>2. i \in rotated[x].ids
        BY <2>3, <4>1
      <4>3. CASE j \in rotated[y].ids
        BY <3>1, <3>4, <4>2, <4>3 DEF Ordered
      <4>4. CASE j = lines + 1
        BY <1>2, <4>2, <4>4
      <4> QED BY <2>2, <2>3, <4>3, <4>4
    <3> QED BY <1>1, <2>3, <3>1, <3>2, <3>3, <3>4 DEF Ordered, L!Sorted, L!NoName
  <2> QED BY <1>5, <2>5, <2>6, <2>7, <2>8 DEF LogInv
<1> QED BY <1>7, <1>8

\* The name of a rotated file is a new one unless pruning had freed it, and then
\* every rotated file sorts before it.
LEMMA NewName ==
  ASSUME LogInv, lines < MaxLog, lines' = lines + 1, now' = now,
         named' = named \cup {L!Target}, reused' = (reused \/ L!Target \in named),
         DOMAIN rotated' \subseteq DOMAIN rotated \cup {L!Target}
  PROVE  /\ NamesGiven' /\ reused' \in BOOLEAN
         /\ L!Target \in L!Names /\ L!Target \notin DOMAIN rotated
         /\ ~reused' => ~reused /\ \A x \in DOMAIN rotated : L!Sorted(x, L!Target)
<1>1. PICK n \in 0..MaxLog :
        /\ L!Target = <<now, n>> /\ <<now, n>> \notin DOMAIN rotated
        /\ \A k \in 0..MaxLog : k < n => <<now, k>> \in DOMAIN rotated
  BY TargetFree
<1>2. /\ MaxLog \in Nat /\ MaxSecond \in Nat /\ now \in 0..MaxSecond /\ lines \in Nat
      /\ DOMAIN rotated \subseteq named /\ named \subseteq (0..MaxSecond) \X (0..MaxLog)
      /\ IsFiniteSet(named) /\ Cardinality(named) <= lines
      /\ \A x \in named : x[1] <= now /\ \A k \in Nat : k < x[2] => <<x[1], k>> \in named
  BY LogConstants DEF LogInv, LogTyped, NamesGiven
<1>3. L!Target \in (0..MaxSecond) \X (0..MaxLog) /\ L!Target \in L!Names
  BY <1>1, <1>2, LogConstants
<1>4. NamesGiven'
  <2>1. DOMAIN rotated' \subseteq named' /\ named' \subseteq L!Names
    BY <1>2, <1>3, LogConstants
  <2>2. IsFiniteSet(named') /\ Cardinality(named') <= lines'
    <3>1. /\ IsFiniteSet(named \cup {L!Target})
          /\ \/ Cardinality(named \cup {L!Target}) = Cardinality(named)
             \/ Cardinality(named \cup {L!Target}) = Cardinality(named) + 1
      BY <1>2, FS_AddElement
    <3>2. Cardinality(named) \in Nat
      BY <1>2, FS_CardinalityType
    <3> QED BY <1>2, <3>1, <3>2
  <2>3. \A x \in named' : x[1] <= now' /\ \A k \in Nat : k < x[2] => <<x[1], k>> \in named'
    <3>1. ASSUME NEW x \in named', x = L!Target, NEW k \in Nat, k < x[2]
          PROVE  <<x[1], k>> \in named'
      <4>1. k \in 0..MaxLog /\ k < n /\ x[1] = now
        BY <1>1, <1>2, <3>1
      <4> QED BY <1>1, <1>2, <4>1
    <3>2. ASSUME NEW x \in named', x = L!Target PROVE x[1] <= now'
      BY <1>1, <1>2, <3>2
    <3>3. \A x \in named' : x = L!Target \/ x \in named
      OBVIOUS
    <3> QED BY <1>2, <3>1, <3>2, <3>3
  <2>4. L!Names' = L!Names
    BY DEF L!Names
  <2> QED BY <2>1, <2>2, <2>3, <2>4 DEF NamesGiven
<1>5. ASSUME ~reused', NEW x \in DOMAIN rotated PROVE L!Sorted(x, L!Target)
  <2>1. /\ x \in named /\ x[1] \in 0..MaxSecond /\ x[2] \in 0..MaxLog /\ x = <<x[1], x[2]>>
        /\ x[1] <= now
    BY <1>2
  <2>2. <<now, n>> \notin named
    BY <1>1, <1>5
  <2>3. CASE x[1] = now
    <3>1. x[2] # n
      BY <2>1, <2>2, <2>3
    <3>2. ~(n < x[2])
      BY <1>2, <2>1, <2>2, <2>3
    <3> QED BY <1>1, <2>1, <2>3, <3>1, <3>2 DEF L!Sorted
  <2>4. CASE x[1] # now
    BY <1>1, <1>2, <2>1, <2>4 DEF L!Sorted
  <2> QED BY <2>3, <2>4
<1>6. reused' \in BOOLEAN /\ (~reused' => ~reused)
  <2>1. reused \in BOOLEAN
    BY DEF LogInv, LogTyped
  <2> QED BY <2>1, Zenon
<1> QED BY <1>1, <1>3, <1>4, <1>5, <1>6

\* What prune deletes sorts before what it leaves.
LEMMA PruneOldest ==
  ASSUME NEW D \in SUBSET L!Names, IsFiniteSet(D), keep \in Nat,
         NEW x \in L!Excess(D), NEW y \in D \ L!Excess(D)
  PROVE  L!Sorted(x, y)
<1> DEFINE After(z) == {w \in D : L!Sorted(z, w)}
<1>1. /\ MaxLog \in Nat /\ MaxSecond \in Nat /\ x \in D /\ y \in D
      /\ D \subseteq (0..MaxSecond) \X (0..MaxLog)
  BY LogConstants DEF L!Excess
<1>2. \A z \in D : /\ z = <<z[1], z[2]>> /\ z[1] \in Nat /\ z[2] \in Nat
  BY <1>1
<1>3. IsFiniteSet(After(x)) /\ IsFiniteSet(After(y))
  BY FS_Subset
<1>4. Cardinality(After(x)) >= keep /\ ~(Cardinality(After(y)) >= keep)
  BY LogCardinality DEF L!Excess
<1>5. Cardinality(After(x)) \in Nat /\ Cardinality(After(y)) \in Nat
  BY <1>3, FS_CardinalityType
<1>6. x # y
  OBVIOUS
<1>7. L!Sorted(x, y) \/ L!Sorted(y, x)
  BY <1>1, <1>2, <1>6 DEF L!Sorted
<1>8. ASSUME L!Sorted(y, x) PROVE FALSE
  <2>1. After(x) \subseteq After(y)
    BY <1>1, <1>2, <1>8 DEF L!Sorted
  <2> HIDE DEF After
  <2>2. Cardinality(After(x)) <= Cardinality(After(y))
    BY <1>3, <2>1, FS_Subset
  <2> QED BY <1>4, <1>5, <2>2
<1> QED BY <1>7, <1>8

\* The file under its new name takes the line.
LEMMA LogRotateHalf ==
  ASSUME LogInv, NEW len \in LogLengths, L!RotateHalf(len)
  PROVE  LogInv'
<1> DEFINE T == L!Target
           f == L!Plus(live, len)
<1>1. /\ UNCHANGED <<keep, opened, now, pruned>> /\ lines < MaxLog /\ lines' = lines + 1
      /\ stuck = L!NoName /\ stuck' = T /\ live' = L!Empty /\ written' = written + len
      /\ named' = named \cup {T} /\ reused' = (reused \/ T \in named) /\ excused' = FALSE
      /\ rotated' = L!Put(rotated, T, f)
  BY DEF L!RotateHalf
<1>2. /\ lines + 1 \in 1..MaxLog /\ lines' \in 0..MaxLog /\ 1..lines' = 1..lines \cup {lines + 1}
      /\ \A i \in live.ids \cup L!Lines(rotated) \cup pruned : i < lines + 1
      /\ \A x \in DOMAIN rotated : \A i \in rotated[x].ids : i < lines + 1
  BY <1>1, NextLine
<1>3. /\ len \in Nat \ {0} /\ written \in Nat /\ live \in LogText
      /\ rotated \in [DOMAIN rotated -> LogText]
  BY LogConstants DEF LogInv, LogTyped
<1>4. f \in LogText /\ f.ids = live.ids \cup {lines + 1}
  BY <1>2, <1>3, PlusTyped
<1> HIDE DEF f
<1>5. DOMAIN rotated' = DOMAIN rotated \cup {T}
  BY <1>1 DEF L!Put
<1>6. /\ NamesGiven' /\ reused' \in BOOLEAN /\ T \in L!Names /\ T \notin DOMAIN rotated
      /\ ~reused' => ~reused /\ \A x \in DOMAIN rotated : L!Sorted(x, T)
  <2>1. /\ lines < MaxLog /\ lines' = lines + 1 /\ now' = now /\ named' = named \cup {L!Target}
        /\ reused' = (reused \/ L!Target \in named)
        /\ DOMAIN rotated' \subseteq DOMAIN rotated \cup {L!Target}
    BY <1>1, <1>5
  <2> QED BY <2>1, NewName
<1> HIDE DEF T
<1>7. /\ rotated' \in [DOMAIN rotated' -> LogText] /\ rotated'[T] = f
      /\ \A y \in DOMAIN rotated : rotated'[y] = rotated[y]
  <2>1. /\ rotated' \in [DOMAIN rotated' -> LogText] /\ rotated'[T] = f
        /\ \A y \in DOMAIN rotated : y # T => rotated'[y] = rotated[y]
    BY <1>1, <1>3, <1>4 DEF L!Put
  <2> QED BY <1>6, <2>1
<1>8. L!Lines(rotated)' = L!Lines(rotated) \cup f.ids
  BY <1>5, <1>7 DEF L!Lines
<1>9. LogTyped'
  <2>1. written' \in Nat /\ live' \in LogText
    BY <1>1, <1>3, LogConstants
  <2>2. excused' \in BOOLEAN
    BY <1>1, Zenon
  <2>3. stuck' \in DOMAIN rotated'
    BY <1>1, <1>5
  <2> QED BY <1>1, <1>2, <1>6, <1>7, <2>1, <2>2, <2>3 DEF LogInv, LogTyped
<1>10. Sized'
  <2>1. stuck' # L!NoName' /\ live' = L!Empty'
    BY <1>1, <1>6, LogConstants DEF L!NoName, L!Empty
  <2>2. live'.size = 0 /\ live'.ids = {} /\ 0 <= Limit
    BY <1>1, LogConstants DEF L!Empty
  <2> QED BY <2>1, <2>2 DEF Sized
<1>11. (live.ids \cup L!Lines(rotated) \cup pruned = 1..lines)'
  <2>1. live'.ids = {}
    BY <1>1 DEF L!Empty
  <2> QED BY <1>1, <1>2, <1>4, <1>8, <2>1 DEF LogInv
<1>12. ASSUME ~reused' PROVE Ordered'
  <2>1. Ordered
    BY <1>6, <1>12 DEF LogInv
  <2>2. live'.ids = {}
    BY <1>1 DEF L!Empty
  <2>3. ASSUME NEW x \in DOMAIN rotated', NEW y \in DOMAIN rotated', L!Sorted(x, y),
               NEW i \in rotated'[x].ids, NEW j \in rotated'[y].ids
        PROVE  i < j
    <3>1. x # T
      <4> SUFFICES ASSUME x = T PROVE FALSE
        OBVIOUS
      <4>1. y = T \/ L!Sorted(y, T)
        BY <1>5, <1>6, <1>12
      <4>2. x[1] \in Nat /\ x[2] \in Nat /\ y[1] \in Nat /\ y[2] \in Nat
        BY <1>5, <1>6, LogConstants DEF LogInv, NamesGiven
      <4> QED BY <2>3, <4>1, <4>2 DEF L!Sorted
    <3>2. x \in DOMAIN rotated /\ i \in rotated[x].ids
      BY <1>5, <1>7, <3>1
    <3>3. CASE y = T
      <4>1. j \in live.ids \/ j = lines + 1
        BY <1>4, <1>7, <3>3
      <4> QED BY <1>2, <2>1, <3>2, <4>1 DEF Ordered
    <3>4. CASE y # T
      BY <1>5, <1>7, <2>1, <2>3, <3>2, <3>4 DEF Ordered
    <3> QED BY <3>3, <3>4
  <2>4. \A i \in pruned' : \A j \in live'.ids \cup L!Lines(rotated)' : i < j
    <3> SUFFICES ASSUME NEW i \in pruned, NEW j \in L!Lines(rotated) \cup f.ids PROVE i < j
      BY <1>1, <1>8, <2>2
    <3>1. CASE j = lines + 1
      BY <1>2, <3>1
    <3>2. CASE j \in live.ids \cup L!Lines(rotated)
      BY <2>1, <3>2 DEF Ordered
    <3> QED BY <1>4, <3>1, <3>2
  <2>5. \A x \in DOMAIN rotated' : x = stuck' \/ L!Sorted(x, stuck')
    BY <1>1, <1>5, <1>6, <1>12
  <2> QED BY <2>2, <2>3, <2>4, <2>5 DEF Ordered, L!Sorted
<1> QED BY <1>6, <1>9, <1>10, <1>11, <1>12 DEF LogInv

\* What the files hold after the rename, and what is left after pruning.
LEMMA LogRotateThenWrite ==
  ASSUME LogInv, NEW len \in LogLengths, L!RotateThenWrite(len)
  PROVE  LogInv'
<1> DEFINE T == L!Target
           files == L!Put(rotated, T, live)
           D == DOMAIN files
           gone == L!Excess(D)
<1>1. /\ UNCHANGED <<keep, stuck, now>> /\ lines < MaxLog /\ lines' = lines + 1
      /\ stuck = L!NoName /\ live' = L!Plus(L!Empty, len) /\ written' = len /\ opened' = now
      /\ named' = named \cup {T} /\ reused' = (reused \/ T \in named) /\ excused' = FALSE
      /\ rotated' = [x \in D \ gone |-> files[x]]
      /\ pruned' = pruned \cup UNION {files[x].ids : x \in gone}
  BY DEF L!RotateThenWrite
<1>2. /\ lines + 1 \in 1..MaxLog /\ lines' \in 0..MaxLog /\ 1..lines' = 1..lines \cup {lines + 1}
      /\ \A i \in live.ids \cup L!Lines(rotated) \cup pruned : i < lines + 1
      /\ \A x \in DOMAIN rotated : \A i \in rotated[x].ids : i < lines + 1
  BY <1>1, NextLine
<1>3. /\ len \in Nat \ {0} /\ live \in LogText /\ keep \in Nat /\ pruned \subseteq 1..MaxLog
      /\ rotated \in [DOMAIN rotated -> LogText]
  BY LogConstants DEF LogInv, LogTyped
<1>4. live' \in LogText /\ live'.ids = {lines + 1} /\ live'.size = len
  <2>1. L!Empty \in LogText /\ L!Empty.ids = {} /\ L!Empty.size = 0
    BY LogConstants DEF L!Empty
  <2>2. /\ L!Plus(L!Empty, len) \in LogText
        /\ L!Plus(L!Empty, len).ids = L!Empty.ids \cup {lines + 1}
        /\ L!Plus(L!Empty, len).size = L!Empty.size + len
    BY <1>2, <1>3, <2>1, PlusTyped
  <2> QED BY <1>1, <1>3, <2>1, <2>2
<1>5. D = DOMAIN rotated \cup {T} /\ DOMAIN rotated' = D \ gone /\ gone \subseteq D
  BY <1>1 DEF L!Put, L!Excess
<1>6. /\ NamesGiven' /\ reused' \in BOOLEAN /\ T \in L!Names /\ T \notin DOMAIN rotated
      /\ ~reused' => ~reused /\ \A x \in DOMAIN rotated : L!Sorted(x, T)
  <2>1. /\ lines < MaxLog /\ lines' = lines + 1 /\ now' = now /\ named' = named \cup {L!Target}
        /\ reused' = (reused \/ L!Target \in named)
        /\ DOMAIN rotated' \subseteq DOMAIN rotated \cup {L!Target}
    BY <1>1, <1>5
  <2> QED BY <2>1, NewName
<1> HIDE DEF T
<1>7. /\ files \in [D -> LogText] /\ files[T] = live
      /\ \A y \in DOMAIN rotated : files[y] = rotated[y]
  <2>1. /\ files \in [D -> LogText] /\ files[T] = live
        /\ \A y \in DOMAIN rotated : y # T => files[y] = rotated[y]
    BY <1>3 DEF L!Put
  <2> QED BY <1>6, <2>1
<1>8. D \in SUBSET L!Names /\ IsFiniteSet(D)
  <2>1. DOMAIN rotated \subseteq L!Names /\ IsFiniteSet(DOMAIN rotated)
    BY FS_Subset DEF LogInv, NamesGiven
  <2>2. IsFiniteSet(DOMAIN rotated \cup {T})
    BY <2>1, FS_AddElement
  <2> QED BY <1>5, <1>6, <2>1, <2>2
<1> HIDE DEF files, D
<1>9. \A x \in gone, y \in D \ gone : L!Sorted(x, y)
  BY <1>3, <1>8, PruneOldest
<1> HIDE DEF gone
<1>10. rotated' \in [DOMAIN rotated' -> LogText] /\ \A x \in D \ gone : rotated'[x] = files[x]
  BY <1>1, <1>5, <1>7
<1>11. \A x \in D : files[x].ids \subseteq 1..MaxLog
  BY <1>7 DEF LogText
<1>12. LogTyped'
  <2>1. pruned' \subseteq 1..MaxLog
    BY <1>1, <1>3, <1>5, <1>11
  <2>2. excused' \in BOOLEAN
    BY <1>1, Zenon
  <2>3. opened' \in Nat /\ written' \in Nat
    BY <1>1, <1>3, LogConstants DEF LogInv, LogTyped
  <2> QED BY <1>1, <1>2, <1>3, <1>4, <1>6, <1>10, <2>1, <2>2, <2>3 DEF LogInv, LogTyped, L!NoName
<1>13. Sized'
  <2>1. Cardinality(live'.ids) = 1
    BY <1>4, FS_Singleton
  <2> QED BY <1>1, <1>3, <1>4, <2>1 DEF Sized, L!NoName
<1>14. L!Lines(rotated)' = UNION {files[x].ids : x \in D \ gone}
  <2>1. L!Lines(rotated)' = UNION {rotated'[x].ids : x \in DOMAIN rotated'}
    BY DEF L!Lines
  <2> QED BY <1>5, <1>10, <2>1
<1>15. /\ \A x \in D : \A i \in files[x].ids : i \in live.ids \cup L!Lines(rotated)
       /\ live.ids \cup L!Lines(rotated) \subseteq UNION {files[x].ids : x \in D}
  BY <1>5, <1>7 DEF L!Lines
<1>16. (live.ids \cup L!Lines(rotated) \cup pruned = 1..lines)'
  <2>1. L!Lines(rotated)' \cup pruned' = (UNION {files[x].ids : x \in D}) \cup pruned
    <3>1. UNION {files[x].ids : x \in D}
            = (UNION {files[x].ids : x \in D \ gone}) \cup (UNION {files[x].ids : x \in gone})
      BY <1>5
    <3>2. pruned' = pruned \cup (UNION {files[x].ids : x \in gone})
      BY <1>1
    <3> QED BY <1>14, <3>1, <3>2
  <2>2. UNION {files[x].ids : x \in D} = live.ids \cup L!Lines(rotated)
    BY <1>15
  <2> QED BY <1>1, <1>2, <1>4, <2>1, <2>2 DEF LogInv
<1>17. ASSUME ~reused' PROVE Ordered'
  <2>1. Ordered
    BY <1>6, <1>17 DEF LogInv
  <2>2. ASSUME NEW x \in D, NEW y \in D, L!Sorted(x, y), NEW i \in files[x].ids,
               NEW j \in files[y].ids
        PROVE  i < j
    <3>1. x # T
      <4> SUFFICES ASSUME x = T PROVE FALSE
        OBVIOUS
      <4>1. y = T \/ L!Sorted(y, T)
        BY <1>5, <1>6, <1>17
      <4>2. x[1] \in Nat /\ x[2] \in Nat /\ y[1] \in Nat /\ y[2] \in Nat
        BY <1>8, LogConstants
      <4> QED BY <2>2, <4>1, <4>2 DEF L!Sorted
    <3>2. x \in DOMAIN rotated /\ i \in rotated[x].ids
      BY <1>5, <1>7, <3>1
    <3>3. CASE y = T
      BY <1>7, <2>1, <3>2, <3>3 DEF Ordered
    <3>4. CASE y # T
      BY <1>5, <1>7, <2>1, <2>2, <3>2, <3>4 DEF Ordered
    <3> QED BY <3>3, <3>4
  <2>3. \A x \in DOMAIN rotated' : \A i \in rotated'[x].ids : \A j \in live'.ids : i < j
    BY <1>2, <1>4, <1>5, <1>10, <1>15
  <2>4. \A i \in pruned' : \A j \in live'.ids \cup L!Lines(rotated)' : i < j
    <3> SUFFICES ASSUME NEW i \in pruned', NEW j \in live'.ids \cup L!Lines(rotated)' PROVE i < j
      OBVIOUS
    <3>1. CASE j = lines + 1
      BY <1>1, <1>2, <1>5, <1>15, <3>1
    <3>2. CASE j \in L!Lines(rotated)'
      <4>1. PICK y \in D \ gone : j \in files[y].ids
        BY <1>14, <3>2
      <4>2. CASE i \in pruned
        BY <1>15, <2>1, <4>1, <4>2 DEF Ordered
      <4>3. CASE i \notin pruned
        <5>1. PICK x \in gone : i \in files[x].ids
          BY <1>1, <4>3
        <5> QED BY <1>5, <1>9, <2>2, <4>1, <5>1
      <4> QED BY <4>2, <4>3
    <3> QED BY <1>4, <3>1, <3>2
  <2>5. stuck' = L!NoName'
    BY <1>1 DEF L!NoName
  <2>6. ASSUME NEW x \in DOMAIN rotated', NEW y \in DOMAIN rotated', L!Sorted(x, y),
               NEW i \in rotated'[x].ids, NEW j \in rotated'[y].ids
        PROVE  i < j
    BY <1>5, <1>10, <2>2, <2>6
  <2> QED BY <2>3, <2>4, <2>5, <2>6 DEF Ordered, L!Sorted
<1> QED BY <1>6, <1>12, <1>13, <1>16, <1>17 DEF LogInv

LEMMA LogNext == ASSUME LogInv, L!Next \/ UNCHANGED log PROVE LogInv'
  BY LogOpen, LogWriteLine, LogRotateThenWrite, LogRotateHalf DEF L!Next

LEMMA LogInvSound == LogInv => L!LogSound
<1> SUFFICES ASSUME LogInv PROVE L!LogSound
  OBVIOUS
<1>1. L!OldestGo
  BY DEF L!OldestGo, LogInv, Ordered
<1>2. L!SizeBounded
  BY LogCardinality DEF L!SizeBounded, LogInv, Sized
<1> QED BY <1>1, <1>2 DEF L!LogSound

(***************************************************************************)
(* The watermark                                                           *)
(***************************************************************************)

\* Every line read is in the batch or past it, and what the claim covers is
\* past it or counted.
ClaimInv ==
  /\ ts \in Seq(Times) /\ DOMAIN ts = batch \cup inflight \cup stored
  /\ W!ClaimedOrCounted

LEMMA ClaimInit == W!Init => ClaimInv
<1> SUFFICES ASSUME W!Init PROVE ClaimInv
  OBVIOUS
<1>1. ts = <<>> /\ DOMAIN ts = {} /\ batch = {} /\ inflight = {} /\ stored = {}
  BY DEF W!Init
<1>2. ts \in Seq(Times)
  BY <1>1
<1> QED BY <1>1, <1>2 DEF ClaimInv, W!ClaimedOrCounted

\* A line below the claim is counted as it is read.
LEMMA ClaimRead == ASSUME ClaimInv, NEW t \in Times, W!Read(t) PROVE ClaimInv'
<1>1. /\ ts' = Append(ts, t) /\ batch' = batch \cup {Len(ts')}
      /\ counted' = counted \cup (IF W!Violates(t) THEN {Len(ts')} ELSE {})
      /\ UNCHANGED <<inflight, stored, published>>
  BY DEF W!Read
<1>2. ts \in Seq(Times) /\ DOMAIN ts = batch \cup inflight \cup stored /\ W!ClaimedOrCounted
  BY DEF ClaimInv
<1> DEFINE n == Len(ts) + 1
<1>3. /\ ts' \in Seq(Times) /\ Len(ts') = n /\ DOMAIN ts' = DOMAIN ts \cup {n} /\ ts'[n] = t
      /\ \A i \in DOMAIN ts : i # n /\ ts'[i] = ts[i]
  <2> HIDE DEF n
  <2>0. DOMAIN ts = 1..Len(ts) /\ Len(ts) \in Nat
    BY <1>2, LenProperties
  <2>1. DOMAIN ts = 1..Len(ts) /\ Len(ts) \in Nat /\ 1..n = 1..Len(ts) \cup {n}
    BY <2>0 DEF n
  <2> QED BY <1>1, <1>2, <2>1, AppendProperties DEF n
<1> HIDE DEF n
<1>4. DOMAIN ts' = batch' \cup inflight' \cup stored'
  BY <1>1, <1>2, <1>3
<1>5. ASSUME NEW i \in DOMAIN ts', published' # W!None', ts'[i] < published'
      PROVE  i \in inflight' \cup stored' \cup counted'
  <2>1. published # W!None /\ W!None' = W!None
    BY <1>1, <1>5 DEF W!None
  <2>2. CASE i = n
    BY <1>1, <1>3, <1>5, <2>1, <2>2 DEF W!Violates
  <2>3. CASE i # n
    BY <1>1, <1>2, <1>3, <1>5, <2>1, <2>3 DEF W!ClaimedOrCounted
  <2> QED BY <2>2, <2>3
<1> QED BY <1>3, <1>4, <1>5 DEF ClaimInv, W!ClaimedOrCounted

LEMMA ClaimNext == ASSUME ClaimInv, W!Next \/ UNCHANGED watermark PROVE ClaimInv'
<1>1. CASE W!Flush
  \* Nothing is left in the batch.
  BY <1>1 DEF W!Flush, ClaimInv, W!ClaimedOrCounted
<1>2. CASE W!Land
  <2>1. /\ UNCHANGED <<ts, batch, published, counted>>
        /\ inflight' \cup stored' = inflight \cup stored
    BY <1>2 DEF W!Land, W!watermark
  <2> QED BY <2>1 DEF ClaimInv, W!ClaimedOrCounted, W!None
<1>3. CASE W!Checkpoint \/ W!Publish \/ UNCHANGED watermark
  <2>1. UNCHANGED <<ts, batch, inflight, stored, published, counted>>
    BY <1>3 DEF W!Checkpoint, W!Publish, watermark, W!lines, W!watermark
  <2> QED BY <2>1 DEF ClaimInv, W!ClaimedOrCounted, W!None
<1>4. CASE W!Restart
  <2>1. ts' = <<>> /\ DOMAIN ts' = {} /\ batch' = {} /\ inflight' = {} /\ stored' = {}
    BY <1>4 DEF W!Restart
  <2>2. ts' \in Seq(Times)
    BY <2>1
  <2> QED BY <2>1, <2>2 DEF ClaimInv, W!ClaimedOrCounted
<1> QED BY <1>1, <1>2, <1>3, <1>4, ClaimRead DEF W!Next

(***************************************************************************)
(* The estimate                                                            *)
(***************************************************************************)

\* What an element more makes of a sequence.
LEMMA Appended ==
  ASSUME NEW S, NEW s \in Seq(S), NEW e \in S
  PROVE  /\ Append(s, e) \in Seq(S) /\ Len(s) \in Nat /\ Len(s) + 1 \notin DOMAIN s
         /\ DOMAIN s = 1..Len(s) /\ DOMAIN Append(s, e) = DOMAIN s \cup {Len(s) + 1}
         /\ \A j \in DOMAIN s : j \in Nat /\ j < Len(s) + 1 /\ s[j] \in S /\ Append(s, e)[j] = s[j]
         /\ Append(s, e)[Len(s) + 1] = e
<1>1. DOMAIN s = 1..Len(s) /\ Len(s) \in Nat /\ \A j \in 1..Len(s) : s[j] \in S
  BY LenProperties, ElementOfSeq
<1>2. /\ Append(s, e) \in Seq(S) /\ Len(Append(s, e)) = Len(s) + 1
      /\ \A j \in 1..Len(s) : Append(s, e)[j] = s[j]
      /\ Append(s, e)[Len(s) + 1] = e
  BY AppendProperties
<1>3. DOMAIN Append(s, e) = 1..(Len(s) + 1)
  BY <1>2, LenProperties
<1> QED BY <1>1, <1>2, <1>3

LEMMA AppendedOnly ==
  ASSUME NEW S, NEW s \in Seq(S), NEW e \in S
  PROVE  LET t == Append(s, e) IN \A r \in DOMAIN t : (r \in DOMAIN s /\ t[r] = s[r]) \/ t[r] = e
  BY Appended

LEMMA SeqGrows ==
  ASSUME NEW S, NEW T_, S \subseteq T_, NEW s \in Seq(S)
  PROVE  s \in Seq(T_)
<1>1. DOMAIN s = 1..Len(s) /\ Len(s) \in Nat /\ \A j \in 1..Len(s) : s[j] \in S
  BY LenProperties, ElementOfSeq
<1>2. s \in [1..Len(s) -> T_]
  BY <1>1
<1> QED BY <1>1, <1>2

\* p picks k of the n numbers s in their order, and none of the others is less.
LeastFirst(n, s, k, p) ==
  /\ p \in [1..k -> 1..n]
  /\ \A i, j \in 1..k : i # j => p[i] # p[j]
  /\ \A i, j \in 1..k : i < j => s[p[i]] <= s[p[j]]
  /\ \A i \in 1..k, u \in 1..n : (\A j \in 1..k : p[j] # u) => s[p[i]] <= s[u]

LEMMA OneMore ==
  ASSUME NEW n \in Nat, NEW s \in [1..n -> Nat], NEW k \in Nat, NEW p, LeastFirst(n, s, k, p),
         NEW v \in 1..n, \A j \in 1..k : p[j] # v
  PROVE  \E q : LeastFirst(n, s, k + 1, q)
<1> DEFINE R == {u \in 1..n : \A j \in 1..k : p[j] # u}
           V == {s[u] : u \in R}
<1>1. PICK u \in R : \A w \in R : s[u] <= s[w]
  <2>1. V \in SUBSET Nat /\ V # {}
    OBVIOUS
  <2>2. PICK m \in V : \A x \in V : m <= x
    BY <2>1, LeastNumber
  <2>3. PICK u \in R : m = s[u]
    BY <2>2
  <2>4. \A w \in R : s[w] \in V
    OBVIOUS
  <2> QED BY <2>2, <2>3, <2>4
<1> DEFINE q == [i \in 1..(k + 1) |-> IF i = k + 1 THEN u ELSE p[i]]
<1>2. /\ q \in [1..(k + 1) -> 1..n] /\ q[k + 1] = u
      /\ \A i \in 1..k : q[i] = p[i] /\ i \in 1..(k + 1) /\ i < k + 1 /\ p[i] \in 1..n
      /\ \A i \in 1..(k + 1) : i \in 1..k \/ i = k + 1
  BY DEF LeastFirst
<1>3. \A i, j \in 1..k : /\ i # j => p[i] # p[j]
                         /\ i < j => s[p[i]] <= s[p[j]]
  BY DEF LeastFirst
<1>4. \A i \in 1..k : \A w \in R : s[p[i]] <= s[w]
  BY DEF LeastFirst
<1>5. u \in 1..n /\ \A j \in 1..k : p[j] # u
  OBVIOUS
<1> HIDE DEF q
<1>6. \A i, j \in 1..(k + 1) : i # j => q[i] # q[j]
  BY <1>2, <1>3, <1>5
<1>7. \A i, j \in 1..(k + 1) : i < j => s[q[i]] <= s[q[j]]
  <2> SUFFICES ASSUME NEW i \in 1..(k + 1), NEW j \in 1..(k + 1), i < j
               PROVE  s[q[i]] <= s[q[j]]
    OBVIOUS
  <2>1. i \in 1..k
    OBVIOUS
  <2>2. CASE j \in 1..k
    BY <1>2, <1>3, <2>1, <2>2
  <2>3. CASE j = k + 1
    BY <1>2, <1>4, <2>1, <2>3
  <2> QED BY <2>2, <2>3
<1>8. ASSUME NEW i \in 1..(k + 1), NEW w \in 1..n, \A j \in 1..(k + 1) : q[j] # w
      PROVE  s[q[i]] <= s[w]
  <2>1. w \in R
    BY <1>2, <1>8
  <2> QED BY <1>1, <1>2, <1>4, <2>1
<1>9. LeastFirst(n, s, k + 1, q)
  BY <1>2, <1>6, <1>7, <1>8 DEF LeastFirst
<1> QED BY <1>9

\* Every sequence of numbers can be sorted.
LEMMA SortExists ==
  ASSUME NEW n \in Nat, NEW s \in [1..n -> Nat]
  PROVE  \E p \in [1..n -> 1..n] :
           /\ \A u \in 1..n : \E i \in 1..n : p[i] = u
           /\ \A i, j \in 1..n : i < j => s[p[i]] <= s[p[j]]
<1> DEFINE D == {d \in 0..n : \E p : LeastFirst(n, s, n - d, p)}
<1>1. n \in D
  <2>1. LeastFirst(n, s, n - n, [i \in 1..0 |-> 1])
    BY DEF LeastFirst
  <2> QED BY <2>1
<1>2. PICK d \in D : \A e \in D : d <= e
  <2>1. D \in SUBSET Nat /\ D # {}
    BY <1>1
  <2> HIDE DEF D
  <2> QED BY <2>1, LeastNumber
<1> DEFINE k == n - d
<1>3. PICK p : LeastFirst(n, s, k, p)
  OBVIOUS
<1>4. k \in Nat /\ p \in Injection(1..k, 1..n)
  <2>1. p \in [1..k -> 1..n] /\ \A a, b \in 1..k : p[a] = p[b] => a = b
    BY <1>3 DEF LeastFirst
  <2>2. p \in Injection(1..k, 1..n)
    <3> HIDE DEF k
    <3> QED BY <2>1, Fun_IsInj
  <2> QED BY <2>2
<1>5. /\ IsFiniteSet(1..n) /\ Cardinality(1..n) = n /\ IsFiniteSet(1..k) /\ Cardinality(1..k) = k
  BY <1>4, FS_Interval
<1>6. k = n <=> p \in Surjection(1..k, 1..n)
  BY <1>4, <1>5, FS_Injection
<1>7. \A u \in 1..n : \E i \in 1..k : p[i] = u
  <2> SUFFICES ASSUME NEW u \in 1..n, \A i \in 1..k : p[i] # u PROVE FALSE
    OBVIOUS
  <2>1. k # n
    BY <1>6 DEF Surjection
  <2>2. \E q : LeastFirst(n, s, k + 1, q)
    BY <1>3, <1>4, OneMore
  <2>3. d - 1 \in D
    <3>1. d \in 1..n /\ n - (d - 1) = k + 1
      BY <2>1
    <3> QED BY <2>2, <3>1
  <2> QED BY <1>2, <2>3
<1>8. p \in Surjection(1..k, 1..n)
  BY <1>3, <1>7 DEF LeastFirst, Surjection
<1> QED BY <1>3, <1>6, <1>7, <1>8 DEF LeastFirst

\* What div says of a number.
LEMMA Divided ==
  ASSUME NEW a \in Nat, NEW b \in Nat \ {0}
  PROVE  /\ a \div b \in Nat
         /\ b * (a \div b) \in Nat /\ b * (a \div b) <= a /\ a < b * (a \div b) + b
  OBVIOUS

\* The rank is one of the window's, and no more than a half below the quantile.
LEMMA RankBounds ==
  ASSUME NEW n \in Nat \ {0}
  PROVE  /\ W!Rank(n) \in 0..(n - 1)
         /\ 2 * Den * W!Rank(n) + Den >= 2 * (n - 1) * Num
<1> DEFINE a == 2 * (n - 1) * Num + Den
           r == W!Rank(n)
<1>1. Num \in Nat /\ Den \in Nat \ {0} /\ Num <= Den
  BY RecordsAssumption DEF W!WatermarkAssumption
<1>2. (n - 1) * Num \in Nat /\ (n - 1) * Num <= (n - 1) * Den
  BY <1>1
<1>3. a \in Nat /\ 2 * Den \in Nat \ {0}
  BY <1>1, <1>2
<1>4. r = a \div (2 * Den)
  BY DEF W!Rank
<1>5. r \in Nat /\ (2 * Den) * r <= a /\ a < (2 * Den) * r + 2 * Den
  BY <1>3, <1>4, Divided
<1>6. r <= n - 1
  <2> SUFFICES ASSUME r >= n PROVE FALSE
    BY <1>5
  <2>1. (2 * Den) * r >= (2 * Den) * n
    BY <1>1, <1>5
  <2>2. (2 * Den) * n = 2 * ((n - 1) * Den) + 2 * Den
    BY <1>1
  <2> QED BY <1>1, <1>2, <1>5, <2>1, <2>2
<1> QED BY <1>1, <1>2, <1>5, <1>6

LEMMA SortedIs ==
  ASSUME NEW n \in Nat, NEW s \in [1..n -> Nat]
  PROVE  \E p \in [1..n -> 1..n] :
           /\ \A u \in 1..n : \E i \in 1..n : p[i] = u
           /\ \A i, j \in 1..n : i < j => s[p[i]] <= s[p[j]]
           /\ W!Sorted(s) = [i \in 1..n |-> s[p[i]]]
<1> DEFINE c == CHOOSE p \in [DOMAIN s -> DOMAIN s] : W!Sorts(s, p)
<1>1. DOMAIN s = 1..n
  OBVIOUS
<1>2. PICK e \in [1..n -> 1..n] : /\ \A u \in 1..n : \E i \in 1..n : e[i] = u
                                  /\ \A i, j \in 1..n : i < j => s[e[i]] <= s[e[j]]
  BY SortExists
<1>3. W!Sorts(s, e)
  BY <1>1, <1>2 DEF W!Sorts
<1>4. c \in [1..n -> 1..n] /\ W!Sorts(s, c)
  BY <1>1, <1>3
<1>5. W!Sorted(s) = [i \in 1..n |-> s[c[i]]]
  BY <1>1, Zenon DEF W!Sorted
<1> HIDE DEF c
<1>6. /\ \A u \in 1..n : \E i \in 1..n : c[i] = u
      /\ \A i, j \in 1..n : i < j => s[c[i]] <= s[c[j]]
  BY <1>1, <1>4 DEF W!Sorts
<1> QED BY <1>4, <1>5, <1>6

\* No more samples are later than the one of rank r than there are ranks above it.
LEMMA FewLater ==
  ASSUME NEW n \in Nat, NEW s \in [1..n -> Nat], NEW r \in 0..(n - 1), NEW x \in Nat,
         W!Sorted(s)[r + 1] <= x
  PROVE  Cardinality({i \in 1..n : s[i] > x}) \in 0..(n - 1 - r)
<1> DEFINE T == {i \in 1..n : s[i] > x}
<1>1. PICK p \in [1..n -> 1..n] :
        /\ \A u \in 1..n : \E i \in 1..n : p[i] = u
        /\ \A i, j \in 1..n : i < j => s[p[i]] <= s[p[j]]
        /\ W!Sorted(s) = [i \in 1..n |-> s[p[i]]]
  BY SortedIs
<1> DEFINE J == {j \in 1..n : s[p[j]] > x}
           f == [j \in J |-> p[j]]
<1>2. r + 1 \in 1..n /\ s[p[r + 1]] <= x /\ \A j \in 1..n : s[p[j]] \in Nat
  <2>1. r + 1 \in 1..n
    OBVIOUS
  <2>2. W!Sorted(s)[r + 1] = s[p[r + 1]]
    BY <1>1, <2>1
  <2>3. \A j \in 1..n : p[j] \in 1..n
    OBVIOUS
  <2> QED BY <2>1, <2>2, <2>3
<1>3. J \subseteq (r + 2)..n
  <2> SUFFICES ASSUME NEW j \in J PROVE j >= r + 2
    OBVIOUS
  <2>1. j \in 1..n /\ ~(s[p[j]] <= x) /\ r + 1 \in Nat
    BY <1>2
  <2>2. j # r + 1
    BY <1>2, <2>1
  <2>3. ~(j < r + 1)
    <3> SUFFICES ASSUME j < r + 1 PROVE FALSE
      OBVIOUS
    <3>1. s[p[j]] <= s[p[r + 1]]
      BY <1>1, <1>2, <2>1
    <3>2. s[p[j]] \in Nat /\ s[p[r + 1]] \in Nat
      BY <1>2, <2>1
    <3> QED BY <1>2, <2>1, <3>1, <3>2
  <2> QED BY <2>1, <2>2, <2>3
<1>4. f \in Surjection(J, T)
  <2>1. \A j \in J : p[j] \in T
    OBVIOUS
  <2>2. \A t \in T : \E j \in J : p[j] = t
    BY <1>1
  <2> QED BY <2>1, <2>2 DEF Surjection
<1>5. IsFiniteSet((r + 2)..n) /\ Cardinality((r + 2)..n) = n - 1 - r
  <2>1. Cardinality((r + 2)..n) = IF r + 2 > n THEN 0 ELSE n - (r + 2) + 1
    BY FS_Interval
  <2>2. IsFiniteSet((r + 2)..n)
    BY FS_Interval
  <2> QED BY <2>1, <2>2
<1> HIDE DEF f, J, T
<1>6. IsFiniteSet(J) /\ Cardinality(J) <= n - 1 - r /\ Cardinality(J) \in Nat
  <2>1. IsFiniteSet(J) /\ Cardinality(J) <= Cardinality((r + 2)..n)
    BY <1>3, <1>5, FS_Subset
  <2> QED BY <1>5, <2>1, FS_CardinalityType
<1>7. IsFiniteSet(T) /\ Cardinality(T) <= Cardinality(J) /\ Cardinality(T) \in Nat
  BY <1>4, <1>6, FS_Surjection, FS_CardinalityType
<1> QED BY <1>6, <1>7 DEF T

LEMMA EstimateTyped ==
  ASSUME samples \in Seq(Nat)
  PROVE  /\ W!Estimate \in Floor..Ceiling
         /\ W!Estimate < Ceiling =>
              LET n == Len(samples) IN
              /\ n \in Nat \ {0} /\ W!Sorted(samples)[W!Rank(n) + 1] \in Nat
              /\ W!Sorted(samples)[W!Rank(n) + 1] <= W!Estimate
<1> DEFINE n == Len(samples)
           v == W!Sorted(samples)[W!Rank(n) + 1]
<1>1. /\ Floor \in Nat /\ Ceiling \in Nat /\ Floor <= Ceiling /\ MinSamples \in Nat \ {0}
  BY RecordsAssumption DEF W!WatermarkAssumption
<1>2. n \in Nat /\ DOMAIN samples = 1..n /\ samples \in [1..n -> Nat]
  BY LenProperties
<1>3. W!Estimate = IF n < MinSamples THEN Ceiling ELSE W!Clamp(v)
  BY DEF W!Estimate
<1>4. ASSUME n >= MinSamples PROVE n \in Nat \ {0} /\ v \in Nat
  <2>1. n \in Nat \ {0}
    BY <1>1, <1>2, <1>4
  <2> HIDE DEF n
  <2>2. W!Rank(n) + 1 \in 1..n
    BY <2>1, RankBounds
  <2>3. PICK p \in [1..n -> 1..n] : W!Sorted(samples) = [i \in 1..n |-> samples[p[i]]]
    BY <1>2, SortedIs
  <2>4. v = samples[p[W!Rank(n) + 1]] /\ p[W!Rank(n) + 1] \in 1..n
    BY <2>2, <2>3
  <2> QED BY <1>2, <2>1, <2>4
<1> SUFFICES /\ W!Estimate \in Floor..Ceiling
             /\ W!Estimate < Ceiling => n \in Nat \ {0} /\ v \in Nat /\ v <= W!Estimate
  OBVIOUS
<1> HIDE DEF n, v
<1> QED BY <1>1, <1>2, <1>3, <1>4 DEF W!Clamp

LEMMA AllowanceCovered ==
  ASSUME samples \in Seq(Nat)
  PROVE  W!AllowanceCovers
<1> SUFFICES ASSUME W!Estimate < Ceiling
             PROVE  2 * Den * Cardinality({i \in DOMAIN samples : samples[i] > W!Estimate})
                      <= 2 * (Den - Num) * (Len(samples) - 1) + Den
  BY DEF W!AllowanceCovers, W!Cardinality, Cardinality
<1> DEFINE n == Len(samples)
           r == W!Rank(n)
           v == W!Sorted(samples)[r + 1]
           c == Cardinality({i \in DOMAIN samples : samples[i] > W!Estimate})
<1>1. /\ Num \in Nat /\ Den \in Nat \ {0} /\ Floor \in Nat /\ Ceiling \in Nat /\ Floor <= Ceiling
      /\ MinSamples \in Nat \ {0}
  BY RecordsAssumption DEF W!WatermarkAssumption
<1>2. n \in Nat /\ DOMAIN samples = 1..n /\ samples \in [1..n -> Nat]
  BY LenProperties
<1>3. n \in Nat \ {0} /\ v \in Nat /\ W!Estimate \in Nat /\ v <= W!Estimate
  BY <1>1, EstimateTyped
<1>4. r \in 0..(n - 1) /\ 2 * Den * r + Den >= 2 * (n - 1) * Num
  <2> HIDE DEF n
  <2> QED BY <1>3, RankBounds
<1>7. c \in 0..(n - 1 - r)
  <2> HIDE DEF n, r
  <2> QED BY <1>2, <1>3, <1>4, FewLater
<1> HIDE DEF n, r, v, c
<1>8. c \in Nat /\ c <= n - 1 - r
  BY <1>3, <1>4, <1>7
<1>9. (2 * Den) * c <= (2 * Den) * (n - 1 - r)
  BY <1>1, <1>3, <1>4, <1>8
<1>10. (2 * Den) * (n - 1 - r) = 2 * Den * (n - 1) - 2 * Den * r
  BY <1>1, <1>3, <1>4
<1>11. 2 * (Den - Num) * (n - 1) + Den = 2 * Den * (n - 1) - 2 * (n - 1) * Num + Den
  BY <1>1, <1>3, <1>4
<1>12. 2 * Den * c <= 2 * (Den - Num) * (n - 1) + Den
  BY <1>1, <1>3, <1>4, <1>8, <1>9, <1>10, <1>11
<1> QED BY <1>12 DEF n, c

\* What has been observed is no later than max_ts_seen.
ClaimTyped == W!TypeOK /\ \A i \in DOMAIN ts : ts[i] <= max

LEMMA WatermarkConstants ==
  /\ Times \subseteq Nat /\ Floor \in Nat /\ Ceiling \in Nat /\ Floor <= Ceiling
  /\ Window \in Nat \ {0} /\ ReadLines \in Nat /\ ReadStarts \in Nat /\ W!None \in Int
  BY RecordsAssumption DEF W!WatermarkAssumption, W!None

LEMMA ClampTyped == \A x \in Int : W!Clamp(x) \in Floor..Ceiling
  BY WatermarkConstants DEF W!Clamp

LEMMA TypedInit == W!Init => ClaimTyped
<1> SUFFICES ASSUME W!Init PROVE ClaimTyped
  OBVIOUS
<1>1. ts = <<>> /\ DOMAIN ts = {} /\ Len(ts) = 0 /\ samples = <<>> /\ Len(samples) = 0
  BY DEF W!Init
<1>2. ts \in Seq(Times) /\ samples \in Seq(Nat)
  BY <1>1
<1> QED BY <1>1, <1>2, WatermarkConstants DEF W!Init, ClaimTyped, W!TypeOK

LEMMA TypedRead == ASSUME ClaimTyped, NEW t \in Times, W!Read(t) PROVE ClaimTyped'
<1> DEFINE n == Len(ts) + 1
           kept == IF Len(samples) = Window THEN Tail(samples) ELSE samples
           late == IF t < max THEN max - t ELSE 0
<1>1. /\ Len(ts) < ReadLines /\ ts' = Append(ts, t) /\ batch' = batch \cup {Len(ts')}
      /\ samples' = IF max = -1 THEN samples ELSE Append(kept, late)
      /\ max' = IF t > max THEN t ELSE max
      /\ counted' = counted \cup (IF W!Violates(t) THEN {Len(ts')} ELSE {})
      /\ UNCHANGED <<inflight, stored, lateness, published, saved, row, starts>>
  BY DEF W!Read
<1>2. ts \in Seq(Times) /\ samples \in Seq(Nat) /\ max \in Int /\ t \in Nat
  BY WatermarkConstants DEF ClaimTyped, W!TypeOK
<1>3. /\ ts' \in Seq(Times) /\ Len(ts') = n /\ DOMAIN ts' = DOMAIN ts \cup {n} /\ ts'[n] = t
      /\ \A i \in DOMAIN ts : ts'[i] = ts[i] /\ ts[i] \in Times
      /\ Len(ts) \in Nat
  BY <1>1, <1>2, Appended, AppendProperties
<1>4. Len(ts') <= ReadLines
  BY <1>1, <1>3, WatermarkConstants
<1>5. kept \in Seq(Nat) /\ Len(kept) \in Nat /\ Len(kept) + 1 <= Window
  <2>1. Len(samples) \in Nat /\ Len(samples) <= Window
    BY <1>2, LenProperties DEF ClaimTyped, W!TypeOK
  <2>2. CASE Len(samples) = Window
    <3>1. samples # <<>>
      BY <1>2, <2>2, WatermarkConstants, EmptySeq
    <3> QED BY <1>2, <2>2, <3>1, HeadTailProperties, WatermarkConstants
  <2> QED BY <1>2, <2>1, <2>2, WatermarkConstants
<1>6. late \in Nat
  BY <1>2
<1> HIDE DEF kept, late, n
<1>7. samples' \in Seq(Nat) /\ Len(samples') <= Window
  <2>1. Append(kept, late) \in Seq(Nat) /\ Len(Append(kept, late)) = Len(kept) + 1
    BY <1>5, <1>6, AppendProperties
  <2> QED BY <1>1, <1>5, <2>1 DEF ClaimTyped, W!TypeOK
<1>8. /\ batch' \subseteq DOMAIN ts' /\ inflight' \subseteq DOMAIN ts' /\ stored' \subseteq DOMAIN ts'
      /\ counted' \subseteq DOMAIN ts'
  BY <1>1, <1>3 DEF ClaimTyped, W!TypeOK
<1>9. max' \in Times \cup {-1} /\ \A i \in DOMAIN ts' : ts'[i] <= max'
  <2>1. \A i \in DOMAIN ts : ts[i] <= max /\ ts[i] \in Int
    BY <1>3, WatermarkConstants DEF ClaimTyped
  <2> QED BY <1>1, <1>2, <1>3, <2>1 DEF ClaimTyped, W!TypeOK
<1> QED BY <1>1, <1>3, <1>4, <1>7, <1>8, <1>9 DEF ClaimTyped, W!TypeOK

\* A nonempty set of bounded naturals has a greatest element.
LEMMA GreatestExists ==
  ASSUME NEW S \in SUBSET Nat, S # {}, NEW b \in Nat, \A x \in S : x <= b
  PROVE  W!Max(S) \in S
<1> DEFINE B == {u \in Nat : \A x \in S : x <= u}
<1>1. B \in SUBSET Nat /\ B # {}
  OBVIOUS
<1>2. PICK m \in B : \A u \in B : m <= u
  BY <1>1, LeastNumber
<1>3. m \in S
  <2> SUFFICES ASSUME m \notin S PROVE FALSE
    OBVIOUS
  <2>1. \A x \in S : x < m /\ x \in Nat
    BY <1>2
  <2>2. m \in Nat /\ m # 0
    <3>1. PICK x \in S : TRUE
      OBVIOUS
    <3>2. m \in Nat
      BY <1>2
    <3> QED BY <2>1, <3>1, <3>2
  <2>3. m - 1 \in Nat /\ \A x \in S : x <= m - 1
    BY <2>1, <2>2
  <2>4. m - 1 \in B
    BY <2>3
  <2> QED BY <1>2, <2>2, <2>4
<1>4. \A x \in S : m >= x
  BY <1>2
<1> QED BY <1>3, <1>4 DEF W!Max

LEMMA TypedFlush == ASSUME ClaimTyped, W!Flush PROVE ClaimTyped'
<1> DEFINE S == {ts[i] : i \in batch}
           c == W!Max(S) - W!Estimate
<1>1. /\ batch # {} /\ batch' = {} /\ inflight' = inflight \cup batch /\ lateness' = W!Estimate
      /\ published' = IF published = W!None \/ c > published THEN c ELSE published
      /\ UNCHANGED <<ts, stored, samples, max, counted, saved, row, starts>>
  BY Zenon DEF W!Flush
<1>2. W!Estimate \in Floor..Ceiling
  BY ClampTyped, WatermarkConstants, EstimateTyped DEF ClaimTyped, W!TypeOK
<1>3. W!Max(S) \in Nat
  <2>1. \A i \in batch : ts[i] \in Nat /\ ts[i] <= max
    <3>1. ts \in Seq(Times) /\ batch \subseteq DOMAIN ts
      BY DEF ClaimTyped, W!TypeOK
    <3> QED BY <3>1, WatermarkConstants, LenProperties, ElementOfSeq DEF ClaimTyped
  <2>2. max \in Nat
    BY <1>1, <2>1, WatermarkConstants DEF ClaimTyped, W!TypeOK
  <2>3. S \in SUBSET Nat /\ S # {} /\ \A x \in S : x <= max
    BY <1>1, <2>1
  <2> HIDE DEF S
  <2> QED BY <2>2, <2>3, GreatestExists
<1> HIDE DEF S
<1>4. c \in Int
  BY <1>2, <1>3, WatermarkConstants
<1> HIDE DEF c
<1> QED BY <1>1, <1>2, <1>4 DEF ClaimTyped, W!TypeOK

LEMMA TypedNext == ASSUME ClaimTyped, W!Next \/ UNCHANGED watermark PROVE ClaimTyped'
<1>1. CASE W!Land
  BY <1>1 DEF W!Land, W!watermark, ClaimTyped, W!TypeOK
<1>2. CASE W!Checkpoint
  BY <1>2, WatermarkConstants DEF W!Checkpoint, W!lines, W!watermark, ClaimTyped, W!TypeOK
<1>3. CASE W!Publish
  BY <1>3 DEF W!Publish, W!lines, W!watermark, ClaimTyped, W!TypeOK
<1>4. CASE UNCHANGED watermark
  BY <1>4 DEF watermark, ClaimTyped, W!TypeOK
<1>5. CASE W!Restart
  <2>1. /\ ts' = <<>> /\ samples' = <<>> /\ batch' = {} /\ inflight' = {} /\ stored' = {}
        /\ max' = -1 /\ published' = W!None /\ counted' = {} /\ starts < ReadStarts
        /\ starts' = starts + 1 /\ lateness' = W!Resumed(saved) /\ UNCHANGED <<saved, row>>
    BY <1>5 DEF W!Restart
  <2>2. /\ ts' \in Seq(Times) /\ samples' \in Seq(Nat) /\ DOMAIN ts' = {}
        /\ Len(ts') = 0 /\ Len(samples') = 0
    BY <2>1
  <2>3. lateness' \in Floor..Ceiling
    BY <2>1, ClampTyped, WatermarkConstants DEF W!Resumed, ClaimTyped, W!TypeOK
  <2> QED BY <2>1, <2>2, <2>3, WatermarkConstants DEF ClaimTyped, W!TypeOK
<1> QED BY <1>1, <1>2, <1>3, <1>4, <1>5, TypedRead, TypedFlush DEF W!Next

(***************************************************************************)
(* The framers                                                             *)
(***************************************************************************)

\* The stream under which a framer of kind kd buffers m.
StreamOf(kd, m) == IF kd \in {"docker", "cri"} THEN m.stream ELSE "out"

FramesTyped(f, h, rs, x) ==
  /\ f \in Seq(F!Marks) /\ x \subseteq DOMAIN f
  /\ h \in [F!Streams -> Seq(DOMAIN f)] /\ rs \in Seq(Seq(DOMAIN f))

In(s, i) == \E j \in DOMAIN s : s[j] = i

\* Of the lines f, those outside x are in the records rs or held in h.
NoneLost(kd, f, h, rs, x) ==
  \A i \in DOMAIN f :
    i \in x <=> ~((\E r \in DOMAIN rs : In(rs[r], i)) \/ In(h[StreamOf(kd, f[i])], i))

HeldInOrder(kd, f, h, rs) ==
  \A s \in F!Streams : \A k \in DOMAIN h[s] :
    /\ StreamOf(kd, f[h[s][k]]) = s
    /\ \A j \in DOMAIN h[s] : j < k => h[s][j] < h[s][k]
    /\ \A r \in DOMAIN rs : \A j \in DOMAIN rs[r] :
         StreamOf(kd, f[rs[r][j]]) = s => rs[r][j] < h[s][k]

ReleasedInOrder(kd, f, rs) ==
  \A q, r \in DOMAIN rs : \A j \in DOMAIN rs[q], k \in DOMAIN rs[r] :
    StreamOf(kd, f[rs[q][j]]) = StreamOf(kd, f[rs[r][k]]) /\ (q < r \/ (q = r /\ j < k)) =>
      rs[q][j] < rs[r][k]

Kept(kd, f, h, rs, x) ==
  /\ FramesTyped(f, h, rs, x) /\ NoneLost(kd, f, h, rs, x)
  /\ HeldInOrder(kd, f, h, rs) /\ ReleasedInOrder(kd, f, rs)

\* One more line leaves what is known of the others alone.
LEMMA OffersGrow ==
  ASSUME NEW f \in Seq(F!Marks), NEW m \in F!Marks, NEW h \in [F!Streams -> Seq(DOMAIN f)],
         NEW rs \in Seq(Seq(DOMAIN f))
  PROVE  LET g == Append(f, m)  n == Len(f) + 1 IN
         /\ g \in Seq(F!Marks) /\ n \in Nat /\ DOMAIN g = DOMAIN f \cup {n} /\ n \notin DOMAIN f
         /\ g[n] = m /\ \A i \in DOMAIN f : g[i] = f[i] /\ i \in Nat /\ i < n
         /\ h \in [F!Streams -> Seq(DOMAIN g)] /\ rs \in Seq(Seq(DOMAIN g))
         /\ \A s \in F!Streams : \A j \in DOMAIN h[s] : h[s][j] \in DOMAIN f
         /\ \A r \in DOMAIN rs : \A j \in DOMAIN rs[r] : rs[r][j] \in DOMAIN f
<1> DEFINE g == Append(f, m)
           n == Len(f) + 1
<1>1. /\ g \in Seq(F!Marks) /\ n \in Nat /\ DOMAIN g = DOMAIN f \cup {n} /\ n \notin DOMAIN f
      /\ g[n] = m /\ \A i \in DOMAIN f : g[i] = f[i] /\ i \in Nat /\ i < n
  BY Appended
<1> HIDE DEF g, n
<1>2. \A s \in F!Streams : h[s] \in Seq(DOMAIN f) /\ h[s] \in Seq(DOMAIN g)
  BY <1>1, SeqGrows
<1>3. h \in [F!Streams -> Seq(DOMAIN g)]
  BY <1>2
<1>4. Seq(DOMAIN f) \subseteq Seq(DOMAIN g)
  BY <1>1, SeqGrows
<1>5. rs \in Seq(Seq(DOMAIN g))
  BY <1>4, SeqGrows
<1>6. \A s \in F!Streams : \A j \in DOMAIN h[s] : h[s][j] \in DOMAIN f
  BY <1>2, LenProperties, ElementOfSeq
<1>7. \A r \in DOMAIN rs : rs[r] \in Seq(DOMAIN f)
  BY LenProperties, ElementOfSeq
<1>8. \A r \in DOMAIN rs : \A j \in DOMAIN rs[r] : rs[r][j] \in DOMAIN f
  BY <1>7, LenProperties, ElementOfSeq
<1> QED BY <1>1, <1>3, <1>5, <1>6, <1>8 DEF g, n

LEMMA StreamTyped ==
  ASSUME NEW kd, NEW f \in Seq(F!Marks)
  PROVE  \A i \in DOMAIN f : StreamOf(kd, f[i]) \in F!Streams
<1>1. \A m \in F!Marks : StreamOf(kd, m) \in F!Streams
  BY DEF StreamOf, F!Marks, F!Streams
<1>2. \A i \in DOMAIN f : f[i] \in F!Marks
  BY LenProperties, ElementOfSeq
<1> QED BY <1>1, <1>2

LEMMA RefusedKeeps ==
  ASSUME NEW kd, NEW f, NEW h, NEW rs, NEW x, Kept(kd, f, h, rs, x), NEW m \in F!Marks
  PROVE  Kept(kd, Append(f, m), h, rs, x \cup {Len(f) + 1})
<1> DEFINE g == Append(f, m)
           n == Len(f) + 1
<1>1. /\ f \in Seq(F!Marks) /\ x \subseteq DOMAIN f
      /\ h \in [F!Streams -> Seq(DOMAIN f)] /\ rs \in Seq(Seq(DOMAIN f))
  BY DEF Kept, FramesTyped
<1>2. /\ g \in Seq(F!Marks) /\ n \in Nat /\ DOMAIN g = DOMAIN f \cup {n} /\ n \notin DOMAIN f
      /\ g[n] = m /\ \A i \in DOMAIN f : g[i] = f[i] /\ i \in Nat /\ i < n
      /\ h \in [F!Streams -> Seq(DOMAIN g)] /\ rs \in Seq(Seq(DOMAIN g))
      /\ \A s \in F!Streams : \A j \in DOMAIN h[s] : h[s][j] \in DOMAIN f
      /\ \A r \in DOMAIN rs : \A j \in DOMAIN rs[r] : rs[r][j] \in DOMAIN f
  BY <1>1, OffersGrow
<1> HIDE DEF g, n
<1>3. FramesTyped(g, h, rs, x \cup {n})
  BY <1>1, <1>2 DEF FramesTyped
<1>4. StreamOf(kd, m) \in F!Streams
  BY DEF StreamOf, F!Marks, F!Streams
<1>5. NoneLost(kd, g, h, rs, x \cup {n})
  <2> SUFFICES ASSUME NEW i \in DOMAIN g
               PROVE  i \in x \cup {n} <=>
                        ~((\E r \in DOMAIN rs : In(rs[r], i)) \/ In(h[StreamOf(kd, g[i])], i))
    BY DEF NoneLost
  <2>1. CASE i = n
    BY <1>2, <1>4, <2>1 DEF In
  <2>2. CASE i \in DOMAIN f
    BY <1>2, <2>2 DEF Kept, NoneLost
  <2> QED BY <1>2, <2>1, <2>2
<1>6. HeldInOrder(kd, g, h, rs) /\ ReleasedInOrder(kd, g, rs)
  BY <1>2 DEF Kept, HeldInOrder, ReleasedInOrder
<1> QED BY <1>3, <1>5, <1>6 DEF Kept, g, n

\* A line that is buffered is the last of its stream.
LEMMA BufferedKeeps ==
  ASSUME NEW kd, NEW f, NEW h, NEW rs, NEW x, Kept(kd, f, h, rs, x), NEW m \in F!Marks
  PROVE  Kept(kd, Append(f, m),
              [h EXCEPT ![StreamOf(kd, m)] = Append(h[StreamOf(kd, m)], Len(f) + 1)], rs, x)
<1> DEFINE g == Append(f, m)
           n == Len(f) + 1
           o == StreamOf(kd, m)
           k_ == [h EXCEPT ![o] = Append(h[o], n)]
           e == Len(h[o]) + 1
<1>1. /\ f \in Seq(F!Marks) /\ x \subseteq DOMAIN f
      /\ h \in [F!Streams -> Seq(DOMAIN f)] /\ rs \in Seq(Seq(DOMAIN f))
  BY DEF Kept, FramesTyped
<1>2. /\ g \in Seq(F!Marks) /\ n \in Nat /\ DOMAIN g = DOMAIN f \cup {n} /\ n \notin DOMAIN f
      /\ g[n] = m /\ \A i \in DOMAIN f : g[i] = f[i] /\ i \in Nat /\ i < n
      /\ h \in [F!Streams -> Seq(DOMAIN g)] /\ rs \in Seq(Seq(DOMAIN g))
      /\ \A s \in F!Streams : \A j \in DOMAIN h[s] : h[s][j] \in DOMAIN f
      /\ \A r \in DOMAIN rs : \A j \in DOMAIN rs[r] : rs[r][j] \in DOMAIN f
  BY <1>1, OffersGrow
<1>3. o \in F!Streams
  BY DEF StreamOf, F!Marks, F!Streams
<1> HIDE DEF g, n, o
<1>4. /\ Append(h[o], n) \in Seq(DOMAIN g) /\ e \notin DOMAIN h[o]
      /\ DOMAIN Append(h[o], n) = DOMAIN h[o] \cup {e}
      /\ \A j \in DOMAIN h[o] : j \in Nat /\ j < e /\ Append(h[o], n)[j] = h[o][j]
      /\ Append(h[o], n)[e] = n /\ e \in Nat
  <2>1. h[o] \in Seq(DOMAIN g) /\ n \in DOMAIN g
    BY <1>2, <1>3
  <2> HIDE DEF e
  <2> QED BY <2>1, Appended DEF e
<1> HIDE DEF e
<1>5. /\ k_ \in [F!Streams -> Seq(DOMAIN g)] /\ k_[o] = Append(h[o], n)
      /\ \A s \in F!Streams : s # o => k_[s] = h[s]
  BY <1>2, <1>3, <1>4
<1> HIDE DEF k_
<1>6. FramesTyped(g, k_, rs, x)
  BY <1>1, <1>2, <1>5 DEF FramesTyped
<1>7. NoneLost(kd, g, k_, rs, x)
  <2> SUFFICES ASSUME NEW i \in DOMAIN g
               PROVE  i \in x <=>
                        ~((\E r \in DOMAIN rs : In(rs[r], i)) \/ In(k_[StreamOf(kd, g[i])], i))
    BY DEF NoneLost
  <2>1. CASE i = n
    <3>1. In(k_[o], n)
      BY <1>4, <1>5 DEF In
    <3> QED BY <1>1, <1>2, <2>1, <3>1 DEF o
  <2>2. CASE i \in DOMAIN f
    <3>1. StreamOf(kd, f[i]) \in F!Streams /\ g[i] = f[i] /\ i # n
      BY <1>1, <1>2, <2>2, StreamTyped
    <3>2. In(k_[StreamOf(kd, f[i])], i) <=> In(h[StreamOf(kd, f[i])], i)
      BY <1>4, <1>5, <3>1 DEF In
    <3> QED BY <2>2, <3>1, <3>2 DEF Kept, NoneLost
  <2> QED BY <1>2, <2>1, <2>2
<1>8. HeldInOrder(kd, g, k_, rs)
  <2> SUFFICES ASSUME NEW s \in F!Streams, NEW k \in DOMAIN k_[s]
               PROVE  /\ StreamOf(kd, g[k_[s][k]]) = s
                      /\ \A j \in DOMAIN k_[s] : j < k => k_[s][j] < k_[s][k]
                      /\ \A r \in DOMAIN rs : \A j \in DOMAIN rs[r] :
                           StreamOf(kd, g[rs[r][j]]) = s => rs[r][j] < k_[s][k]
    BY DEF HeldInOrder
  <2>1. CASE s = o /\ k = e
    <3>1. k_[s][k] = n /\ StreamOf(kd, g[n]) = s
      BY <1>2, <1>4, <1>5, <2>1 DEF o
    <3>2. \A j \in DOMAIN k_[s] : j < k => j \in DOMAIN h[o] /\ k_[s][j] = h[o][j]
      BY <1>4, <1>5, <2>1
    <3>3. \A j \in DOMAIN h[o] : h[o][j] < n
      BY <1>2, <1>3
    <3> QED BY <1>2, <3>1, <3>2, <3>3
  <2>2. CASE s = o /\ k \in DOMAIN h[o]
    <3>1. k_[s][k] = h[s][k] /\ \A j \in DOMAIN k_[s] : j < k => j \in DOMAIN h[s] /\ k_[s][j] = h[s][j]
      BY <1>4, <1>5, <2>2
    <3>2. /\ StreamOf(kd, f[h[s][k]]) = s /\ h[s][k] \in DOMAIN f
          /\ \A j \in DOMAIN h[s] : j < k => h[s][j] < h[s][k]
          /\ \A r \in DOMAIN rs : \A j \in DOMAIN rs[r] :
               StreamOf(kd, f[rs[r][j]]) = s => rs[r][j] < h[s][k]
      BY <1>2, <1>3, <2>2 DEF Kept, HeldInOrder
    <3>3. /\ StreamOf(kd, g[h[s][k]]) = s
          /\ \A r \in DOMAIN rs : \A j \in DOMAIN rs[r] :
               StreamOf(kd, g[rs[r][j]]) = s => rs[r][j] < h[s][k]
      BY <1>2, <3>2
    <3> QED BY <3>1, <3>2, <3>3
  <2>3. CASE s # o
    BY <1>2, <1>5, <2>3 DEF Kept, HeldInOrder
  <2> QED BY <1>4, <1>5, <2>1, <2>2, <2>3
<1>9. ReleasedInOrder(kd, g, rs)
  BY <1>2 DEF Kept, ReleasedInOrder
<1> QED BY <1>6, <1>7, <1>8, <1>9 DEF Kept, k_, g, n, o

\* What is held of a stream may be released at any time.
LEMMA ReleasedKeeps ==
  ASSUME NEW kd, NEW f, NEW h, NEW rs, NEW x, Kept(kd, f, h, rs, x), NEW o \in F!Streams
  PROVE  Kept(kd, f, [h EXCEPT ![o] = <<>>], Append(rs, h[o]), x)
<1> DEFINE k_ == [h EXCEPT ![o] = <<>>]
           t == Append(rs, h[o])
           e == Len(rs) + 1
<1>1. /\ f \in Seq(F!Marks) /\ x \subseteq DOMAIN f
      /\ h \in [F!Streams -> Seq(DOMAIN f)] /\ rs \in Seq(Seq(DOMAIN f))
  BY DEF Kept, FramesTyped
<1>2. /\ t \in Seq(Seq(DOMAIN f)) /\ e \notin DOMAIN rs /\ DOMAIN t = DOMAIN rs \cup {e}
      /\ \A r \in DOMAIN rs : r \in Nat /\ r < e /\ t[r] = rs[r]
      /\ t[e] = h[o] /\ e \in Nat
  <2>1. h[o] \in Seq(DOMAIN f)
    BY <1>1
  <2> QED BY <1>1, <2>1, Appended
<1>3. /\ k_ \in [F!Streams -> Seq(DOMAIN f)] /\ DOMAIN k_[o] = {}
      /\ \A s \in F!Streams : s # o => k_[s] = h[s]
  BY <1>1
<1> HIDE DEF k_, t, e
<1>4. FramesTyped(f, k_, t, x)
  BY <1>1, <1>2, <1>3 DEF FramesTyped
<1>5. NoneLost(kd, f, k_, t, x)
  <2> SUFFICES ASSUME NEW i \in DOMAIN f
               PROVE  i \in x <=>
                        ~((\E r \in DOMAIN t : In(t[r], i)) \/ In(k_[StreamOf(kd, f[i])], i))
    BY DEF NoneLost
  <2>1. StreamOf(kd, f[i]) \in F!Streams
    BY <1>1, StreamTyped
  <2>2. (\E r \in DOMAIN t : In(t[r], i)) <=> (\E r \in DOMAIN rs : In(rs[r], i)) \/ In(h[o], i)
    BY <1>2
  <2>3. In(h[o], i) => StreamOf(kd, f[i]) = o
    BY DEF In, Kept, HeldInOrder
  <2>4. StreamOf(kd, f[i]) = o => ~In(k_[StreamOf(kd, f[i])], i)
    BY <1>3 DEF In
  <2>5. StreamOf(kd, f[i]) # o => k_[StreamOf(kd, f[i])] = h[StreamOf(kd, f[i])]
    BY <1>3, <2>1
  <2>6. i \in x <=> ~((\E r \in DOMAIN rs : In(rs[r], i)) \/ In(h[StreamOf(kd, f[i])], i))
    BY DEF Kept, NoneLost
  <2> QED BY <2>2, <2>3, <2>4, <2>5, <2>6
<1>6. HeldInOrder(kd, f, k_, t)
  <2> SUFFICES ASSUME NEW s \in F!Streams, NEW k \in DOMAIN k_[s]
               PROVE  /\ StreamOf(kd, f[k_[s][k]]) = s
                      /\ \A j \in DOMAIN k_[s] : j < k => k_[s][j] < k_[s][k]
                      /\ \A r \in DOMAIN t : \A j \in DOMAIN t[r] :
                           StreamOf(kd, f[t[r][j]]) = s => t[r][j] < k_[s][k]
    BY DEF HeldInOrder
  <2>1. s # o /\ k_[s] = h[s] /\ k \in DOMAIN h[s]
    BY <1>3
  <2>2. \A j \in DOMAIN h[o] : StreamOf(kd, f[h[o][j]]) = o
    BY DEF Kept, HeldInOrder
  <2> QED BY <1>2, <2>1, <2>2 DEF Kept, HeldInOrder
<1>7. ReleasedInOrder(kd, f, t)
  <2> SUFFICES ASSUME NEW q \in DOMAIN t, NEW r \in DOMAIN t,
                      NEW j \in DOMAIN t[q], NEW k \in DOMAIN t[r],
                      StreamOf(kd, f[t[q][j]]) = StreamOf(kd, f[t[r][k]]),
                      q < r \/ (q = r /\ j < k)
               PROVE  t[q][j] < t[r][k]
    BY DEF ReleasedInOrder
  <2>1. CASE r \in DOMAIN rs
    <3>1. q \in DOMAIN rs
      BY <1>2, <2>1
    <3> QED BY <1>2, <2>1, <3>1 DEF Kept, ReleasedInOrder
  <2>2. CASE r = e
    <3>1. StreamOf(kd, f[h[o][k]]) = o /\ t[r] = h[o]
      BY <1>2, <2>2 DEF Kept, HeldInOrder
    <3>2. CASE q = e
      BY <1>2, <2>2, <3>2 DEF Kept, HeldInOrder
    <3>3. CASE q \in DOMAIN rs
      BY <1>2, <2>2, <3>1, <3>3 DEF Kept, HeldInOrder
    <3> QED BY <1>2, <3>2, <3>3
  <2> QED BY <1>2, <2>1, <2>2
<1> QED BY <1>4, <1>5, <1>6, <1>7 DEF Kept, k_, t

\* The bytes of lines depend on those lines alone.
LEMMA BytesSame ==
  ASSUME NEW kd, NEW f, NEW g, NEW s, \A j \in DOMAIN s : f[s[j]] = g[s[j]]
  PROVE  F!Over(kd, f, s) <=> F!Over(kd, g, s)
<1>1. [j \in DOMAIN s |-> f[s[j]].len] = [j \in DOMAIN s |-> g[s[j]].len]
  OBVIOUS
<1>2. F!Bytes(kd, f, s) = F!Bytes(kd, g, s)
  BY <1>1, Zenon DEF F!Bytes
<1> QED BY <1>2 DEF F!Over

\* The lines r are of one message; those of an open one have not met its end.
Message(kd, f, r) ==
  \A j \in DOMAIN r :
    CASE kd = "multiline" -> f[r[j]].edge => j = 1
      [] kd = "none"      -> Len(r) = 1
      [] OTHER -> f[r[j]].stream = f[r[1]].stream /\ (f[r[j]].edge => j = Len(r))

Open(kd, f, h) ==
  \A s \in F!Streams : \A j \in DOMAIN h[s] :
    /\ kd # "none"
    /\ f[h[s][j]].edge => kd = "multiline" /\ j = 1

Kinds == {"multiline", "docker", "cri", "none"}

FramersInv ==
  /\ kind \in Kinds /\ Len(offered) <= FramedLines
  /\ Kept(kind, offered, held, records, refused)
  /\ Open(kind, offered, held)
  /\ \A r \in DOMAIN records : Message(kind, offered, records[r])
  /\ F!HeldIsBounded

LEMMA FramersInit == F!Init => FramersInv
<1> SUFFICES ASSUME F!Init PROVE FramersInv
  OBVIOUS
<1>1. Len(offered) = 0 /\ 0 <= FramedLines
  BY RecordsAssumption DEF F!Init, F!FramersAssumption
<1>2. FramesTyped(offered, held, records, refused)
  BY DEF F!Init, FramesTyped
<1>3. DOMAIN offered = {} /\ DOMAIN records = {} /\ \A s \in F!Streams : DOMAIN held[s] = {}
  BY DEF F!Init
<1>4. Kept(kind, offered, held, records, refused)
  BY <1>2, <1>3 DEF Kept, NoneLost, HeldInOrder, ReleasedInOrder
<1>5. F!HeldIsBounded
  BY DEF F!Init, F!HeldIsBounded
<1> QED BY <1>1, <1>3, <1>4, <1>5 DEF F!Init, FramersInv, Open, Kinds

\* What push may do with the line it is given.
Refuses(m) ==
  /\ held' = held /\ records' = records /\ refused' = refused \cup {Len(offered) + 1}

Buffers(m) ==
  LET o == StreamOf(kind, m)  t == Append(held[o], Len(offered) + 1) IN
  /\ held' = [held EXCEPT ![o] = t] /\ UNCHANGED <<records, refused>>
  /\ kind # "none" /\ ~F!Over(kind, offered', t)
  /\ m.edge => kind = "multiline" /\ held[o] = <<>>

Completes(m) ==
  LET o == StreamOf(kind, m)  t == Append(held[o], Len(offered) + 1) IN
  /\ held' = [held EXCEPT ![o] = <<>>] /\ records' = Append(records, t) /\ UNCHANGED refused
  /\ kind = "none" => held[o] = <<>>
  /\ kind = "multiline" /\ m.edge => held[o] = <<>>

Splits(m) ==
  LET o == StreamOf(kind, m)  n == Len(offered) + 1 IN
  /\ held' = [held EXCEPT ![o] = <<n>>] /\ records' = Append(records, held[o])
  /\ UNCHANGED refused /\ kind = "multiline"

LEMMA PushCases ==
  ASSUME FramersInv, NEW m \in F!Marks, F!Push(m)
  PROVE  /\ kind' = kind /\ offered' = Append(offered, m) /\ Len(offered) < FramedLines
         /\ Refuses(m) \/ Buffers(m) \/ Completes(m) \/ Splits(m)
<1> DEFINE n == Len(offered')
<1>1. /\ kind' = kind /\ offered' = Append(offered, m) /\ Len(offered) < FramedLines
      /\ n = Len(offered) + 1
  <2>1. offered \in Seq(F!Marks)
    BY DEF FramersInv, Kept, FramesTyped
  <2> QED BY <2>1, AppendProperties DEF F!Push
<1>2. held \in [F!Streams -> Seq(DOMAIN offered)]
  BY DEF FramersInv, Kept, FramesTyped
<1>3. \A s \in F!Streams : kind = "none" => held[s] = <<>>
  <2> SUFFICES ASSUME NEW s \in F!Streams, kind = "none" PROVE held[s] = <<>>
    OBVIOUS
  <2>1. held[s] \in Seq(DOMAIN offered) /\ DOMAIN held[s] = {}
    BY <1>2 DEF FramersInv, Open
  <2>2. Len(held[s]) \in Nat /\ 1..Len(held[s]) = {}
    BY <2>1, LenProperties
  <2>3. Len(held[s]) = 0
    BY <2>2
  <2> QED BY <2>1, <2>3, EmptySeq
<1>4. StreamOf(kind, m) \in F!Streams /\ StreamOf(kind, m) = F!Key(m)
  BY DEF StreamOf, F!Key, F!Streams, F!Marks
<1> HIDE DEF n
<1>5. CASE kind = "none" /\ F!PushThrough(n)
  <2>1. StreamOf(kind, m) = "out" /\ held["out"] = <<>>
    BY <1>3, <1>5 DEF StreamOf, F!Streams
  <2>2. [held EXCEPT !["out"] = <<>>] = held
    BY <1>2, <2>1
  <2>3. Append(held["out"], n) = <<n>>
    BY <2>1
  <2> QED BY <1>1, <1>5, <2>1, <2>2, <2>3 DEF F!PushThrough, F!Release, Completes
<1>6. CASE kind = "multiline" /\ F!PushJoin(n, m)
  <2> DEFINE open == held["out"]
             next == IF m.edge THEN <<n>> ELSE Append(open, n)
             done == m.edge /\ open # <<>>
  <2>1. StreamOf(kind, m) = "out"
    BY <1>6 DEF StreamOf
  <2>2. /\ IF done \/ F!Over(kind, offered', next) THEN F!Release(IF done THEN open ELSE next) ELSE UNCHANGED records
        /\ held' = [held EXCEPT !["out"] = IF F!Over(kind, offered', next) /\ ~done THEN <<>> ELSE next]
        /\ UNCHANGED refused
    BY <1>6, Zenon DEF F!PushJoin
  <2>3. ~done => next = Append(open, n)
    <3>1. Append(<<>>, n) = <<n>>
      OBVIOUS
    <3> QED BY <3>1
  <2>4. CASE done
    <3>1. next = <<n>>
      BY <2>4
    <3>2. held' = [held EXCEPT !["out"] = <<n>>] /\ records' = Append(records, open)
      BY <2>2, <2>4, <3>1 DEF F!Release
    <3> QED BY <1>1, <1>6, <2>1, <2>2, <3>2 DEF Splits
  <2>5. CASE ~done /\ F!Over(kind, offered', next)
    <3>1. held' = [held EXCEPT !["out"] = <<>>] /\ records' = Append(records, next)
      BY <2>2, <2>5 DEF F!Release
    <3> QED BY <1>1, <1>6, <2>1, <2>2, <2>3, <2>5, <3>1 DEF Completes
  <2>6. CASE ~done /\ ~F!Over(kind, offered', next)
    <3>1. held' = [held EXCEPT !["out"] = next] /\ UNCHANGED records
      BY <2>2, <2>6
    <3> QED BY <1>1, <1>6, <2>1, <2>2, <2>3, <2>6, <3>1 DEF Buffers
  <2> QED BY <2>4, <2>5, <2>6
<1>7. CASE kind \in {"docker", "cri"} /\ m.valid /\ F!Chunk(n, m)
  <2> DEFINE next == Append(held[F!Key(m)], n)
  <2>1. IF m.edge \/ F!Over(kind, offered', next)
          THEN F!Release(next) /\ held' = [held EXCEPT ![F!Key(m)] = <<>>] /\ UNCHANGED refused
          ELSE held' = [held EXCEPT ![F!Key(m)] = next] /\ UNCHANGED <<records, refused>>
    BY <1>7, Zenon DEF F!Chunk
  <2>2. CASE m.edge \/ F!Over(kind, offered', next)
    BY <1>1, <1>4, <1>7, <2>1, <2>2 DEF F!Release, Completes
  <2>3. CASE ~(m.edge \/ F!Over(kind, offered', next))
    BY <1>1, <1>4, <1>7, <2>1, <2>3 DEF Buffers
  <2> QED BY <2>2, <2>3
<1>8. CASE F!Refuse(n)
  BY <1>1, <1>8 DEF F!Refuse, Refuses
<1> QED
  BY <1>1, <1>5, <1>6, <1>7, <1>8
  DEF FramersInv, Kinds, F!Push, F!PushDocker, F!PushCri, n

LEMMA MessageKept ==
  ASSUME NEW kd, NEW f \in Seq(F!Marks), NEW m \in F!Marks, NEW r \in Seq(DOMAIN f), Message(kd, f, r)
  PROVE  Message(kd, Append(f, m), r)
<1> DEFINE g == Append(f, m)
<1>1. \A i \in DOMAIN f : g[i] = f[i]
  BY Appended
<1>2. \A j \in DOMAIN r : r[j] \in DOMAIN f /\ r[1] \in DOMAIN f
  BY LenProperties, ElementOfSeq
<1> HIDE DEF g
<1>3. \A j \in DOMAIN r : g[r[j]] = f[r[j]] /\ g[r[1]] = f[r[1]]
  BY <1>1, <1>2
<1>4. Message(kd, g, r)
  BY <1>3 DEF Message
<1> QED BY <1>4 DEF g

\* What is held is of one message that has not ended, and one line more ends it
\* or is of it too.
LEMMA OpenMessage ==
  ASSUME NEW kd \in Kinds, NEW f, NEW h, NEW rs, NEW x, Kept(kd, f, h, rs, x), Open(kd, f, h),
         NEW s \in F!Streams
  PROVE  Message(kd, f, h[s])
<1>1. h[s] \in Seq(DOMAIN f)
  BY DEF Kept, FramesTyped
<1> SUFFICES ASSUME NEW j \in DOMAIN h[s]
             PROVE  CASE kd = "multiline" -> f[h[s][j]].edge => j = 1
                      [] kd = "none"      -> Len(h[s]) = 1
                      [] OTHER -> /\ f[h[s][j]].stream = f[h[s][1]].stream
                                  /\ f[h[s][j]].edge => j = Len(h[s])
  BY DEF Message
<1>2. 1 \in DOMAIN h[s]
  BY <1>1, LenProperties
<1>3. kd # "none" /\ (f[h[s][j]].edge => kd = "multiline" /\ j = 1)
  BY DEF Open
<1>4. StreamOf(kd, f[h[s][j]]) = StreamOf(kd, f[h[s][1]])
  BY <1>2 DEF Kept, HeldInOrder
<1> QED BY <1>3, <1>4 DEF StreamOf, Kinds

LEMMA EndedMessage ==
  ASSUME NEW kd \in Kinds, NEW f, NEW h, NEW rs, NEW x, Kept(kd, f, h, rs, x), Open(kd, f, h),
         NEW m \in F!Marks,
         kd = "none" => h[StreamOf(kd, m)] = <<>>,
         kd = "multiline" /\ m.edge => h[StreamOf(kd, m)] = <<>>
  PROVE  Message(kd, Append(f, m), Append(h[StreamOf(kd, m)], Len(f) + 1))
<1> DEFINE g == Append(f, m)
           n == Len(f) + 1
           o == StreamOf(kd, m)
           t == Append(h[o], n)
           e == Len(h[o]) + 1
<1>0. o \in F!Streams
  BY DEF StreamOf, F!Marks, F!Streams
<1>1. f \in Seq(F!Marks) /\ h[o] \in Seq(DOMAIN f) /\ h \in [F!Streams -> Seq(DOMAIN f)]
  BY <1>0 DEF Kept, FramesTyped
<1>2. g \in Seq(F!Marks) /\ n \in DOMAIN g /\ g[n] = m /\ DOMAIN f \subseteq DOMAIN g
      /\ \A i \in DOMAIN f : g[i] = f[i]
  BY <1>1, Appended
<1>3. /\ t \in Seq(DOMAIN g) /\ DOMAIN t = DOMAIN h[o] \cup {e} /\ e \in Nat
      /\ \A j \in DOMAIN h[o] : j \in Nat /\ j < e /\ h[o][j] \in DOMAIN f /\ t[j] = h[o][j]
      /\ t[e] = n
  <2>1. h[o] \in Seq(DOMAIN g)
    BY <1>1, <1>2, SeqGrows
  <2>2. \A j \in DOMAIN h[o] : h[o][j] \in DOMAIN f
    BY <1>1, Appended
  <2> HIDE DEF g, n, o
  <2> QED BY <1>2, <2>1, <2>2, Appended
<1>4. Len(t) = e /\ 1 \in DOMAIN t /\ (h[o] = <<>> => e = 1)
  <2>1. h[o] \in Seq(DOMAIN g) /\ n \in DOMAIN g /\ Len(h[o]) \in Nat
    BY <1>1, <1>2, SeqGrows, LenProperties
  <2> HIDE DEF g, n, o
  <2>2. Len(t) = e
    BY <2>1, AppendProperties
  <2>3. 1 \in DOMAIN t
    BY <1>3, <2>1, <2>2, LenProperties
  <2> QED BY <2>2, <2>3
<1>5. \A j \in DOMAIN h[o] : /\ StreamOf(kd, g[t[j]]) = o
                             /\ g[t[j]].edge => kd = "multiline" /\ j = 1
  BY <1>0, <1>2, <1>3 DEF Kept, HeldInOrder, Open
<1>6. StreamOf(kd, g[t[e]]) = o /\ g[t[e]] = m
  BY <1>2, <1>3
<1>7. (kd = "none" => e = 1) /\ (kd = "multiline" /\ m.edge => e = 1)
  BY <1>4
<1>8. \A j \in DOMAIN t : StreamOf(kd, g[t[j]]) = o
  BY <1>3, <1>5, <1>6
<1> HIDE DEF g, n, o, t, e
<1> SUFFICES Message(kd, g, t)
  BY DEF g, n, o, t
<1> SUFFICES ASSUME NEW j \in DOMAIN t
             PROVE  CASE kd = "multiline" -> g[t[j]].edge => j = 1
                      [] kd = "none"      -> Len(t) = 1
                      [] OTHER -> g[t[j]].stream = g[t[1]].stream /\ (g[t[j]].edge => j = Len(t))
  BY DEF Message
<1>9. StreamOf(kd, g[t[j]]) = StreamOf(kd, g[t[1]])
  BY <1>4, <1>8
<1>10. kd = "multiline" => (g[t[j]].edge => j = 1)
  BY <1>3, <1>5, <1>6, <1>7
<1>11. kd = "none" => Len(t) = 1
  BY <1>4, <1>7
<1>12. kd # "multiline" => (g[t[j]].edge => j = Len(t))
  BY <1>3, <1>4, <1>5
<1>13. CASE kd \in {"docker", "cri"}
  BY <1>9, <1>12, <1>13 DEF StreamOf
<1> QED BY <1>10, <1>11, <1>13 DEF Kinds

LEMMA FramersPush ==
  ASSUME FramersInv, NEW m \in F!Marks, F!Push(m)
  PROVE  FramersInv'
<1> DEFINE g == Append(offered, m)
           n == Len(offered) + 1
           o == StreamOf(kind, m)
           t == Append(held[o], n)
           b == [held EXCEPT ![o] = t]
<1>1. /\ kind \in Kinds /\ kind' = kind /\ offered' = g /\ Len(offered) < FramedLines
      /\ Refuses(m) \/ Buffers(m) \/ Completes(m) \/ Splits(m)
  BY PushCases DEF FramersInv
<1>2. /\ Kept(kind, offered, held, records, refused) /\ Open(kind, offered, held)
      /\ offered \in Seq(F!Marks) /\ held \in [F!Streams -> Seq(DOMAIN offered)]
      /\ records \in Seq(Seq(DOMAIN offered)) /\ o \in F!Streams
  BY DEF FramersInv, Kept, FramesTyped, StreamOf, F!Marks, F!Streams
<1>3. /\ g \in Seq(F!Marks) /\ n \in Nat /\ DOMAIN g = DOMAIN offered \cup {n}
      /\ g[n] = m /\ \A i \in DOMAIN offered : g[i] = offered[i]
      /\ \A s \in F!Streams : \A j \in DOMAIN held[s] : held[s][j] \in DOMAIN offered
  BY <1>2, OffersGrow
<1>4. Len(g) = n
  BY <1>2, AppendProperties
<1>5. Kept(kind, g, b, records, refused)
  BY <1>2, BufferedKeeps
<1>6. \A r \in DOMAIN records : records[r] \in Seq(DOMAIN offered) /\ Message(kind, g, records[r])
  <2>1. \A r \in DOMAIN records : records[r] \in Seq(DOMAIN offered) /\ Message(kind, offered, records[r])
    BY <1>2, LenProperties, ElementOfSeq DEF FramersInv
  <2> QED BY <1>2, <2>1, MessageKept
<1>7. Open(kind, g, held)
  BY <1>2, <1>3 DEF Open
<1>8. \A s \in F!Streams : F!Over(kind, g, held[s]) <=> F!Over(kind, offered, held[s])
  <2> SUFFICES ASSUME NEW s \in F!Streams PROVE F!Over(kind, g, held[s]) <=> F!Over(kind, offered, held[s])
    OBVIOUS
  <2>1. \A j \in DOMAIN held[s] : g[held[s][j]] = offered[held[s][j]]
    BY <1>3
  <2> HIDE DEF g
  <2> QED BY <2>1, BytesSame
<1>9. F!HeldIsBounded' <=> \A s \in F!Streams : Len(held'[s]) > 1 => ~F!Over(kind, g, held'[s])
  BY <1>1 DEF F!HeldIsBounded, F!Streams
<1>10. SUFFICES /\ Len(g) <= FramedLines
                /\ Kept(kind, g, held', records', refused') /\ Open(kind, g, held')
                /\ \A r \in DOMAIN records' : Message(kind, g, records'[r])
                /\ \A s \in F!Streams : Len(held'[s]) > 1 => ~F!Over(kind, g, held'[s])
  BY <1>1, <1>9 DEF FramersInv
<1>11. Len(g) <= FramedLines
  BY <1>1, <1>2, <1>4, LenProperties, RecordsAssumption DEF F!FramersAssumption
<1>12. \A s \in F!Streams : Len(held[s]) > 1 => ~F!Over(kind, g, held[s])
  BY <1>8 DEF FramersInv, F!HeldIsBounded
<1>13. /\ b \in [F!Streams -> Seq(DOMAIN g)] /\ b[o] = t
       /\ \A s \in F!Streams : s # o => b[s] = held[s]
       /\ [b EXCEPT ![o] = <<>>] = [held EXCEPT ![o] = <<>>]
  <2>1. t \in Seq(DOMAIN g)
    <3>1. held[o] \in Seq(DOMAIN g) /\ n \in DOMAIN g
      BY <1>2, <1>3, SeqGrows
    <3> HIDE DEF g, n, o
    <3> QED BY <3>1, Appended
  <2>2. \A s \in F!Streams : held[s] \in Seq(DOMAIN g)
    BY <1>2, <1>3, SeqGrows
  <2> HIDE DEF t, g, n, o
  <2> QED BY <1>2, <2>1, <2>2
<1>14. ASSUME NEW v, \A r \in DOMAIN records' : (r \in DOMAIN records /\ records'[r] = records[r]) \/ records'[r] = v,
              Message(kind, g, v)
       PROVE  \A r \in DOMAIN records' : Message(kind, g, records'[r])
  BY <1>6, <1>14
<1>15. CASE Refuses(m)
  <2>1. Kept(kind, g, held, records, refused \cup {n})
    BY <1>2, RefusedKeeps
  <2> HIDE DEF g, n, o, t, b
  <2> QED BY <1>6, <1>7, <1>11, <1>12, <1>15, <2>1 DEF Refuses, n
<1>16. CASE Buffers(m)
  <2>1. /\ held' = b /\ UNCHANGED <<records, refused>> /\ ~F!Over(kind, g, t) /\ kind # "none"
        /\ m.edge => kind = "multiline" /\ held[o] = <<>>
    BY <1>1, <1>16 DEF Buffers
  <2>2. \A s \in F!Streams : Len(b[s]) > 1 => ~F!Over(kind, g, b[s])
    BY <1>12, <1>13, <2>1
  <2>3. Open(kind, g, b)
    <3>1. /\ DOMAIN t = DOMAIN held[o] \cup {Len(held[o]) + 1} /\ t[Len(held[o]) + 1] = n
          /\ \A j \in DOMAIN held[o] : t[j] = held[o][j]
      <4>1. held[o] \in Seq(DOMAIN g) /\ n \in DOMAIN g
        BY <1>2, <1>3, SeqGrows
      <4> HIDE DEF g, n, o
      <4> QED BY <4>1, Appended
    <3>2. held[o] = <<>> => Len(held[o]) + 1 = 1
      OBVIOUS
    <3> HIDE DEF g, n, o, t, b
    <3> SUFFICES ASSUME NEW s \in F!Streams, NEW j \in DOMAIN b[s]
                 PROVE  /\ kind # "none"
                        /\ g[b[s][j]].edge => kind = "multiline" /\ j = 1
      BY DEF Open
    <3>3. CASE s = o /\ j = Len(held[o]) + 1
      BY <1>3, <1>13, <2>1, <3>1, <3>2, <3>3
    <3>4. CASE s = o /\ j \in DOMAIN held[o]
      BY <1>2, <1>7, <1>13, <3>1, <3>4 DEF Open
    <3>5. CASE s # o
      BY <1>7, <1>13, <3>5 DEF Open
    <3> QED BY <1>13, <3>1, <3>3, <3>4, <3>5
  <2> HIDE DEF g, n, o, t, b
  <2> QED BY <1>5, <1>6, <1>11, <2>1, <2>2, <2>3
<1>17. CASE Completes(m)
  <2>1. /\ held' = [b EXCEPT ![o] = <<>>] /\ records' = Append(records, b[o]) /\ UNCHANGED refused
        /\ kind = "none" => held[o] = <<>>
        /\ kind = "multiline" /\ m.edge => held[o] = <<>>
    BY <1>13, <1>17 DEF Completes
  <2>2. Kept(kind, g, held', records', refused)
    <3> HIDE DEF g, n, o, t, b
    <3> QED BY <1>2, <1>5, <2>1, ReleasedKeeps
  <2>3. Message(kind, g, t)
    BY <1>1, <1>2, <2>1, EndedMessage
  <2>4. \A r \in DOMAIN records' : (r \in DOMAIN records /\ records'[r] = records[r]) \/ records'[r] = t
    <3> HIDE DEF g, n, o, t, b
    <3>1. records \in Seq(Seq(DOMAIN g)) /\ t \in Seq(DOMAIN g)
      BY <1>5, <1>13, <1>2 DEF Kept, FramesTyped
    <3> QED BY <1>13, <2>1, <3>1, AppendedOnly
  <2>5. /\ Open(kind, g, held')
        /\ \A s \in F!Streams : Len(held'[s]) > 1 => ~F!Over(kind, g, held'[s])
    <3>1. held'[o] = <<>> /\ \A s \in F!Streams : s # o => held'[s] = held[s]
      BY <1>2, <1>17 DEF Completes
    <3> HIDE DEF g, n, o, t, b
    <3> QED BY <1>7, <1>12, <3>1 DEF Open
  <2> HIDE DEF g, n, o, t, b
  <2> QED BY <1>11, <1>14, <2>1, <2>2, <2>3, <2>4, <2>5
<1>18. CASE Splits(m)
  <2> DEFINE h == [held EXCEPT ![o] = <<>>]
             v == held[o]
             w == Append(records, v)
  <2>1. held' = [held EXCEPT ![o] = <<n>>] /\ records' = w /\ UNCHANGED refused /\ kind = "multiline"
    BY <1>18 DEF Splits
  <2>2. Kept(kind, offered, h, w, refused)
    BY <1>2, ReleasedKeeps
  <2>3. h[o] = <<>> /\ [h EXCEPT ![o] = <<n>>] = [held EXCEPT ![o] = <<n>>]
    <3> HIDE DEF o, n
    <3> QED BY <1>2
  <2>4. Append(<<>>, n) = <<n>>
    <3> HIDE DEF n
    <3> QED OBVIOUS
  <2>5. Kept(kind, g, [h EXCEPT ![o] = Append(h[o], n)], w, refused)
    <3> HIDE DEF h, w, v
    <3> QED BY <2>2, BufferedKeeps
  <2>6. Kept(kind, g, held', records', refused)
    <3> HIDE DEF g, n, o, h, w, v
    <3> QED BY <2>1, <2>3, <2>4, <2>5
  <2>7. Message(kind, offered, v) /\ v \in Seq(DOMAIN offered)
    BY <1>1, <1>2, OpenMessage
  <2>8. Message(kind, g, v)
    BY <1>2, <2>7, MessageKept
  <2>9. \A r \in DOMAIN records' : (r \in DOMAIN records /\ records'[r] = records[r]) \/ records'[r] = v
    <3> HIDE DEF g, n, o, v
    <3> QED BY <1>2, <2>1, <2>7, AppendedOnly
  <2>10. held'[o] = <<n>> /\ \A s \in F!Streams : s # o => held'[s] = held[s]
    BY <1>2, <2>1
  <2>11. Open(kind, g, held') /\ \A s \in F!Streams : Len(held'[s]) > 1 => ~F!Over(kind, g, held'[s])
    <3> HIDE DEF g, n, o, v, h, w
    <3>1. Len(<<n>>) = 1 /\ DOMAIN <<n>> = {1}
      OBVIOUS
    <3> QED BY <1>7, <1>12, <2>1, <2>10, <3>1 DEF Open
  <2> HIDE DEF g, n, o, t, b, h, w, v
  <2> QED BY <1>11, <1>14, <2>1, <2>6, <2>8, <2>9, <2>11
<1> QED BY <1>1, <1>15, <1>16, <1>17, <1>18

LEMMA FramersExpire ==
  ASSUME FramersInv, NEW s \in F!Streams, F!Expire(s)
  PROVE  FramersInv'
<1>1. /\ kind' = kind /\ offered' = offered /\ refused' = refused
      /\ held' = [held EXCEPT ![s] = <<>>] /\ records' = Append(records, held[s])
  BY DEF F!Expire, F!Release
<1>2. /\ kind \in Kinds /\ Kept(kind, offered, held, records, refused) /\ Open(kind, offered, held)
      /\ offered \in Seq(F!Marks) /\ held \in [F!Streams -> Seq(DOMAIN offered)]
      /\ records \in Seq(Seq(DOMAIN offered))
  BY DEF FramersInv, Kept, FramesTyped
<1>3. Kept(kind, offered, held', records', refused)
  BY <1>1, <1>2, ReleasedKeeps
<1>4. held'[s] = <<>> /\ \A o \in F!Streams : o # s => held'[o] = held[o]
  BY <1>1, <1>2
<1>5. Open(kind, offered, held')
  <2> SUFFICES ASSUME NEW o \in F!Streams, NEW j \in DOMAIN held'[o]
               PROVE  /\ kind # "none"
                      /\ offered[held'[o][j]].edge => kind = "multiline" /\ j = 1
    BY DEF Open
  <2>1. o # s
    BY <1>4
  <2> QED BY <1>2, <1>4, <2>1 DEF Open
<1>6. \A r \in DOMAIN records' : (r \in DOMAIN records /\ records'[r] = records[r]) \/ records'[r] = held[s]
  <2>1. held[s] \in Seq(DOMAIN offered)
    BY <1>2
  <2> QED BY <1>1, <1>2, <2>1, AppendedOnly
<1>7. Message(kind, offered, held[s])
  BY <1>2, OpenMessage
<1>8. \A r \in DOMAIN records' : Message(kind, offered, records'[r])
  BY <1>6, <1>7 DEF FramersInv
<1>9. \A o \in F!Streams : Len(held'[o]) > 1 => ~F!Over(kind, offered, held'[o])
  BY <1>4 DEF FramersInv, F!HeldIsBounded
<1>10. F!HeldIsBounded'
  BY <1>1, <1>9 DEF F!HeldIsBounded, F!Streams
<1> QED BY <1>1, <1>2, <1>3, <1>5, <1>8, <1>10 DEF FramersInv

LEMMA FramersNext == ASSUME FramersInv, F!Next \/ UNCHANGED framer PROVE FramersInv'
<1>1. CASE F!Next
  BY <1>1, FramersPush, FramersExpire DEF F!Next
<1>2. CASE UNCHANGED framer
  BY <1>2 DEF framer, FramersInv, F!HeldIsBounded, F!Streams
<1> QED BY <1>1, <1>2

LEMMA FramersTypeOK == FramersInv => F!TypeOK
  BY DEF FramersInv, Kept, FramesTyped, F!TypeOK, F!Lines, Kinds

LEMMA FramersSound == FramersInv => F!FramingSound
<1> SUFFICES ASSUME FramersInv PROVE F!FramingSound
  OBVIOUS
<1>1. /\ kind \in Kinds /\ Kept(kind, offered, held, records, refused)
      /\ offered \in Seq(F!Marks) /\ held \in [F!Streams -> Seq(DOMAIN offered)]
      /\ records \in Seq(Seq(DOMAIN offered))
  BY DEF FramersInv, Kept, FramesTyped
<1>2. \A i \in DOMAIN offered : F!Key(offered[i]) = StreamOf(kind, offered[i]) /\ F!Key(offered[i]) \in F!Streams
  <2>1. \A i : F!Key(offered[i]) = StreamOf(kind, offered[i])
    BY DEF F!Key, StreamOf
  <2> QED BY <1>1, <2>1, StreamTyped
<1>3. \A s \in F!Streams :
        /\ DOMAIN F!Out(s) = DOMAIN records \cup {Len(records) + 1} /\ Len(records) + 1 \notin DOMAIN records
        /\ \A r \in DOMAIN records : r \in Nat /\ r < Len(records) + 1 /\ F!Out(s)[r] = records[r]
        /\ F!Out(s)[Len(records) + 1] = held[s]
  BY <1>1, Appended DEF F!Out
<1>4. /\ \A s \in F!Streams : \A j \in DOMAIN held[s] : held[s][j] \in DOMAIN offered
      /\ \A r \in DOMAIN records : \A j \in DOMAIN records[r] : records[r][j] \in DOMAIN offered
  <2>1. \A s \in F!Streams : held[s] \in Seq(DOMAIN offered)
    BY <1>1
  <2>2. \A r \in DOMAIN records : records[r] \in Seq(DOMAIN offered)
    BY <1>1, LenProperties, ElementOfSeq
  <2> QED BY <2>1, <2>2, LenProperties, ElementOfSeq
<1>5. \A t, i : i \in F!Range(t) <=> In(t, i)
  BY DEF F!Range, In
<1>6. ASSUME NEW i \in F!Lines
      PROVE  LET out == F!Out(F!Key(offered[i])) IN
               i \in refused <=> \A r \in DOMAIN out : i \notin F!Range(out[r])
  <2> DEFINE s == F!Key(offered[i])
             out == F!Out(s)
  <2>1. s \in F!Streams /\ s = StreamOf(kind, offered[i])
    BY <1>2, <1>6 DEF F!Lines
  <2>2. i \in refused <=> ~((\E r \in DOMAIN records : In(records[r], i)) \/ In(held[s], i))
    BY <1>1, <1>6, <2>1 DEF Kept, NoneLost, F!Lines
  <2> HIDE DEF s
  <2>3. (\E r \in DOMAIN out : In(out[r], i)) <=> (\E r \in DOMAIN records : In(records[r], i)) \/ In(held[s], i)
    BY <1>3, <2>1
  <2> HIDE DEF out
  <2>4. i \in refused <=> \A r \in DOMAIN out : i \notin F!Range(out[r])
    BY <1>5, <2>2, <2>3
  <2> QED BY <2>4 DEF out, s
<1>7. ASSUME NEW s \in F!Streams, NEW i \in F!Range(held[s])
      PROVE  F!Key(offered[i]) = s
  BY <1>1, <1>2, <1>4, <1>5, <1>7 DEF In, Kept, HeldInOrder
<1>8. ASSUME NEW s \in F!Streams, NEW q \in DOMAIN F!Out(s), NEW r \in DOMAIN F!Out(s),
             NEW j \in DOMAIN F!Out(s)[q], NEW k \in DOMAIN F!Out(s)[r],
             F!Key(offered[F!Out(s)[q][j]]) = s, F!Key(offered[F!Out(s)[r][k]]) = s,
             q < r \/ (q = r /\ j < k)
      PROVE  F!Out(s)[q][j] < F!Out(s)[r][k]
  <2> DEFINE e == Len(records) + 1
             a == F!Out(s)[q][j]
             c == F!Out(s)[r][k]
  <2> HIDE DEF e, a, c
  <2>1. a \in DOMAIN offered /\ c \in DOMAIN offered
    BY <1>3, <1>4, <1>8 DEF a, c
  <2>2. StreamOf(kind, offered[a]) = s /\ StreamOf(kind, offered[c]) = s
    BY <1>2, <1>8, <2>1 DEF a, c
  <2>3. CASE r # e
    <3>1. r \in DOMAIN records /\ q \in DOMAIN records
      BY <1>3, <1>8, <2>3 DEF e
    <3>2. F!Out(s)[q] = records[q] /\ F!Out(s)[r] = records[r]
      BY <1>3, <3>1
    <3> QED BY <1>1, <1>8, <2>2, <3>1, <3>2 DEF Kept, ReleasedInOrder, a, c
  <2>4. CASE r = e /\ q # e
    <3>1. q \in DOMAIN records /\ F!Out(s)[q] = records[q] /\ F!Out(s)[r] = held[s]
      BY <1>3, <1>8, <2>4 DEF e
    <3> QED BY <1>1, <1>8, <2>2, <3>1 DEF Kept, HeldInOrder, a, c
  <2>5. CASE r = e /\ q = e
    <3>1. F!Out(s)[q] = held[s] /\ F!Out(s)[r] = held[s] /\ j < k
      BY <1>1, <1>3, <1>8, <2>5, LenProperties DEF e
    <3> QED BY <1>1, <1>8, <3>1 DEF Kept, HeldInOrder
  <2> QED BY <2>3, <2>4, <2>5 DEF a, c
<1>9. F!LinesKept
  BY <1>6, <1>7, <1>8 DEF F!LinesKept
<1>10. F!OneMessage
  BY DEF FramersInv, Message, F!OneMessage
<1> QED BY <1>9, <1>10 DEF FramersInv, F!FramingSound

(***************************************************************************)
(* Type correctness of the other three parts                               *)
(***************************************************************************)

LEMMA PullConstants ==
  /\ NEntries \in Nat /\ MaxRestarts \in Nat /\ P!Entries = 1..NEntries
  /\ P!Shippable \subseteq P!Entries
  BY RecordsAssumption DEF P!PullSourceAssumption, P!Entries, P!Shippable

LEMMA PullTypesInit == P!Init => P!TypeOK
<1> SUFFICES ASSUME P!Init PROVE P!TypeOK
  OBVIOUS
<1>1. queue.segs = <<>> /\ DOMAIN queue.segs = {} /\ queue.bytes = 0 /\ queue.full = FALSE
  BY DEF P!Init, P!EmptyQueue
<1>2. queue.full \in BOOLEAN /\ ending \in BOOLEAN /\ atTail \in BOOLEAN /\ once \in BOOLEAN
  BY <1>1, Zenon DEF P!Init
<1> QED BY <1>1, <1>2, PullConstants DEF P!Init, P!TypeOK

LEMMA PullTypesNext == ASSUME PullInv, P!TypeOK, P!Next \/ UNCHANGED pull PROVE P!TypeOK'
<1>1. \A i \in DOMAIN queue'.segs : queue'.segs[i] \subseteq P!Shippable
  <2>1. PullInv'
    BY PullNext
  <2>2. queue'.segs \in Seq(SUBSET P!Shippable)
    BY <2>1 DEF PullInv, PullTyped, P!Shippable, P!Entries
  <2> QED BY <2>2, LenProperties, ElementOfSeq
<1>2. /\ at \in 0..NEntries /\ last \in 0..NEntries /\ ckpt \in 0..NEntries
      /\ appended \in 0..NEntries /\ oldest \in 1..(NEntries + 1) /\ restarts \in 0..MaxRestarts
      /\ queue.bytes \in Nat /\ queue.full \in BOOLEAN
      /\ reading \subseteq P!Shippable /\ shipped \subseteq P!Shippable
      /\ queue.segs \in Seq(SUBSET P!Shippable)
  BY DEF P!TypeOK, PullInv, PullTyped
<1>3. \A S \in SUBSET P!Shippable : P!Cardinality(S) \in Nat
  <2> SUFFICES ASSUME NEW S \in SUBSET P!Shippable PROVE P!Cardinality(S) \in Nat
    OBVIOUS
  <2>1. IsFiniteSet(1..NEntries)
    BY PullConstants, FS_Interval
  <2>2. IsFiniteSet(S)
    BY <2>1, PullConstants, FS_Subset
  <2> QED BY <2>2, FS_CardinalityType DEF P!Cardinality, Cardinality
<1>4. CASE P!Start
  <2>1. P!Landed(ckpt) \in 0..NEntries
    BY <1>2, PullConstants DEF P!Landed, P!LandedInJournal, P!LandedInChannel
  <2>2. queue'.bytes \in Nat /\ queue'.full \in BOOLEAN
    BY <1>2, <1>4 DEF P!Start, P!Opened, P!Paused
  <2> QED BY <1>1, <1>2, <1>4, <2>1, <2>2 DEF P!Start, P!TypeOK, P!Between, P!fixed, P!journal, P!world
<1>5. CASE P!Read
  <2>1. at' \in 0..NEntries
    BY <1>2, <1>5, PullConstants DEF P!Read, P!After
  <2> QED BY <1>1, <1>2, <1>5, <2>1 DEF P!Read, P!TypeOK, P!Between, P!fixed, P!journal, P!world, P!Halted
<1>6. CASE P!ReadDone
  <2>1. atTail' \in BOOLEAN
    BY <1>6 DEF P!ReadDone
  <2> QED BY <1>1, <1>6, <2>1 DEF P!ReadDone, P!TypeOK, P!fixed, P!journal, P!world, P!history
<1>7. CASE P!Push
  <2>1. PICK space \in BOOLEAN :
          /\ queue' = P!Pushed(queue, reading, space)
          /\ full' = IF P!Accepts(queue, reading, space) THEN full ELSE full \cup reading
    BY <1>7 DEF P!Push
  <2>2. queue'.bytes \in Nat /\ queue'.full \in BOOLEAN
    <3>1. P!Cardinality(reading) \in Nat
      BY <1>2, <1>3
    <3>2. CASE P!Accepts(queue, reading, space)
      BY <1>2, <2>1, <3>1, <3>2 DEF P!Pushed, P!Spooled
    <3>3. CASE ~P!Accepts(queue, reading, space)
      <4>1. queue' = P!Paused(queue, TRUE)
        BY <2>1, <3>3 DEF P!Pushed
      <4>2. queue'.bytes = queue.bytes /\ queue'.full = TRUE
        BY <4>1, Zenon DEF P!Paused
      <4> QED BY <1>2, <4>2
    <3> QED BY <3>2, <3>3
  <2> QED BY <1>1, <1>2, <1>7, <2>1, <2>2, PullConstants
      DEF P!Push, P!TypeOK, P!fixed, P!journal, P!world
<1>8. CASE P!PushNothing
  BY <1>1, <1>8 DEF P!PushNothing, P!TypeOK, P!fixed, P!journal, P!world, P!history
<1>9. CASE P!Save
  BY <1>1, <1>9 DEF P!Save, P!TypeOK, P!fixed, P!journal, P!world, P!history, P!Halted
<1>10. CASE P!DrainSend \/ P!DrainFails
  <2>1. queue.segs # <<>> /\ pc' \in {"pop", "turn"}
    BY <1>10 DEF P!DrainSend, P!DrainFails
  <2>2. Head(queue.segs) \subseteq P!Shippable
    BY <1>2, <2>1, HeadTailProperties
  <2>3. shipped' \subseteq P!Shippable
    BY <1>2, <1>10, <2>2 DEF P!DrainSend, P!DrainFails
  <2> QED BY <1>1, <1>10, <2>1, <2>3
      DEF P!DrainSend, P!DrainFails, P!TypeOK, P!fixed, P!journal, P!world, P!history
<1>11. CASE P!DrainPop
  <2>1. queue.segs # <<>>
    BY <1>11 DEF P!DrainPop, PullInv
  <2>2. Head(queue.segs) \in SUBSET P!Shippable
    BY <1>2, <2>1, HeadTailProperties
  <2>3. P!Cardinality(Head(queue.segs)) \in Nat
    BY <1>3, <2>2
  <2>4. queue' = P!Popped(queue)
    BY <1>11 DEF P!DrainPop
  <2>5. queue'.bytes \in Nat /\ queue'.full \in BOOLEAN
    BY <1>2, <2>3, <2>4 DEF P!Popped
  <2> QED BY <1>1, <1>11, <2>5 DEF P!DrainPop, P!TypeOK, P!fixed, P!journal, P!world, P!history
<1>12. CASE P!DrainDone
  BY <1>1, <1>12 DEF P!DrainDone, P!TypeOK, P!fixed, P!journal, P!world, P!history
<1>13. CASE P!Turn
  <2>1. ending' \in BOOLEAN /\ atTail' \in BOOLEAN
    BY <1>13, Zenon DEF P!Turn
  <2>2. pc' \in {"exited", "drain", "read"}
    BY <1>13 DEF P!Turn
  <2> QED BY <1>1, <1>13, <2>1, <2>2, PullConstants
      DEF P!Turn, P!TypeOK, P!fixed, P!journal, P!world, P!history, P!Halted
<1>14. CASE P!Crash
  BY <1>1, <1>14 DEF P!Crash, P!TypeOK, P!fixed, P!journal, P!world, P!history, P!Halted
<1>15. CASE P!Restart
  <2>1. ending' \in BOOLEAN /\ atTail' \in BOOLEAN
    BY <1>15, Zenon DEF P!Restart
  <2> QED BY <1>1, <1>2, <1>15, <2>1, PullConstants
      DEF P!Restart, P!TypeOK, P!fixed, P!journal, P!history
<1>16. CASE P!AppendEntry \/ P!Purge \/ P!DbFlip
  <2>1. appended' \in 0..NEntries /\ oldest' \in 1..(NEntries + 1) /\ db' \in {"up", "down"}
    <3>1. CASE P!AppendEntry
      BY <1>2, <3>1, PullConstants DEF P!AppendEntry, P!TypeOK, P!world
    <3>2. CASE P!Purge
      BY <1>2, <3>2, PullConstants DEF P!Purge, P!TypeOK, P!world
    <3>3. CASE P!DbFlip
      BY <1>2, <3>3 DEF P!DbFlip, P!TypeOK, P!journal
    <3> QED BY <1>16, <3>1, <3>2, <3>3
  <2>2. UNCHANGED <<P!fixed, P!loop, queue, ckpt, shipped, restarts, P!history>>
    BY <1>16 DEF P!AppendEntry, P!Purge, P!DbFlip, P!world
  <2> QED BY <1>1, <2>1, <2>2 DEF P!TypeOK, P!fixed, P!loop, P!history
<1>17. CASE UNCHANGED pull
  BY <1>17 DEF pull, P!TypeOK
<1> QED
  BY <1>4, <1>5, <1>6, <1>7, <1>8, <1>9, <1>10, <1>11, <1>12, <1>13, <1>14, <1>15, <1>16, <1>17
  DEF P!Next, P!Agent

LEMMA HealthConstants == Wedged \in Nat \ {0} /\ MaxSpawns \in Nat
  BY RecordsAssumption DEF H!HealthAssumption

LEMMA HealthTypesInit == H!Init => H!TypeOK
<1> SUFFICES ASSUME H!Init PROVE H!TypeOK
  OBVIOUS
<1>1. snaps = <<>> /\ Len(snaps) = 0 /\ on \subseteq Loops /\ agent \in {"files", "pull"}
  BY DEF H!Init
<1>2. snaps \in Seq(BOOLEAN)
  BY <1>1
<1>3. denied \in BOOLEAN /\ cache \in BOOLEAN
  BY Zenon DEF H!Init
<1>4. handler \in [Handlers -> [at : {"done", "sum", "load"}, sum : BOOLEAN, next : 1..(Len(snaps) + 1)]]
  <2>1. H!Done \in [at : {"done", "sum", "load"}, sum : BOOLEAN, next : 1..(Len(snaps) + 1)]
    BY <1>1 DEF H!Done
  <2> QED BY <2>1 DEF H!Init
<1> QED BY <1>1, <1>2, <1>3, <1>4, HealthConstants DEF H!Init, H!TypeOK

\* What a handler is while there are n snapshots.
HandlerOf(n) == [at : {"done", "sum", "load"}, sum : BOOLEAN, next : 1..(n + 1)]

LEMMA HealthTypesNext ==
  ASSUME HealthInv, H!TypeOK, H!Next \/ UNCHANGED health
  PROVE  H!TypeOK'
<1> DEFINE n == Len(snaps)
<1>1. HealthInv'
  BY HealthNext
<1>2. snaps' \in Seq(BOOLEAN) /\ cache' \in BOOLEAN /\ snaps \in Seq(BOOLEAN)
  BY <1>1 DEF HealthInv
<1>3. /\ n \in Nat /\ DOMAIN snaps = 1..n /\ DOMAIN snaps' = 1..Len(snaps') /\ Len(snaps') \in Nat
  BY <1>2, LenProperties
<1>4. /\ agent \in {"files", "pull"} /\ on \subseteq Loops /\ queued \subseteq Loops
      /\ snapOf \in [Loops -> 0..n] /\ idle \in [Loops -> 0..Wedged] /\ age \in 0..Wedged
      /\ denied \in BOOLEAN /\ raced \subseteq Handlers
      /\ handler \in [Handlers -> HandlerOf(n)]
      /\ \A h \in Handlers : clear[h] \subseteq DOMAIN snaps
  BY DEF H!TypeOK, HandlerOf
<1>5. SUFFICES /\ agent' \in {"files", "pull"} /\ on' \subseteq Loops /\ queued' \subseteq Loops
               /\ snapOf' \in [Loops -> 0..Len(snaps')] /\ idle' \in [Loops -> 0..Wedged]
               /\ age' \in 0..Wedged /\ denied' \in BOOLEAN /\ raced' \subseteq Handlers
               /\ handler' \in [Handlers -> HandlerOf(Len(snaps'))]
               /\ \A h \in Handlers : clear'[h] \subseteq DOMAIN snaps'
  BY <1>2 DEF H!TypeOK, HandlerOf
<1> HIDE DEF n
<1>6. \A l \in Loops : [idle EXCEPT ![l] = 0] \in [Loops -> 0..Wedged] /\ [idle EXCEPT ![l] = Wedged] \in [Loops -> 0..Wedged]
  BY <1>4, HealthConstants
<1>7. CASE H!Second
  <2>1. age' \in 0..Wedged /\ idle' \in [Loops -> 0..Wedged]
    BY <1>4, <1>7, HealthConstants DEF H!Second
  <2> QED BY <1>4, <1>7, <2>1 DEF H!Second, H!requests, n
<1>8. ASSUME DOMAIN snaps \subseteq DOMAIN snaps', clear' = H!Witness(snaps')
      PROVE  \A h \in Handlers : clear'[h] \subseteq DOMAIN snaps'
  <2>1. H!Clear(snaps') \subseteq DOMAIN snaps'
    BY DEF H!Clear
  <2> QED BY <1>4, <1>8, <2>1 DEF H!Witness
<1>9. CASE \E l \in Loops : H!Spawn(l)
  <2>1. PICK l \in Loops : H!Spawn(l)
    BY <1>9
  <2>2. Len(snaps') = n + 1 /\ DOMAIN snaps \subseteq DOMAIN snaps'
    <3>1. FALSE \in BOOLEAN /\ snaps' = Append(snaps, FALSE)
      BY <2>1 DEF H!Spawn
    <3>2. Len(snaps') = n + 1
      BY <1>2, <3>1, AppendProperties DEF n
    <3> QED BY <1>3, <3>2
  <2>3. snapOf' \in [Loops -> 0..Len(snaps')]
    <3>1. snapOf' = [snapOf EXCEPT ![l] = Len(snaps')]
      BY <2>1 DEF H!Spawn
    <3> QED BY <1>3, <1>4, <2>2, <3>1
  <2>4. HandlerOf(n) \subseteq HandlerOf(Len(snaps'))
    BY <1>3, <2>2 DEF HandlerOf
  <2>5. handler' \in [Handlers -> HandlerOf(Len(snaps'))]
    BY <1>4, <2>1, <2>4 DEF H!Spawn
  <2>6. \A h \in Handlers : clear'[h] \subseteq DOMAIN snaps'
    BY <1>8, <2>1, <2>2 DEF H!Spawn
  <2> QED BY <1>4, <1>6, <2>1, <2>3, <2>5, <2>6 DEF H!Spawn
<1>10. CASE \E l \in Loops : H!Publish(l)
  <2>1. PICK l \in Loops : H!Publish(l)
    BY <1>10
  <2>2. DOMAIN snaps' = DOMAIN snaps
    BY <2>1 DEF H!Publish
  <2>3. Len(snaps') = n
    <3>1. ASSUME NEW a \in Nat, NEW b \in Nat, 1..a = 1..b PROVE a = b
      <4>1. a <= b
        <5>1. a = 0 \/ a \in 1..a
          OBVIOUS
        <5> QED BY <3>1, <5>1
      <4>2. b <= a
        <5>1. b = 0 \/ b \in 1..b
          OBVIOUS
        <5> QED BY <3>1, <5>1
      <4> QED BY <4>1, <4>2
    <3> QED BY <1>3, <2>2, <3>1
  <2>4. \A h \in Handlers : clear'[h] \subseteq DOMAIN snaps'
    BY <1>8, <2>1, <2>2 DEF H!Publish
  <2>5. age' \in 0..Wedged
    BY <1>4, <2>1, HealthConstants DEF H!Publish
  <2> QED BY <1>4, <1>6, <2>1, <2>3, <2>4, <2>5 DEF H!Publish
<1>11. CASE \E l \in Loops : H!Work(l) \/ H!Leave(l)
  <2>1. PICK l \in Loops : H!Work(l) \/ H!Leave(l)
    BY <1>11
  <2>2. UNCHANGED <<snaps, handler, clear, raced, agent, snapOf, age>>
    BY <2>1 DEF H!Work, H!Leave, H!requests
  <2>3. on' \subseteq Loops /\ queued' \subseteq Loops
    BY <1>4, <2>1 DEF H!Work, H!Leave
  <2>4. idle' \in [Loops -> 0..Wedged]
    BY <1>4, <1>6, <2>1 DEF H!Work, H!Leave
  <2>5. denied' \in BOOLEAN
    <3>1. denied' \in {denied, TRUE}
      BY <2>1 DEF H!Work, H!Leave
    <3> QED BY <1>4, <3>1
  <2> QED BY <1>4, <2>2, <2>3, <2>4, <2>5 DEF n
<1>12. CASE \E h \in Handlers : H!Ask(h) \/ H!Sum(h) \/ H!StoreSum(h) \/ H!Load(h)
  <2>1. PICK h \in Handlers : H!Ask(h) \/ H!Sum(h) \/ H!StoreSum(h) \/ H!Load(h)
    BY <1>12
  <2>2. UNCHANGED <<agent, H!loops, snaps, age, denied>> /\ raced' \subseteq Handlers
    BY <1>4, <2>1 DEF H!Ask, H!Sum, H!StoreSum, H!Load
  <2>3. \A g \in Handlers : clear'[g] \subseteq DOMAIN snaps
    <3>1. H!Clear(snaps) \subseteq DOMAIN snaps
      BY DEF H!Clear
    <3>2. clear' = clear \/ clear' = [clear EXCEPT ![h] = H!Clear(snaps)]
      BY <2>1 DEF H!Ask, H!Sum, H!StoreSum, H!Load
    <3>3. DOMAIN clear = Handlers
      BY DEF HealthInv
    <3> QED BY <1>4, <3>1, <3>2, <3>3
  <2>4. H!Done \in HandlerOf(n) /\ \A to \in {"done", "sum", "load"} : [H!Done EXCEPT !.at = to] \in HandlerOf(n)
    <3>1. \A x \in HandlerType : x.next = 1 => x \in HandlerOf(n)
      BY <1>3 DEF HandlerType, HandlerOf
    <3> QED BY <3>1, DoneTyped, HandlerMoves
  <2>5. CASE H!Sum(h)
    <3> DEFINE x == handler[h]
    <3>1. x.next <= n /\ handler' = [handler EXCEPT ![h] = [x EXCEPT !.sum = x.sum \/ snaps[x.next], !.next = x.next + 1]]
      BY <1>4, <2>5, Zenon DEF H!Sum, n
    <3>2. x \in HandlerOf(n)
      BY <1>4
    <3>3. x.next + 1 \in 1..(n + 1) /\ (x.sum \/ snaps[x.next]) \in BOOLEAN
      BY <1>3, <3>1, <3>2 DEF HandlerOf
    <3>4. [x EXCEPT !.sum = x.sum \/ snaps[x.next], !.next = x.next + 1] \in HandlerOf(n)
      BY <3>2, <3>3 DEF HandlerOf
    <3> HIDE DEF x
    <3>5. handler' \in [Handlers -> HandlerOf(n)]
      BY <1>4, <3>1, <3>4
    <3> QED BY <1>4, <2>2, <2>3, <3>5 DEF H!loops, n
  <2>6. CASE H!Ask(h) \/ H!StoreSum(h) \/ H!Load(h)
    <3>1. \E d \in HandlerOf(n) : handler' = [handler EXCEPT ![h] = d]
      BY <2>4, <2>6 DEF H!Ask, H!StoreSum, H!Load
    <3>2. handler' \in [Handlers -> HandlerOf(n)]
      BY <1>4, <3>1
    <3> QED BY <1>4, <2>2, <2>3, <3>2 DEF H!loops, n
  <2> QED BY <2>1, <2>5, <2>6
<1>13. CASE UNCHANGED health
  BY <1>4, <1>13 DEF health, n
<1> QED BY <1>7, <1>9, <1>10, <1>11, <1>12, <1>13 DEF H!Next

\* The rest of what the log's state is made of.
LogTypes == keep \in Keeps /\ opened \in 0..MaxSecond /\ opens \in 0..LogStarts

LEMMA LogTypesInit == L!Init => LogTypes
  BY RecordsAssumption DEF L!LogFileAssumption, L!Init, LogTypes

LEMMA LogTypesNext == ASSUME LogInv, LogTypes, L!Next \/ UNCHANGED log PROVE LogTypes'
<1>1. now \in 0..MaxSecond
  BY DEF LogInv, LogTyped
<1>2. CASE L!Open
  BY <1>1, <1>2, RecordsAssumption DEF L!LogFileAssumption, L!Open, LogTypes
<1>3. CASE L!Tick
  BY <1>3 DEF L!Tick, LogTypes
<1>4. ASSUME NEW len \in LogLengths, L!WriteLine(len) \/ L!RotateThenWrite(len) \/ L!RotateHalf(len)
      PROVE  LogTypes'
  BY <1>1, <1>4 DEF L!WriteLine, L!RotateThenWrite, L!RotateHalf, LogTypes
<1>5. CASE UNCHANGED log
  BY <1>5 DEF log, LogTypes
<1> QED BY <1>2, <1>3, <1>4, <1>5 DEF L!Next

LEMMA LogTypeOK == LogInv /\ LogTypes => L!TypeOK
<1> SUFFICES ASSUME LogInv, LogTypes PROVE L!TypeOK
  OBVIOUS
<1>1. LogTyped /\ named \subseteq L!Names /\ DOMAIN rotated \subseteq L!Names
  BY DEF LogInv, NamesGiven
<1>2. \A f \in LogText : f.ids \subseteq 1..MaxLog /\ f.size \in Nat
  BY DEF LogText
<1>3. \A x \in DOMAIN rotated : rotated[x] \in LogText
  BY <1>1 DEF LogTyped
<1> QED BY <1>1, <1>2, <1>3 DEF LogTyped, LogTypes, L!TypeOK

(***************************************************************************)
(* The composition                                                         *)
(***************************************************************************)

PartsInv ==
  /\ FramersInv /\ PullInv /\ HealthInv /\ LogInv /\ ClaimInv
  /\ P!TypeOK /\ H!TypeOK /\ LogTypes /\ ClaimTyped

LEMMA Invariance == Spec => []PartsInv
<1>1. Init => PartsInv
  BY FramersInit, PullInit, HealthInit, LogInit, ClaimInit, PullTypesInit, HealthTypesInit,
     LogTypesInit, TypedInit
  DEF Init, PartsInv
<1>2. PartsInv /\ [Next]_vars => PartsInv'
  <2> SUFFICES ASSUME PartsInv, [Next]_vars PROVE PartsInv'
    OBVIOUS
  <2>1. P!Next \/ UNCHANGED pull
    BY DEF Next, vars
  <2>2. H!Next \/ UNCHANGED health
    BY DEF Next, vars
  <2>3. L!Next \/ UNCHANGED log
    BY DEF Next, vars
  <2>4. W!Next \/ UNCHANGED watermark
    BY DEF Next, vars
  <2>5. F!Next \/ UNCHANGED framer
    BY DEF Next, vars
  <2> QED
    BY <2>1, <2>2, <2>3, <2>4, <2>5, FramersNext, PullNext, HealthNext, LogNext, ClaimNext,
       PullTypesNext, HealthTypesNext, LogTypesNext, TypedNext
    DEF PartsInv
<1> QED BY <1>1, <1>2, PTL DEF Spec

\* TypeCorrect: every variable of the five parts keeps its type: no batch holds an
\* entry that cannot be shipped, no claim or estimate leaves its bounds, and no
\* file, handler or line count leaves its own.
THEOREM TypeCorrect == Spec => []TypeOK
<1>1. PartsInv => F!TypeOK /\ W!TypeOK /\ P!TypeOK /\ L!TypeOK /\ H!TypeOK
  BY FramersTypeOK, LogTypeOK DEF PartsInv, ClaimTyped
<1>2. PartsInv /\ part \in Parts => TypeOK
  BY <1>1 DEF TypeOK, Parts
<1>3. Spec => [](part \in Parts)
  <2>1. Init => part \in Parts
    BY DEF Init
  <2>2. part \in Parts /\ [Next]_vars => (part \in Parts)'
    BY DEF Next, vars
  <2> QED BY <2>1, <2>2, PTL DEF Spec
<1> QED BY <1>2, <1>3, Invariance, PTL

\* FramingSoundHolds: the records of a stream, one after the other, and what is held
\* of it, are its lines in their order, message by message, and what is held is
\* below the caps; whatever the caps, the timeouts and the lines that are refused
\* (push, expire and drain of multiline.rs, docker.rs and cri.rs).
THEOREM FramingSoundHolds == Spec => []FramingSound
<1>1. PartsInv => FramingSound
  BY FramersSound DEF PartsInv, FramingSound
<1> QED BY <1>1, Invariance, PTL

\* NoGapHolds: an entry the saved cursor is past is stored, queued or purged
\* before it was read, over restarts and failed appends; but for a batch the
\* queue refused and the entry that journald's seek goes past (run_journald of
\* journald.rs, run_winlog of winlog.rs).
THEOREM NoGapHolds == Spec => []NoGap
<1>1. PartsInv => NoGap
  BY PullNoGap DEF PartsInv, NoGap
<1> QED BY <1>1, Invariance, PTL

\* ShippingHonestHolds: /healthz says shipping only when every snapshot showed no
\* backlog during the request, unless another request's older sum came between
\* (healthz of server.rs, aggregate of telemetry.rs).
THEOREM ShippingHonestHolds == Spec => []ShippingHonest
<1>1. PartsInv => ShippingHonest
  BY HealthHonest DEF PartsInv, ShippingHonest
<1> QED BY <1>1, Invariance, PTL

\* LogSoundHolds: the agent's log loses its oldest lines only, unless a name was
\* given twice, and a file of more than one line is within rotate_size unless its
\* rotation failed; over restarts and half-done rotations (write_line, rotate and
\* prune of logfile.rs).
THEOREM LogSoundHolds == Spec => []LogSound
<1>1. PartsInv => LogSound
  BY LogInvSound DEF PartsInv, LogSound
<1> QED BY <1>1, Invariance, PTL

\* ClaimSoundHolds: the watermark covers no line that has not left the batch and
\* hides none that came late, and its allowance leaves no more of the window later
\* than it than the quantile allows (observe, estimate and advance of watermark.rs,
\* in build and flush of main.rs).
THEOREM ClaimSoundHolds == Spec => []ClaimSound
<1>1. PartsInv => W!AllowanceCovers
  BY AllowanceCovered DEF PartsInv, ClaimTyped, W!TypeOK
<1>2. PartsInv => ClaimSound
  BY <1>1 DEF PartsInv, ClaimInv, ClaimSound, W!ClaimSound
<1> QED BY <1>2, Invariance, PTL
=============================================================================
