---------------------------- MODULE ShipperProofs ----------------------------
(***************************************************************************)
(* TypeOK, ChunksPartition and SendContract of Shipper, for any number of  *)
(* calls, batches of any size and any lines the server rejects.            *)
(***************************************************************************)
EXTENDS Shipper, SequenceTheorems, TLAPS

(***************************************************************************)
(* Chunks and stacks of chunks                                             *)
(***************************************************************************)

Chunks(t) == {c \in Lines(t) \X Lines(t) : c[1] <= c[2]}

Covered(s) == UNION {Slice(s[i]) : i \in DOMAIN s}

Disjoint(s) ==
  \A i, j \in DOMAIN s : i # j => Slice(s[i]) \cap Slice(s[j]) = {}

\* Two halves of a chunk of several lines are chunks, and share out its lines.
LEMMA HalvesSplit ==
  ASSUME NEW t \in Tasks, NEW c \in Chunks(t), c[1] < c[2]
  PROVE  /\ Halves(c).left \in Chunks(t) /\ Halves(c).right \in Chunks(t)
         /\ Slice(Halves(c).left) \cup Slice(Halves(c).right) = Slice(c)
         /\ Slice(Halves(c).left) \cap Slice(Halves(c).right) = {}
<1> DEFINE mid == (c[2] - c[1] + 1) \div 2
           l == <<c[1], c[1] + mid - 1>>
           r == <<c[1] + mid, c[2]>>
<1>1. /\ Size[t] \in Nat /\ c[1] \in Nat /\ c[2] \in Nat /\ 1 <= c[1] /\ c[2] <= Size[t]
      /\ c \in Lines(t) \X Lines(t)
  BY ShipperAssumption DEF Chunks, Lines
<1>2. mid \in Nat /\ 1 <= mid /\ mid <= c[2] - c[1]
  BY <1>1
<1> HIDE DEF mid
<1>3. l \in Chunks(t) /\ r \in Chunks(t)
  <2>1. /\ c[1] \in 1..Size[t] /\ c[1] + mid - 1 \in 1..Size[t] /\ c[1] + mid \in 1..Size[t]
        /\ c[2] \in 1..Size[t] /\ c[1] <= c[1] + mid - 1 /\ c[1] + mid <= c[2]
    BY <1>1, <1>2
  <2> QED BY <2>1 DEF Chunks, Lines
<1>4. Slice(l) = c[1]..(c[1] + mid - 1) /\ Slice(r) = (c[1] + mid)..c[2] /\ Slice(c) = c[1]..c[2]
  BY DEF Slice
<1>5. /\ c[1]..(c[1] + mid - 1) \cup (c[1] + mid)..c[2] = c[1]..c[2]
      /\ c[1]..(c[1] + mid - 1) \cap (c[1] + mid)..c[2] = {}
  BY <1>1, <1>2
<1>6. Halves(c).left = l /\ Halves(c).right = r
  BY DEF Halves, mid
<1> HIDE DEF l, r
<1> QED BY <1>3, <1>4, <1>5, <1>6

\* A chunk that shares no line with a stack of disjoint ones may be pushed.
LEMMA Pushed ==
  ASSUME NEW C, NEW s \in Seq(C), NEW c \in C, Disjoint(s), Slice(c) \cap Covered(s) = {}
  PROVE  /\ s \o <<c>> \in Seq(C) /\ Disjoint(s \o <<c>>)
         /\ Covered(s \o <<c>>) = Covered(s) \cup Slice(c)
<1> DEFINE n == Len(s)
           u == s \o <<c>>
<1>1. <<c>> \in Seq(C) /\ Len(<<c>>) = 1 /\ <<c>>[1] = c
  OBVIOUS
<1>2. n \in Nat /\ DOMAIN s = 1..n
  BY LenProperties
<1>3. /\ u \in Seq(C) /\ Len(u) = n + 1
      /\ \A i \in 1..n : u[i] = s[i]
      /\ u[n + 1] = c
  <2>1. /\ u \in Seq(C) /\ Len(u) = Len(s) + Len(<<c>>)
        /\ \A i \in 1..(Len(s) + Len(<<c>>)) :
             u[i] = IF i <= Len(s) THEN s[i] ELSE <<c>>[i - Len(s)]
    BY <1>1, ConcatProperties
  <2> HIDE DEF u
  <2>2. \A i \in 1..(n + 1) : u[i] = IF i <= n THEN s[i] ELSE <<c>>[i - n]
    BY <1>1, <2>1
  <2> HIDE DEF n
  <2>3. \A i \in 1..n : u[i] = s[i]
    BY <1>2, <2>2
  <2>4. u[n + 1] = c
    <3>1. n + 1 \in 1..(n + 1) /\ ~(n + 1 <= n) /\ n + 1 - n = 1
      BY <1>2
    <3> QED BY <1>1, <1>2, <2>2, <3>1
  <2> QED BY <1>1, <2>1, <2>3, <2>4 DEF n
<1> HIDE DEF u
<1>4. DOMAIN u = 1..(n + 1)
  BY <1>3, LenProperties
<1> HIDE DEF n
<1>5. 1..(n + 1) = 1..n \cup {n + 1} /\ n + 1 \notin 1..n
  BY <1>2
<1>6. Covered(u) = Covered(s) \cup Slice(c)
  <2>1. Covered(u) \subseteq Covered(s) \cup Slice(c)
    BY <1>2, <1>3, <1>4, <1>5 DEF Covered
  <2>2. Covered(s) \subseteq Covered(u)
    <3> SUFFICES ASSUME NEW i \in DOMAIN s, NEW x \in Slice(s[i]) PROVE x \in Covered(u)
      BY DEF Covered
    <3>1. i \in DOMAIN u /\ u[i] = s[i]
      BY <1>2, <1>3, <1>4, <1>5
    <3> QED BY <3>1 DEF Covered
  <2>3. Slice(c) \subseteq Covered(u)
    BY <1>3, <1>4, <1>5 DEF Covered
  <2> QED BY <2>1, <2>2, <2>3
<1>7. Disjoint(u)
  <2> SUFFICES ASSUME NEW i \in DOMAIN u, NEW j \in DOMAIN u, i # j
               PROVE  Slice(u[i]) \cap Slice(u[j]) = {}
    BY DEF Disjoint
  <2>1. \A k \in DOMAIN s : Slice(s[k]) \subseteq Covered(s)
    BY DEF Covered
  <2>2. CASE i \in 1..n /\ j \in 1..n
    BY <1>2, <1>3, <2>2 DEF Disjoint
  <2>3. CASE i = n + 1 /\ j \in 1..n
    BY <1>2, <1>3, <2>1, <2>3
  <2>4. CASE j = n + 1 /\ i \in 1..n
    BY <1>2, <1>3, <2>1, <2>4
  <2> QED BY <1>4, <1>5, <2>2, <2>3, <2>4
<1> QED BY <1>3, <1>6, <1>7 DEF u

\* The top of a stack of disjoint chunks shares no line with the rest.
LEMMA Popped ==
  ASSUME NEW C, NEW s \in Seq(C), s # <<>>, Disjoint(s)
  PROVE  /\ s[Len(s)] \in C /\ SubSeq(s, 1, Len(s) - 1) \in Seq(C)
         /\ Disjoint(SubSeq(s, 1, Len(s) - 1))
         /\ Covered(s) = Covered(SubSeq(s, 1, Len(s) - 1)) \cup Slice(s[Len(s)])
         /\ Covered(SubSeq(s, 1, Len(s) - 1)) \cap Slice(s[Len(s)]) = {}
<1> DEFINE n == Len(s) - 1
           u == SubSeq(s, 1, n)
<1>1. Len(s) \in Nat /\ Len(s) # 0 /\ DOMAIN s = 1..Len(s) /\ \A i \in 1..Len(s) : s[i] \in C
  BY EmptySeq, ElementOfSeq, LenProperties
<1>2. n \in Nat /\ Len(s) = n + 1 /\ 1 \in Int /\ n \in Int
  BY <1>1
<1>3. 1..Len(s) = 1..n \cup {n + 1} /\ n + 1 \notin 1..n
  BY <1>2
<1> HIDE DEF n
<1>4. u \in Seq(C) /\ Len(u) = n /\ \A i \in 1..n : u[i] = s[i]
  <2>1. \A i \in 1..n : s[i] \in C
    BY <1>1, <1>3
  <2>2. /\ u \in Seq(C) /\ Len(u) = IF 1 <= n THEN n - 1 + 1 ELSE 0
        /\ \A i \in 1..(n - 1 + 1) : u[i] = s[1 + i - 1]
    BY <1>2, <2>1, SubSeqProperties
  <2> HIDE DEF u
  <2> QED BY <1>2, <2>2
<1> HIDE DEF u
<1>5. DOMAIN u = 1..n
  BY <1>4, LenProperties
<1>6. Disjoint(u)
  BY <1>1, <1>3, <1>4, <1>5 DEF Disjoint
<1>7. Covered(s) = Covered(u) \cup Slice(s[n + 1])
  <2>1. Covered(s) \subseteq Covered(u) \cup Slice(s[n + 1])
    BY <1>1, <1>3, <1>4, <1>5 DEF Covered
  <2>2. Covered(u) \subseteq Covered(s)
    BY <1>1, <1>3, <1>4, <1>5 DEF Covered
  <2>3. Slice(s[n + 1]) \subseteq Covered(s)
    BY <1>1, <1>3 DEF Covered
  <2> QED BY <2>1, <2>2, <2>3
<1>8. Covered(u) \cap Slice(s[n + 1]) = {}
  <2> SUFFICES ASSUME NEW x \in Covered(u), x \in Slice(s[n + 1]) PROVE FALSE
    OBVIOUS
  <2>1. PICK i \in 1..n : x \in Slice(s[i])
    BY <1>4, <1>5 DEF Covered
  <2>2. i \in DOMAIN s /\ n + 1 \in DOMAIN s /\ i # n + 1
    BY <1>1, <1>3
  <2> QED BY <2>1, <2>2 DEF Disjoint
<1> QED BY <1>1, <1>2, <1>3, <1>4, <1>6, <1>7, <1>8 DEF u, n

(***************************************************************************)
(* The inductive invariant                                                 *)
(***************************************************************************)

States == {"idle", "next", "wire", "rebuild", "rebuilt", "ok", "err"}

\* What a call has done with its lines: d are stored, p are poison, c is the
\* chunk on the wire and s the stack.
Shared(t, s, c, p, d) ==
  /\ Lines(t) = d \cup p \cup Slice(c) \cup Covered(s)
  /\ Slice(c) \cap Covered(s) = {}
  /\ p \cap (Slice(c) \cup Covered(s)) = {}
  /\ Disjoint(s)

\* One call, when the server rejects the lines bad and the call is at x.  Every
\* chunk is a slice of one line or more: an empty one would be answered with
\* nothing and stand for no line.
Sound(t, bad, x, s, c, p, d) ==
  /\ bad \subseteq Lines(t) /\ p \subseteq bad
  /\ d \subseteq Lines(t) /\ d \cap bad = {}
  /\ s \in Seq(Chunks(t))
  /\ x = "wire" => c \in Chunks(t)
  /\ x # "wire" => c = NoChunk
  /\ x \in {"next", "wire"} => Shared(t, s, c, p, d)
  /\ x = "ok" => p = bad /\ d = Lines(t) \ bad

Functions ==
  /\ st \in [Tasks -> States] /\ peer \in [Tasks -> {"router", "querier", "stranger"}]
  /\ DOMAIN stack = Tasks /\ DOMAIN chunk = Tasks
  /\ DOMAIN poison = Tasks /\ DOMAIN stored = Tasks

World ==
  /\ pool \in {"router", "querier", "stranger"} /\ streak \in 0..(RebuildAfter - 1)
  /\ router \in {"ok", "busy", "denied", "sick"} /\ wire \in {"good", "bad"}
  /\ identity \in BOOLEAN /\ reshapes \in 0..MaxReshapes

IInv ==
  /\ Functions /\ World
  /\ \A t \in Tasks : Sound(t, poisonOf[t], st[t], stack[t], chunk[t], poison[t], stored[t])

\* A step of the call t.
StepOf(t) ==
  /\ Functions' /\ World' /\ poisonOf' = poisonOf
  /\ \A u \in Tasks \ {t} :
       /\ st'[u] = st[u] /\ stack'[u] = stack[u] /\ chunk'[u] = chunk[u]
       /\ poison'[u] = poison[u] /\ stored'[u] = stored[u]

\* A step of a call keeps the invariant if that call stays sound.
LEMMA OneCall ==
  ASSUME IInv, NEW t \in Tasks, StepOf(t),
         Sound(t, poisonOf[t], st'[t], stack'[t], chunk'[t], poison'[t], stored'[t])
  PROVE  IInv'
<1> SUFFICES ASSUME NEW u \in Tasks
             PROVE Sound(u, poisonOf[u], st[u], stack[u], chunk[u], poison[u], stored[u])'
  BY DEF IInv, StepOf
<1>1. Sound(u, poisonOf[u], st[u], stack[u], chunk[u], poison[u], stored[u])
  BY DEF IInv
<1>2. Sound(u, poisonOf[u], st'[u], stack'[u], chunk'[u], poison'[u], stored'[u])
  <2>1. CASE u = t
    BY <2>1
  <2>2. CASE u # t
    <3>1. /\ st'[u] = st[u] /\ stack'[u] = stack[u] /\ chunk'[u] = chunk[u]
          /\ poison'[u] = poison[u] /\ stored'[u] = stored[u]
      BY <2>2 DEF StepOf
    <3> QED BY <1>1, <3>1
  <2> QED BY <2>1, <2>2
<1> QED BY <1>2 DEF StepOf, Sound, Shared, Covered, Disjoint, Slice, Lines, Chunks, NoChunk

\* A chunk has a line, and no chunk has none.
LEMMA SliceFacts ==
  ASSUME NEW t \in Tasks
  PROVE  /\ Slice(NoChunk) = {} /\ Covered(<<>>) = {} /\ Disjoint(<<>>)
         /\ <<>> \in Seq(Chunks(t))
         /\ \A c \in Chunks(t) : Slice(c) \subseteq Lines(t) /\ c[1] \in Slice(c)
<1>1. Slice(NoChunk) = {}
  BY DEF Slice, NoChunk
<1>2. ASSUME NEW c \in Chunks(t) PROVE Slice(c) \subseteq Lines(t) /\ c[1] \in Slice(c)
  <2>1. /\ Size[t] \in Nat /\ c[1] \in 1..Size[t] /\ c[2] \in 1..Size[t] /\ c[1] <= c[2]
    BY ShipperAssumption DEF Chunks, Lines
  <2> QED BY <2>1 DEF Slice, Lines
<1> QED BY <1>1, <1>2 DEF Covered, Disjoint

LEMMA InitSound == Init => IInv
<1> SUFFICES ASSUME Init PROVE IInv
  OBVIOUS
<1>1. PICK bad \in [Tasks -> Bad] : poisonOf = [t \in Tasks |-> bad[t] \cap Lines(t)]
  BY DEF Init
<1>2. Functions
  BY DEF Init, Functions, States
<1>3. World
  <2>1. identity \in BOOLEAN
    BY Zenon DEF Init
  <2> QED BY <2>1, ShipperAssumption DEF Init, World
<1>4. ASSUME NEW t \in Tasks
      PROVE  Sound(t, poisonOf[t], st[t], stack[t], chunk[t], poison[t], stored[t])
  <2>1. /\ st[t] = "idle" /\ stack[t] = <<>> /\ chunk[t] = NoChunk
        /\ poison[t] = {} /\ stored[t] = {} /\ poisonOf[t] \subseteq Lines(t)
    BY <1>1 DEF Init
  <2> QED BY <2>1, SliceFacts DEF Sound
<1> QED BY <1>2, <1>3, <1>4 DEF IInv

(***************************************************************************)
(* The steps                                                               *)
(***************************************************************************)

LEMMA StartSound == ASSUME IInv, NEW t \in Tasks, Start(t) PROVE IInv'
<1> DEFINE whole == <<1, Size[t]>>
<1>1. StepOf(t)
  BY DEF IInv, Start, StepOf, Functions, World, world, States
<1>2. /\ st'[t] = "next" /\ stack'[t] = <<whole>> /\ chunk'[t] = chunk[t]
      /\ poison'[t] = {} /\ stored'[t] = stored[t] /\ st[t] \in {"idle", "err"}
  BY DEF IInv, Start, Functions
<1>3. /\ poisonOf[t] \subseteq Lines(t) /\ chunk[t] = NoChunk
      /\ stored[t] \subseteq Lines(t) /\ stored[t] \cap poisonOf[t] = {}
  BY <1>2 DEF IInv, Sound
<1>4. whole \in Chunks(t) /\ Slice(whole) = Lines(t)
  <2>1. Size[t] \in Nat /\ 1 <= Size[t]
    BY ShipperAssumption
  <2> QED BY <2>1 DEF Chunks, Lines, Slice
<1> HIDE DEF whole
<1>5. /\ <<whole>> \in Seq(Chunks(t)) /\ Disjoint(<<whole>>)
      /\ Covered(<<whole>>) = Lines(t)
  <2>1. DOMAIN <<whole>> = {1} /\ <<whole>>[1] = whole
    OBVIOUS
  <2> QED BY <1>4, <2>1 DEF Disjoint, Covered
<1>6. Shared(t, <<whole>>, NoChunk, {}, stored[t])
  BY <1>3, <1>5, SliceFacts DEF Shared
<1>7. Sound(t, poisonOf[t], "next", <<whole>>, NoChunk, {}, stored[t])
  BY <1>3, <1>5, <1>6 DEF Sound
<1> QED BY <1>1, <1>2, <1>3, <1>7, OneCall

\* The chunk moves from the stack to the wire.
LEMMA SendSound == ASSUME IInv, NEW t \in Tasks, Send(t) PROVE IInv'
<1> DEFINE s == stack[t]
           c == s[Len(s)]
           u == SubSeq(s, 1, Len(s) - 1)
<1>1. StepOf(t)
  BY DEF IInv, Send, StepOf, Functions, World, world, States
<1>2. /\ st[t] = "next" /\ s # <<>> /\ st'[t] = "wire" /\ stack'[t] = u /\ chunk'[t] = c
      /\ poison'[t] = poison[t] /\ stored'[t] = stored[t]
  BY DEF IInv, Send, Functions
<1>3. /\ Sound(t, poisonOf[t], "next", s, NoChunk, poison[t], stored[t])
      /\ s \in Seq(Chunks(t)) /\ Disjoint(s) /\ Shared(t, s, NoChunk, poison[t], stored[t])
  BY <1>2 DEF IInv, Sound, Shared
<1>4. /\ c \in Chunks(t) /\ u \in Seq(Chunks(t)) /\ Disjoint(u)
      /\ Covered(s) = Covered(u) \cup Slice(c) /\ Covered(u) \cap Slice(c) = {}
  BY <1>2, <1>3, Popped
<1> HIDE DEF c, u
<1>5. Shared(t, u, c, poison[t], stored[t])
  BY <1>3, <1>4, SliceFacts DEF Shared
<1>6. Sound(t, poisonOf[t], "wire", u, c, poison[t], stored[t])
  BY <1>3, <1>4, <1>5 DEF Sound
<1> QED BY <1>1, <1>2, <1>6, OneCall

\* Nothing is left to send: each line is stored or poison.
LEMMA FinishSound == ASSUME IInv, NEW t \in Tasks, Finish(t) PROVE IInv'
<1>1. StepOf(t)
  BY DEF IInv, Finish, StepOf, Functions, World, world, States
<1>2. /\ st[t] = "next" /\ stack[t] = <<>> /\ st'[t] = "ok" /\ stack'[t] = stack[t]
      /\ chunk'[t] = chunk[t] /\ poison'[t] = poison[t] /\ stored'[t] = stored[t]
  BY DEF IInv, Finish, Functions
<1>3. /\ Sound(t, poisonOf[t], "next", <<>>, NoChunk, poison[t], stored[t])
      /\ chunk[t] = NoChunk /\ Shared(t, <<>>, NoChunk, poison[t], stored[t])
  BY <1>2 DEF IInv, Sound
<1>4. Lines(t) = stored[t] \cup poison[t]
  BY <1>3, SliceFacts DEF Shared
<1>5. Sound(t, poisonOf[t], "ok", <<>>, NoChunk, poison[t], stored[t])
  BY <1>3, <1>4 DEF Sound
<1> QED BY <1>1, <1>2, <1>3, <1>5, OneCall

\* The poison and the stored lines of other calls are left alone.
Apart(t) ==
  /\ DOMAIN poison' = Tasks /\ DOMAIN stored' = Tasks
  /\ \A u \in Tasks \ {t} : poison'[u] = poison[u] /\ stored'[u] = stored[u]

\* The call goes on.
LEMMA Continued ==
  ASSUME IInv, NEW t \in Tasks, NEW chunks, Continue(t, chunks), Apart(t)
  PROVE  /\ StepOf(t)
         /\ st'[t] = "next" /\ stack'[t] = stack[t] \o chunks /\ chunk'[t] = NoChunk
<1>1. Functions' /\ World'
  <2>1. streak' \in 0..(RebuildAfter - 1)
    BY ShipperAssumption DEF Continue
  <2> QED BY <2>1 DEF IInv, Continue, Apart, Functions, World, world, States
<1> QED BY <1>1 DEF IInv, Continue, Apart, StepOf, Functions

\* A request on the wire.
LEMMA OnWire ==
  ASSUME IInv, NEW t \in Tasks, st[t] = "wire"
  PROVE  /\ poisonOf[t] \subseteq Lines(t) /\ poison[t] \subseteq poisonOf[t]
         /\ stored[t] \subseteq Lines(t) /\ stored[t] \cap poisonOf[t] = {}
         /\ chunk[t] \in Chunks(t) /\ stack[t] \in Seq(Chunks(t))
         /\ Slice(chunk[t]) \subseteq Lines(t) /\ chunk[t][1] \in Slice(chunk[t])
         /\ Shared(t, stack[t], chunk[t], poison[t], stored[t])
         /\ Disjoint(stack[t]) /\ Slice(chunk[t]) \cap Covered(stack[t]) = {}
         /\ DOMAIN stored = Tasks /\ DOMAIN poison = Tasks
  BY SliceFacts DEF IInv, Sound, Shared, Functions

\* The chunk is stored.
LEMMA StoredSound == ASSUME IInv, NEW t \in Tasks, AnswerStored(t) PROVE IInv'
<1> DEFINE d == stored[t] \cup Slice(chunk[t])
<1>1. /\ st[t] = "wire" /\ Continue(t, <<>>) /\ poison' = poison
      /\ Slice(chunk[t]) \cap poisonOf[t] = {} /\ stored' = [stored EXCEPT ![t] = d]
  BY DEF AnswerStored, Answered, Store, Clean
<1>2. Apart(t) /\ stored'[t] = d
  BY <1>1, OnWire DEF Apart
<1>3. StepOf(t) /\ st'[t] = "next" /\ stack'[t] = stack[t] \o <<>> /\ chunk'[t] = NoChunk
  BY <1>1, <1>2, Continued
<1>4. stack[t] \o <<>> = stack[t]
  BY <1>1, OnWire, ConcatEmptySeq
<1>5. Shared(t, stack[t], NoChunk, poison[t], d)
  BY <1>1, OnWire, SliceFacts DEF Shared
<1>6. Sound(t, poisonOf[t], "next", stack[t], NoChunk, poison[t], d)
  BY <1>1, <1>5, OnWire DEF Sound
<1> HIDE DEF d
<1> QED BY <1>1, <1>2, <1>3, <1>4, <1>6, OneCall

\* The chunk of one line is poison.
LEMMA PoisonSound == ASSUME IInv, NEW t \in Tasks, AnswerPoison(t) PROVE IInv'
<1> DEFINE p == poison[t] \cup Slice(chunk[t])
<1>1. /\ st[t] = "wire" /\ Continue(t, <<>>) /\ stored' = stored
      /\ Slice(chunk[t]) \cap poisonOf[t] # {} /\ poison' = [poison EXCEPT ![t] = p]
      /\ chunk[t][1] = chunk[t][2]
  BY DEF AnswerPoison, Answered, Clean
<1>2. Apart(t) /\ poison'[t] = p
  BY <1>1, OnWire DEF Apart
<1>3. StepOf(t) /\ st'[t] = "next" /\ stack'[t] = stack[t] \o <<>> /\ chunk'[t] = NoChunk
  BY <1>1, <1>2, Continued
<1>4. stack[t] \o <<>> = stack[t]
  BY <1>1, OnWire, ConcatEmptySeq
<1>5. Slice(chunk[t]) \subseteq poisonOf[t]
  <2>1. chunk[t][1] \in Nat
    <3>1. chunk[t] \in Lines(t) \X Lines(t) /\ Size[t] \in Nat
      BY <1>1, OnWire, ShipperAssumption DEF Chunks
    <3> QED BY <3>1 DEF Lines
  <2>2. Slice(chunk[t]) = {chunk[t][1]}
    BY <1>1, <2>1 DEF Slice
  <2> QED BY <1>1, <2>2
<1>6. Shared(t, stack[t], NoChunk, p, stored[t])
  BY <1>1, OnWire, SliceFacts DEF Shared
<1>7. Sound(t, poisonOf[t], "next", stack[t], NoChunk, p, stored[t])
  BY <1>1, <1>5, <1>6, OnWire DEF Sound
<1> HIDE DEF p
<1> QED BY <1>1, <1>2, <1>3, <1>4, <1>7, OneCall

\* The chunk goes back on the stack, after 429.
LEMMA BusySound == ASSUME IInv, NEW t \in Tasks, AnswerBusy(t) PROVE IInv'
<1> DEFINE s == stack[t] \o <<chunk[t]>>
<1>1. st[t] = "wire" /\ Continue(t, <<chunk[t]>>) /\ poison' = poison /\ stored' = stored
  BY DEF AnswerBusy, Answered
<1>2. Apart(t)
  BY <1>1, OnWire DEF Apart
<1>3. StepOf(t) /\ st'[t] = "next" /\ stack'[t] = s /\ chunk'[t] = NoChunk
  BY <1>1, <1>2, Continued
<1>4. /\ s \in Seq(Chunks(t)) /\ Disjoint(s)
      /\ Covered(s) = Covered(stack[t]) \cup Slice(chunk[t])
  <2>1. /\ stack[t] \in Seq(Chunks(t)) /\ chunk[t] \in Chunks(t) /\ Disjoint(stack[t])
        /\ Slice(chunk[t]) \cap Covered(stack[t]) = {}
    BY <1>1, OnWire
  <2> QED BY <2>1, Pushed
<1> HIDE DEF s
<1>5. Shared(t, s, NoChunk, poison[t], stored[t])
  BY <1>1, <1>4, OnWire, SliceFacts DEF Shared
<1>6. Sound(t, poisonOf[t], "next", s, NoChunk, poison[t], stored[t])
  BY <1>1, <1>4, <1>5, OnWire DEF Sound
<1> QED BY <1>1, <1>3, <1>6, OneCall

\* The halves go on the stack.
LEMMA BisectSound == ASSUME IInv, NEW t \in Tasks, AnswerBisect(t) PROVE IInv'
<1> DEFINE l == Halves(chunk[t]).left
           r == Halves(chunk[t]).right
           u == stack[t] \o <<r>>
           s == stack[t] \o <<r, l>>
<1>1. /\ st[t] = "wire" /\ Continue(t, <<r, l>>) /\ poison' = poison /\ stored' = stored
      /\ chunk[t][1] < chunk[t][2]
  BY DEF AnswerBisect, Answered
<1>2. Apart(t)
  BY <1>1, OnWire DEF Apart
<1>3. StepOf(t) /\ st'[t] = "next" /\ stack'[t] = s /\ chunk'[t] = NoChunk
  BY <1>1, <1>2, Continued
<1>4. /\ l \in Chunks(t) /\ r \in Chunks(t) /\ Slice(l) \cup Slice(r) = Slice(chunk[t])
      /\ Slice(l) \cap Slice(r) = {}
  BY <1>1, OnWire, HalvesSplit
<1>5. stack[t] \in Seq(Chunks(t)) /\ Disjoint(stack[t]) /\ Slice(r) \cap Covered(stack[t]) = {}
  BY <1>1, <1>4, OnWire
<1> HIDE DEF l, r
<1>6. /\ u \in Seq(Chunks(t)) /\ Disjoint(u)
      /\ Covered(u) = Covered(stack[t]) \cup Slice(r)
  BY <1>4, <1>5, Pushed
<1>7. Slice(l) \cap Covered(u) = {}
  BY <1>1, <1>4, <1>6, OnWire
<1>8. s = u \o <<l>>
  <2>1. <<r>> \in Seq(Chunks(t)) /\ <<l>> \in Seq(Chunks(t)) /\ <<r>> \o <<l>> = <<r, l>>
    <3> HIDE DEF u, s
    <3>1. <<r>> \in Seq(Chunks(t)) /\ <<l>> \in Seq(Chunks(t)) /\ <<r, l>> \in Seq(Chunks(t))
      BY <1>4
    <3>2. /\ Len(<<r>> \o <<l>>) = Len(<<r, l>>)
          /\ \A i \in 1..Len(<<r>> \o <<l>>) : (<<r>> \o <<l>>)[i] = <<r, l>>[i]
      OBVIOUS
    <3>3. <<r>> \o <<l>> \in Seq(Chunks(t))
      BY <3>1, ConcatProperties
    <3> QED BY <3>1, <3>2, <3>3, SeqEqual
  <2> QED BY <1>5, <2>1, ConcatAssociative
<1> HIDE DEF u, s
<1>9. /\ s \in Seq(Chunks(t)) /\ Disjoint(s)
      /\ Covered(s) = Covered(stack[t]) \cup Slice(chunk[t])
  <2>1. /\ u \o <<l>> \in Seq(Chunks(t)) /\ Disjoint(u \o <<l>>)
        /\ Covered(u \o <<l>>) = Covered(u) \cup Slice(l)
    BY <1>4, <1>6, <1>7, Pushed
  <2> QED BY <1>4, <1>6, <1>8, <2>1
<1>10. Shared(t, s, NoChunk, poison[t], stored[t])
  BY <1>1, <1>9, OnWire, SliceFacts DEF Shared
<1>11. Sound(t, poisonOf[t], "next", s, NoChunk, poison[t], stored[t])
  BY <1>1, <1>9, <1>10, OnWire DEF Sound
<1> QED BY <1>1, <1>3, <1>11, OneCall

\* The call has failed; what it stored stays stored.
LEMMA Failed ==
  ASSUME IInv, NEW t \in Tasks, NEW x \in {"err", "rebuild"}, st[t] = "wire", Fail(t, x),
         streak' \in 0..(RebuildAfter - 1), DOMAIN stored' = Tasks,
         \A u \in Tasks \ {t} : stored'[u] = stored[u],
         stored'[t] \subseteq Lines(t), stored'[t] \cap poisonOf[t] = {}
  PROVE  IInv'
<1>1. StepOf(t)
  <2>1. Functions' /\ World'
    BY DEF IInv, Fail, Functions, World, world, States
  <2> QED BY <2>1 DEF IInv, Fail, StepOf, Functions
<1>2. st'[t] = x /\ stack'[t] = <<>> /\ chunk'[t] = NoChunk /\ poison'[t] = poison[t]
  BY DEF IInv, Fail, Functions
<1>3. Sound(t, poisonOf[t], x, <<>>, NoChunk, poison[t], stored'[t])
  BY OnWire, SliceFacts DEF Sound
<1> QED BY <1>1, <1>2, <1>3, OneCall

\* The streak stays below the count at which the pool is dropped.
LEMMA StreakTyped ==
  ASSUME IInv
  PROVE  /\ streak \in 0..(RebuildAfter - 1) /\ 0 \in 0..(RebuildAfter - 1)
         /\ (streak + 1) % RebuildAfter \in 0..(RebuildAfter - 1)
<1>1. RebuildAfter \in Nat \ {0} /\ streak \in 0..(RebuildAfter - 1)
  BY ShipperAssumption DEF IInv, World
<1> QED BY <1>1

LEMMA FailureSound ==
  ASSUME IInv, NEW t \in Tasks,
         AnswerDenied(t) \/ AnswerWrongNode(t) \/ AnswerOther(t) \/ NoAnswer(t)
  PROVE  IInv'
<1>1. st[t] = "wire"
  BY DEF AnswerDenied, AnswerWrongNode, AnswerOther, NoAnswer, Answered
<1>2. PICK x \in {"err", "rebuild"} : Fail(t, x)
  BY DEF AnswerDenied, AnswerWrongNode, AnswerOther, NoAnswer, TransportFailure
<1>3. streak' \in 0..(RebuildAfter - 1)
  BY StreakTyped DEF AnswerDenied, AnswerWrongNode, AnswerOther, NoAnswer, TransportFailure
<1>4. \/ stored' = stored
      \/ Clean(t) /\ Store(t)
  BY DEF AnswerDenied, AnswerWrongNode, AnswerOther, NoAnswer
<1>5. /\ DOMAIN stored' = Tasks /\ \A u \in Tasks \ {t} : stored'[u] = stored[u]
      /\ stored'[t] \subseteq Lines(t) /\ stored'[t] \cap poisonOf[t] = {}
  BY <1>1, <1>4, OnWire DEF Clean, Store
<1> QED BY <1>1, <1>2, <1>3, <1>5, Failed

\* rebuild_transport moves no line.
LEMMA RebuildSound ==
  ASSUME IInv, NEW t \in Tasks, RebuildClient(t) \/ RebuildStreak(t) \/ RebuildFails(t)
  PROVE  IInv'
<1>1. StepOf(t)
  BY StreakTyped
  DEF IInv, RebuildClient, RebuildStreak, RebuildFails, StepOf, Functions, World, world, States
<1>2. /\ st[t] \in {"rebuild", "rebuilt"} /\ st'[t] \in {"rebuilt", "err"}
      /\ UNCHANGED <<stack, chunk, poison, stored>>
  BY DEF IInv, RebuildClient, RebuildStreak, RebuildFails, Functions
<1>3. Sound(t, poisonOf[t], st'[t], stack[t], chunk[t], poison[t], stored[t])
  BY <1>2 DEF IInv, Sound
<1> QED BY <1>1, <1>2, <1>3, OneCall

LEMMA EnvironmentSound == ASSUME IInv, Reshape \/ Weather \/ UNCHANGED vars PROVE IInv'
<1>1. UNCHANGED calls
  BY DEF Reshape, Weather, vars
<1>2. World'
  <2>1. CASE Reshape
    BY <2>1, ShipperAssumption DEF IInv, World, Reshape
  <2>2. CASE Weather
    <3>1. identity' \in BOOLEAN
      BY <2>2, Zenon DEF IInv, World, Weather
    <3> QED BY <2>2, <3>1 DEF IInv, World, Weather
  <2>3. CASE UNCHANGED vars
    BY <2>3 DEF IInv, World, vars, world
  <2> QED BY <2>1, <2>2, <2>3
<1>3. Functions'
  BY <1>1 DEF IInv, calls, Functions
<1>4. ASSUME NEW t \in Tasks
      PROVE  Sound(t, poisonOf[t], st[t], stack[t], chunk[t], poison[t], stored[t])'
  <2>1. Sound(t, poisonOf[t], st[t], stack[t], chunk[t], poison[t], stored[t])
    BY DEF IInv
  <2>2. UNCHANGED <<poisonOf, st, stack, chunk, poison, stored>>
    BY <1>1 DEF calls
  <2>3. Sound(t, poisonOf'[t], st'[t], stack'[t], chunk'[t], poison'[t], stored'[t])
    BY <2>1, <2>2
  <2> QED BY <2>3 DEF Sound, Shared, Covered, Disjoint, Slice, Lines, Chunks, NoChunk
<1> QED BY <1>2, <1>3, <1>4 DEF IInv

(***************************************************************************)
(* The theorems                                                            *)
(***************************************************************************)

LEMMA Invariance == Spec => []IInv
<1>1. IInv /\ [Next]_vars => IInv'
  <2> SUFFICES ASSUME IInv, [Next]_vars PROVE IInv'
    OBVIOUS
  <2>1. ASSUME NEW t \in Tasks, Step(t) PROVE IInv'
    BY <2>1, StartSound, SendSound, FinishSound, StoredSound, BisectSound, PoisonSound,
       BusySound, FailureSound, RebuildSound
    DEF Step
  <2> QED BY <2>1, EnvironmentSound DEF Next
<1> QED BY <1>1, InitSound, PTL DEF Spec

\* TypeCorrect: every variable has its type, and the streak stays below
\* REBUILD_AFTER (note_transport_failure).
THEOREM TypeCorrect == Spec => []TypeOK
<1>1. IInv => TypeOK
  <2> SUFFICES ASSUME IInv PROVE TypeOK
    OBVIOUS
  <2>1. ASSUME NEW t \in Tasks
        PROVE  /\ {poisonOf[t], poison[t], stored[t]} \subseteq SUBSET Lines(t)
               /\ stack[t] \in Seq(Lines(t) \X Lines(t))
               /\ Slice(chunk[t]) \subseteq Lines(t)
    <3>1. Sound(t, poisonOf[t], st[t], stack[t], chunk[t], poison[t], stored[t])
      BY DEF IInv
    <3>2. Chunks(t) \subseteq Lines(t) \X Lines(t) /\ stack[t] \in Seq(Chunks(t))
      BY <3>1 DEF Chunks, Sound
    <3>3. stack[t] \in Seq(Lines(t) \X Lines(t))
      BY <3>2, SeqMonotonic
    <3>4. Slice(chunk[t]) \subseteq Lines(t)
      BY <3>1, SliceFacts DEF Sound
    <3> QED BY <3>1, <3>3, <3>4 DEF Sound
  <2> QED BY <2>1 DEF IInv, Functions, World, States, TypeOK
<1> QED BY <1>1, Invariance, PTL

\* ChunksPartitionHolds: bisection loses no line and sends none twice in a call
\* (send_lines).
THEOREM ChunksPartitionHolds == Spec => []ChunksPartition
<1>1. IInv => ChunksPartition
  BY DEF IInv, Sound, Shared, ChunksPartition, Stacked, Covered, Disjoint
<1> QED BY <1>1, Invariance, PTL

\* SendContractHolds: Ok means that exactly the rejected lines came back and all
\* others are stored, whatever the answers and the other calls (send_lines, send).
THEOREM SendContractHolds == Spec => []SendContract
<1>1. IInv => SendContract
  BY DEF IInv, Sound, SendContract
<1> QED BY <1>1, Invariance, PTL
=============================================================================
