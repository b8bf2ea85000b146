--------------------------- MODULE StamperProofs ---------------------------
(***************************************************************************)
(* The stamper for every tick length, window, set of timestamps and number *)
(* of restarts: its types; while the source is in tick order, that a stamp *)
(* is the tick plus the line's index within it, that no two lines share    *)
(* one and that a replay repeats it; and that no two share one out of      *)
(* order, within the window.                                               *)
(***************************************************************************)
EXTENDS Stamper, FiniteSetTheorems, SequenceTheorems, TLAPS

(***************************************************************************)
(* Ticks                                                                   *)
(***************************************************************************)

\* A tick is an integer at most a tick length below its timestamp, and a
\* multiple of the tick length.
LEMMA FloorMultiple ==
  \A a \in Int : Floor(a) \in Int /\ Floor(a) = TickNs * (a \div TickNs)
<1>1. \A a \in Int : a % TickNs \in 0..(TickNs - 1)
  BY StamperAssumption
<1>2. \A a \in Int : a = TickNs * (a \div TickNs) + (a % TickNs)
  BY StamperAssumption
<1> QED BY <1>1, <1>2, StamperAssumption DEF Floor

\* Two different ticks are at least a tick length apart.
LEMMA FloorSpacing ==
  ASSUME NEW a \in Int, NEW b \in Int, Floor(a) < Floor(b)
  PROVE  Floor(a) + TickNs <= Floor(b)
<1> DEFINE p == a \div TickNs
           q == b \div TickNs
<1>1. p \in Int /\ q \in Int
  BY StamperAssumption
<1>2. Floor(a) = TickNs * p /\ Floor(b) = TickNs * q
  BY FloorMultiple
<1> HIDE DEF p, q
<1>3. p < q
  <2> SUFFICES ASSUME q <= p PROVE FALSE
    BY <1>1
  <2>1. TickNs * q <= TickNs * p
    BY <1>1, StamperAssumption
  <2> QED BY <2>1, <1>1, <1>2, StamperAssumption
<1>4. TickNs * p + TickNs <= TickNs * q
  BY <1>1, <1>3, StamperAssumption
<1> QED BY <1>2, <1>4

\* Every line of the source has an integer tick.
LEMMA SourceTick ==
  ASSUME src \in Seq(Timestamps)
  PROVE  \A i \in 1..Len(src) : src[i] \in Int /\ Floor(src[i]) \in Int
<1>1. \A i \in 1..Len(src) : src[i] \in Timestamps
  BY ElementOfSeq
<1> QED BY <1>1, FloorMultiple, StamperAssumption

(***************************************************************************)
(* The index of a line within its tick                                     *)
(***************************************************************************)

\* The earlier lines of a line's tick: the set Index counts.
Earlier(l) == {i \in 1..(l - 1) : Floor(src[i]) = Floor(src[l])}

\* Index counts a finite set.
LEMMA IndexType ==
  ASSUME NEW l \in Nat
  PROVE  IsFiniteSet(Earlier(l)) /\ Index(l) = Cardinality(Earlier(l)) /\ Index(l) \in Nat
<1>1. IsFiniteSet(1..(l - 1))
  BY FS_Interval
<1>2. Earlier(l) \in SUBSET (1..(l - 1))
  BY DEF Earlier
<1>3. IsFiniteSet(Earlier(l))
  BY <1>1, <1>2, FS_Subset
<1>4. Index(l) = Cardinality(Earlier(l))
  BY DEF Index, Earlier
<1> QED BY <1>3, <1>4, FS_CardinalityType

\* The first line of a tick has index zero.
LEMMA IndexFirst ==
  ASSUME NEW l \in Nat, \A i \in 1..(l - 1) : Floor(src[i]) # Floor(src[l])
  PROVE  Index(l) = 0
<1>1. Earlier(l) = {}
  BY DEF Earlier
<1> QED BY <1>1, IndexType, FS_EmptySet

\* The next line of the same tick has the next index.
LEMMA IndexStep ==
  ASSUME NEW l \in Nat \ {0}, Floor(src[l + 1]) = Floor(src[l])
  PROVE  Index(l + 1) = Index(l) + 1
<1>1. Earlier(l + 1) = Earlier(l) \cup {l}
  <2>1. 1..((l + 1) - 1) = 1..(l - 1) \cup {l}
    OBVIOUS
  <2> QED BY <2>1 DEF Earlier
<1>2. l \notin Earlier(l)
  BY DEF Earlier
<1>3. IsFiniteSet(Earlier(l)) /\ Index(l) = Cardinality(Earlier(l))
      /\ Index(l + 1) = Cardinality(Earlier(l + 1))
  BY IndexType
<1> QED BY <1>1, <1>2, <1>3, FS_AddElement

\* Two lines of one tick have different indices.
LEMMA IndexDistinct ==
  ASSUME NEW a \in Nat \ {0}, NEW b \in Nat \ {0}, a < b,
         Floor(src[a]) = Floor(src[b])
  PROVE  Index(a) < Index(b)
<1>1. Earlier(a) \cup {a} \in SUBSET Earlier(b)
  BY DEF Earlier
<1>2. a \notin Earlier(a)
  BY DEF Earlier
<1>3. /\ IsFiniteSet(Earlier(a)) /\ IsFiniteSet(Earlier(b))
      /\ Index(a) = Cardinality(Earlier(a)) /\ Index(b) = Cardinality(Earlier(b))
      /\ Index(a) \in Nat /\ Index(b) \in Nat
  BY IndexType
<1>4. Cardinality(Earlier(a) \cup {a}) = Index(a) + 1
  BY <1>2, <1>3, FS_AddElement
<1>5. Cardinality(Earlier(a) \cup {a}) <= Index(b)
  BY <1>1, <1>3, FS_Subset
<1> QED BY <1>3, <1>4, <1>5

\* Appending to the source changes neither the ticks nor the indices of the
\* lines already there.
LEMMA IndexStable ==
  ASSUME src \in Seq(Timestamps), NEW ts \in Timestamps, src' = Append(src, ts)
  PROVE  /\ src' \in Seq(Timestamps) /\ Len(src') = Len(src) + 1
         /\ Len(src) \in Nat /\ src'[Len(src) + 1] = ts
         /\ \A i \in 1..Len(src) : src'[i] = src[i] /\ Index(i)' = Index(i)
<1>1. /\ src' \in Seq(Timestamps) /\ Len(src') = Len(src) + 1 /\ Len(src) \in Nat
      /\ src'[Len(src) + 1] = ts
      /\ \A i \in 1..Len(src) : src'[i] = src[i]
  BY AppendProperties, LenProperties
<1>2. ASSUME NEW l \in 1..Len(src) PROVE Index(l)' = Index(l)
  <2>1. \A i \in 1..(l - 1) : src'[i] = src[i]
    BY <1>1
  <2>2. src'[l] = src[l]
    BY <1>1
  <2>3. {i \in 1..(l - 1) : Floor(src'[i]) = Floor(src'[l])}
          = {i \in 1..(l - 1) : Floor(src[i]) = Floor(src[l])}
    BY <2>1, <2>2
  <2> QED BY <2>3 DEF Index
<1> QED BY <1>1, <1>2

(***************************************************************************)
(* The window                                                              *)
(***************************************************************************)

\* Inserting a new tick keeps the window listed, whether or not one is evicted,
\* and leaves the new tick last.
LEMMA WindowInsert ==
  ASSUME order \in Seq(Int), Listed, NEW tick \in Int, tick \notin DOMAIN next,
         order' = Evict(Append(order, tick)),
         NEW f, next' = [t \in (DOMAIN next \cup {tick}) \ Without(Append(order, tick)) |-> f[t]]
  PROVE  /\ order' \in Seq(Int) /\ order' # <<>> /\ order'[Len(order')] = tick
         /\ tick \in DOMAIN next' /\ DOMAIN next' \subseteq DOMAIN next \cup {tick}
         /\ Listed'
         /\ \A i \in DOMAIN order' : order'[i] = tick \/ \E j \in DOMAIN order : order'[i] = order[j]
<1> DEFINE s == Append(order, tick)
<1>1. PICK n \in Nat : n = Len(order)
  BY LenProperties
<1>2. /\ s \in Seq(Int) /\ Len(s) = n + 1 /\ DOMAIN s = 1..(n + 1)
      /\ DOMAIN order = 1..n /\ s[n + 1] = tick
  BY <1>1, AppendProperties, LenProperties
<1>3. \A i \in 1..n : s[i] = order[i]
  BY <1>1, AppendProperties
<1>4. DOMAIN next = {order[i] : i \in 1..n}
  BY <1>2 DEF Listed
<1>5. \A i, j \in 1..n : order[i] = order[j] => i = j
  BY <1>2 DEF Listed
<1>6. n <= Window /\ Window \in Nat /\ Window >= 1
  BY <1>1, StamperAssumption DEF Listed
<1>7. order' = Evict(s) /\ DOMAIN next' = (DOMAIN next \cup {tick}) \ Without(s)
  OBVIOUS
<1> HIDE DEF s
<1>8. \A i, j \in 1..(n + 1) : s[i] = s[j] => i = j
  <2>1. \A i \in 1..n : s[i] # tick
    BY <1>3, <1>4
  <2>2. \A i \in 1..(n + 1) : i \in 1..n \/ i = n + 1
    OBVIOUS
  <2> QED BY <1>2, <1>3, <1>5, <2>1, <2>2
<1>9. {s[i] : i \in 1..(n + 1)} = DOMAIN next \cup {tick}
  <2>1. 1..(n + 1) = 1..n \cup {n + 1}
    OBVIOUS
  <2> QED BY <1>2, <1>3, <1>4, <2>1
<1>10. CASE ~(Len(s) > Window)
  <2>1. order' = s /\ Without(s) = {}
    BY <1>7, <1>10 DEF Evict, Without
  <2>2. DOMAIN next' = DOMAIN next \cup {tick} /\ DOMAIN order' = 1..(n + 1)
    BY <1>2, <1>7, <2>1
  <2>3. Len(order') <= Window
    BY <1>2, <1>6, <1>10, <2>1
  <2>4. Listed'
    <3>1. DOMAIN next' = {order'[i] : i \in DOMAIN order'}
      BY <1>9, <2>1, <2>2, Zenon
    <3>2. \A i, j \in DOMAIN order' : order'[i] = order'[j] => i = j
      BY <1>8, <2>1, <2>2, Zenon
    <3> QED BY <2>3, <3>1, <3>2, Zenon DEF Listed
  <2>5. order' # <<>>
    BY <1>2, <2>1, EmptySeq
  <2>6. \A i \in 1..(n + 1) : s[i] = tick \/ \E j \in 1..n : s[i] = order[j]
    BY <1>2, <1>3
  <2> QED BY <1>2, <2>1, <2>2, <2>4, <2>5, <2>6
<1>11. CASE Len(s) > Window
  <2>1. order' = Tail(s) /\ Without(s) = {Head(s)}
    BY <1>7, <1>11 DEF Evict, Without
  <2>2. n = Window /\ n >= 1
    BY <1>2, <1>6, <1>11
  <2>3. s # <<>>
    BY <1>2, EmptySeq
  <2>4. /\ Tail(s) \in Seq(Int) /\ Head(s) = s[1] /\ Len(Tail(s)) = n
        /\ DOMAIN Tail(s) = 1..n
    BY <1>2, <2>3, HeadTailProperties, LenProperties
  <2>5. \A i \in 1..n : Tail(s)[i] = s[i + 1]
    BY <1>2, <2>3, <2>4, HeadTailProperties
  <2>6. order'[n] = tick /\ Len(order') = n /\ order' # <<>>
    <3>1. n \in 1..n /\ n # 0
      BY <2>2
    <3>2. Tail(s)[n] = tick
      BY <1>2, <2>5, <3>1, Zenon
    <3>3. Len(order') = n /\ order'[n] = tick
      BY <2>1, <2>4, <3>2, Zenon
    <3>4. order' # <<>>
      BY <3>1, <3>3, EmptySeq
    <3> QED BY <3>3, <3>4
  <2>7. ASSUME NEW i \in 1..n
        PROVE  i + 1 \in 1..(n + 1) /\ 1 \in 1..(n + 1) /\ i + 1 # 1
    OBVIOUS
  <2>8. \A i \in 1..n : Tail(s)[i] \in (DOMAIN next \cup {tick}) \ {Head(s)}
    <3> SUFFICES ASSUME NEW i \in 1..n
                 PROVE  s[i + 1] \in (DOMAIN next \cup {tick}) \ {s[1]}
      BY <2>4, <2>5
    <3>1. s[i + 1] # s[1]
      BY <1>8, <2>7
    <3> QED BY <1>9, <2>7, <3>1
  <2>9. \A t \in (DOMAIN next \cup {tick}) \ {Head(s)} : \E i \in 1..n : Tail(s)[i] = t
    <3> SUFFICES ASSUME NEW t \in (DOMAIN next \cup {tick}) \ {Head(s)}
                 PROVE  \E i \in 1..n : Tail(s)[i] = t
      OBVIOUS
    <3>1. PICK j \in 1..(n + 1) : s[j] = t
      BY <1>9
    <3>2. j # 1
      BY <2>4, <3>1
    <3>3. j - 1 \in 1..n /\ (j - 1) + 1 = j
      BY <3>2
    <3>4. Tail(s)[j - 1] = t
      BY <2>5, <3>1, <3>3
    <3> QED BY <3>3, <3>4
  <2>10. {Tail(s)[i] : i \in 1..n} = (DOMAIN next \cup {tick}) \ {Head(s)}
    BY <2>8, <2>9, Zenon
  <2>11. DOMAIN order' = 1..n /\ DOMAIN next' = {order'[i] : i \in 1..n}
    <3>1. DOMAIN next' = {Tail(s)[i] : i \in 1..n}
      BY <1>7, <2>1, <2>10, Zenon
    <3> QED BY <2>1, <2>4, <3>1, Zenon
  <2>12. \A i, j \in 1..n : order'[i] = order'[j] => i = j
    <3> SUFFICES ASSUME NEW i \in 1..n, NEW j \in 1..n, s[i + 1] = s[j + 1]
                 PROVE  i = j
      BY <2>1, <2>5, Zenon
    <3>1. i + 1 = j + 1
      BY <1>8, <2>7
    <3> QED BY <3>1
  <2>13. tick \in DOMAIN next'
    <3>1. n \in 1..n
      BY <2>2
    <3> QED BY <2>6, <2>11, <3>1
  <2>14. Listed'
    BY <1>6, <2>6, <2>11, <2>12, Zenon DEF Listed
  <2>15. \A i \in 1..n : order'[i] = tick \/ \E j \in 1..n : order'[i] = order[j]
    <3> SUFFICES ASSUME NEW i \in 1..n
                 PROVE  s[i + 1] = tick \/ \E j \in 1..n : s[i + 1] = order[j]
      BY <2>1, <2>5, Zenon
    <3>1. CASE i = n
      BY <1>2, <3>1
    <3>2. CASE i # n
      <4>1. i + 1 \in 1..n
        BY <3>2
      <4>2. s[i + 1] = order[i + 1]
        BY <1>3, <4>1
      <4> QED BY <4>1, <4>2, Zenon
    <3> QED BY <3>1, <3>2
  <2> QED BY <1>2, <1>7, <2>1, <2>4, <2>6, <2>11, <2>13, <2>14, <2>15
<1> QED BY <1>10, <1>11

(***************************************************************************)
(* What the inductive invariant says of the line about to be stamped       *)
(***************************************************************************)

\* The line about to be stamped exists and has a tick.
LEMMA NextLine ==
  ASSUME TypeOK, pos < Len(src)
  PROVE  /\ Len(src) \in Nat /\ pos \in Nat /\ pos + 1 \in 1..Len(src)
         /\ pos + 1 \in 0..Len(src) /\ DOMAIN src = 1..Len(src)
         /\ src[pos + 1] \in Int /\ Floor(src[pos + 1]) \in Int
<1>1. Len(src) \in Nat /\ DOMAIN src = 1..Len(src)
  BY LenProperties DEF TypeOK
<1>2. pos \in Nat /\ pos + 1 \in 1..Len(src) /\ pos + 1 \in 0..Len(src)
  BY <1>1 DEF TypeOK
<1> QED BY <1>1, <1>2, SourceTick DEF TypeOK

\* When the window is not empty its last tick is the largest, it has a counter,
\* and it is the tick of the last line stamped.
LEMMA LastTick ==
  ASSUME TypeOK, Listed, Resumable, order # <<>>
  PROVE  /\ order[Len(order)] \in DOMAIN next
         /\ pos \in Nat \ {0} /\ pos \in 1..Len(src)
         /\ order[Len(order)] = Floor(src[pos])
         /\ next[Floor(src[pos])]
              = IF Index(pos) + 1 < TickNs THEN Index(pos) + 1 ELSE TickNs
<1>1. Len(order) \in 1..Len(order) /\ DOMAIN order = 1..Len(order)
  BY EmptySeq, LenProperties DEF TypeOK
<1>2. order[Len(order)] \in DOMAIN next
  BY <1>1 DEF Listed
<1>3. Resume = <<order[Len(order)], next[order[Len(order)]]>>
  BY DEF Resume
<1>4. pos # 0
  BY <1>3 DEF Resumable, AtTick
<1>5. pos \in Nat \ {0} /\ pos \in 1..Len(src)
  BY <1>4, LenProperties DEF TypeOK
<1>6. Resume = <<Floor(src[pos]), IF Index(pos) + 1 < TickNs THEN Index(pos) + 1 ELSE TickNs>>
  BY <1>4 DEF Resumable, AtTick
<1> QED BY <1>2, <1>3, <1>5, <1>6

\* In a source in tick order, the only known tick the next line can have is the
\* last one, and the counter stands at the line's index, or at its limit.
LEMMA KnownTick ==
  ASSUME TypeOK, Listed, Resumable, pos < Len(src),
         Floor(src[pos + 1]) \in DOMAIN next
  PROVE  /\ order # <<>> /\ order[Len(order)] = Floor(src[pos + 1])
         /\ Index(pos + 1) \in Nat
         /\ next[Floor(src[pos + 1])]
              = IF Index(pos + 1) < TickNs THEN Index(pos + 1) ELSE TickNs
<1>1. PICK i \in DOMAIN order : order[i] = Floor(src[pos + 1])
  BY DEF Listed
<1>2. order # <<>>
  BY <1>1, EmptySeq
<1>3. Floor(src[pos + 1]) <= order[Len(order)]
  BY <1>1 DEF Resumable
<1>4. /\ pos \in Nat \ {0} /\ pos \in 1..Len(src)
      /\ order[Len(order)] = Floor(src[pos])
      /\ next[Floor(src[pos])]
           = IF Index(pos) + 1 < TickNs THEN Index(pos) + 1 ELSE TickNs
  BY <1>2, LastTick
<1>5. pos + 1 \in 1..Len(src) /\ DOMAIN src = 1..Len(src) /\ pos <= pos + 1
  BY <1>4, NextLine
<1>6. Floor(src[pos]) <= Floor(src[pos + 1])
  BY <1>4, <1>5 DEF Resumable, InTickOrder
<1>7. Floor(src[pos + 1]) \in Int /\ Floor(src[pos]) \in Int
  BY <1>4, <1>5, SourceTick DEF TypeOK
<1>8. Floor(src[pos + 1]) = Floor(src[pos])
  BY <1>3, <1>4, <1>6, <1>7
<1>9. Index(pos + 1) = Index(pos) + 1 /\ Index(pos) \in Nat
  BY <1>4, <1>8, IndexStep, IndexType
<1> QED BY <1>2, <1>4, <1>8, <1>9

\* In a source in tick order, an unknown tick is a new one: larger than every
\* tick of the window, and the line is its first.
LEMMA UnknownTick ==
  ASSUME TypeOK, Listed, Resumable, pos < Len(src),
         Floor(src[pos + 1]) \notin DOMAIN next
  PROVE  /\ Index(pos + 1) = 0
         /\ \A i \in DOMAIN order : order[i] < Floor(src[pos + 1])
<1>0. /\ pos \in Nat /\ pos + 1 \in 1..Len(src) /\ Floor(src[pos + 1]) \in Int
      /\ DOMAIN src = 1..Len(src) /\ Len(src) \in Nat
  BY NextLine
<1>1. CASE order = <<>>
  <2>1. Resume = <<>> /\ DOMAIN order = {}
    BY <1>1 DEF Resume
  <2>2. pos = 0
    BY <2>1 DEF Resumable, AtTick
  <2>3. Index(pos + 1) = 0
    BY <2>2, IndexFirst
  <2> QED BY <2>1, <2>3
<1>2. CASE order # <<>>
  <2>1. /\ order[Len(order)] \in DOMAIN next /\ pos \in 1..Len(src)
        /\ order[Len(order)] = Floor(src[pos])
    BY <1>2, LastTick
  <2>2. Floor(src[pos]) \in Int /\ Floor(src[pos]) # Floor(src[pos + 1])
    BY <2>1, SourceTick DEF TypeOK
  <2>3. Floor(src[pos]) <= Floor(src[pos + 1])
    BY <1>0, <2>1 DEF Resumable, InTickOrder
  <2>4. Floor(src[pos]) < Floor(src[pos + 1])
    BY <1>0, <2>2, <2>3
  <2>5. \A i \in 1..pos : Floor(src[i]) # Floor(src[pos + 1])
    <3> SUFFICES ASSUME NEW i \in 1..pos PROVE Floor(src[i]) # Floor(src[pos + 1])
      OBVIOUS
    <3>1. i \in 1..Len(src) /\ i <= pos
      BY <1>0
    <3>2. Floor(src[i]) <= Floor(src[pos]) /\ Floor(src[i]) \in Int
      BY <1>0, <2>1, <3>1, SourceTick DEF Resumable, InTickOrder, TypeOK
    <3> QED BY <1>0, <2>2, <2>4, <3>2
  <2>6. Index(pos + 1) = 0
    <3>1. (pos + 1) - 1 = pos /\ pos + 1 \in Nat
      BY <1>0
    <3> QED BY <2>5, <3>1, IndexFirst
  <2>7. \A i \in DOMAIN order : order[i] < Floor(src[pos + 1])
    <3> SUFFICES ASSUME NEW i \in DOMAIN order PROVE order[i] < Floor(src[pos + 1])
      OBVIOUS
    <3>1. order[i] <= Floor(src[pos]) /\ order[i] \in Int
      BY <2>1, ElementOfSeq, LenProperties DEF Resumable, TypeOK
    <3> QED BY <1>0, <2>2, <2>4, <3>1
  <2> QED BY <2>6, <2>7
<1> QED BY <1>1, <1>2

\* Shipping a line under its tick plus its index keeps every shipped stamp the
\* line's tick plus its index.
LEMMA ShipPosition ==
  ASSUME TypeOK, Positioned, pos < Len(src), src' = src,
         Ship(Floor(src[pos + 1]) + Index(pos + 1)), Index(pos + 1) < TickNs
  PROVE  Positioned'
<1>1. \A l : Index(l)' = Index(l)
  BY DEF Index
<1>2. keys' = keys \cup {[line |-> pos + 1, stamp |-> Floor(src[pos + 1]) + Index(pos + 1)]}
  BY DEF Ship
<1>3. \A k \in keys' : Index(k.line) < TickNs /\ k.stamp = Floor(src[k.line]) + Index(k.line)
  BY <1>2 DEF Positioned
<1> QED BY <1>1, <1>3 DEF Positioned

(***************************************************************************)
(* The invariant is inductive: one lemma per action                        *)
(***************************************************************************)

\* The invariant holds of a stamper that has seen nothing.
LEMMA InitInv == Init => IInv
<1> SUFFICES ASSUME Init PROVE IInv
  OBVIOUS
<1>1. /\ src = <<>> /\ pos = 0 /\ next = NoTicks /\ order = <<>> /\ outOfWindow = 0
      /\ ckpt = [pos |-> 0, last |-> <<>>] /\ keys = {} /\ restarts = 0
  BY DEF Init
<1>2. Len(src) = 0 /\ src \in Seq(Timestamps) /\ Len(order) = 0 /\ order \in Seq(Int)
      /\ DOMAIN src = {} /\ DOMAIN order = {}
  BY <1>1, EmptySeq
<1>3. DOMAIN next = {} /\ next \in [DOMAIN next -> 1..TickNs]
  BY <1>1 DEF NoTicks
<1>4. TypeOK
  BY <1>1, <1>2, <1>3, StamperAssumption DEF TypeOK
<1>5. Listed
  BY <1>2, <1>3, StamperAssumption DEF Listed
<1>6. Resumable
  BY <1>1, <1>2 DEF Resumable, InTickOrder, AtTick, Resume
<1>7. Positioned
  BY <1>1 DEF Positioned
<1> QED BY <1>1, <1>4, <1>5, <1>6, <1>7 DEF IInv

\* Write: the application appends a line; what was stamped before stands.
LEMMA WriteInv == IInv /\ Write => IInv'
<1> SUFFICES ASSUME IInv, Write PROVE IInv'
  OBVIOUS
<1>0. TypeOK /\ Listed
  BY DEF IInv
<1>1. PICK ts \in Timestamps : src' = Append(src, ts)
  BY DEF Write
<1>2. UNCHANGED <<pos, next, order, outOfWindow, ckpt, keys, restarts>>
  BY DEF Write
<1>3. /\ src' \in Seq(Timestamps) /\ Len(src') = Len(src) + 1
      /\ Len(src) \in Nat /\ src'[Len(src) + 1] = ts
      /\ \A i \in 1..Len(src) : src'[i] = src[i] /\ Index(i)' = Index(i)
  BY <1>0, <1>1, IndexStable DEF TypeOK
<1>4. TypeOK'
  <2>1. pos \in 0..Len(src') /\ ckpt.pos \in 0..Len(src')
    BY <1>0, <1>3 DEF TypeOK
  <2>2. keys \subseteq [line : 1..Len(src'), stamp : Int]
    BY <1>0, <1>3 DEF TypeOK
  <2>3. ckpt \in [pos : 0..Len(src'), last : {<<>>} \cup (Int \X (1..TickNs))]
    BY <1>0, <2>1 DEF TypeOK
  <2> QED BY <1>0, <1>2, <1>3, <2>1, <2>2, <2>3 DEF TypeOK
<1>5. Listed'
  BY <1>0, <1>2 DEF Listed
<1>6. ASSUME InTickOrder' PROVE Resumable' /\ Positioned'
  <2>0. Resumable /\ Positioned
    <3>1. DOMAIN src = 1..Len(src) /\ 1..Len(src) \subseteq DOMAIN src'
      BY <1>0, <1>3, LenProperties DEF TypeOK
    <3>2. InTickOrder
      BY <1>3, <1>6, <3>1 DEF InTickOrder
    <3> QED BY <3>2 DEF IInv
  <2>1. \A p \in 0..Len(src) : p = 0 \/ (src'[p] = src[p] /\ Index(p)' = Index(p))
    BY <1>3
  <2>2. AtTick(pos, Resume)' /\ AtTick(ckpt.pos, ckpt.last)'
    <3>1. Resume' = Resume
      BY <1>2 DEF Resume
    <3>2. pos \in 0..Len(src) /\ ckpt.pos \in 0..Len(src)
      BY <1>0 DEF TypeOK
    <3>3. AtTick(pos, Resume)'
      BY <1>2, <2>0, <2>1, <3>1, <3>2 DEF Resumable, AtTick
    <3>4. AtTick(ckpt.pos, ckpt.last)'
      BY <1>2, <2>0, <2>1, <3>2 DEF Resumable, AtTick
    <3> QED BY <3>3, <3>4
  <2>4. Resumable'
    BY <1>2, <1>6, <2>0, <2>2 DEF Resumable
  <2>5. Positioned'
    <3>1. \A k \in keys : k.line \in 1..Len(src)
      BY <1>0 DEF TypeOK
    <3>2. \A k \in keys : src'[k.line] = src[k.line] /\ Index(k.line)' = Index(k.line)
      BY <1>3, <3>1
    <3> QED BY <1>2, <2>0, <3>2 DEF Positioned
  <2> QED BY <2>4, <2>5
<1> QED BY <1>4, <1>5, <1>6 DEF IInv

\* StampKnown: the next sequence of the tick is the index of the line.
LEMMA StampKnownInv == IInv /\ StampKnown => IInv'
<1> SUFFICES ASSUME IInv, StampKnown PROVE IInv'
  OBVIOUS
<1> DEFINE tick == Floor(src[pos + 1])
<1>0. TypeOK /\ Listed /\ pos < Len(src)
  BY DEF IInv, StampKnown
<1>1. /\ pos \in Nat /\ pos + 1 \in 1..Len(src) /\ pos + 1 \in 0..Len(src) /\ tick \in Int
  BY <1>0, NextLine
<1>2. /\ tick \in DOMAIN next /\ next[tick] < TickNs
      /\ next' = [next EXCEPT ![tick] = @ + 1]
      /\ Ship(tick + next[tick])
      /\ pos' = pos + 1 /\ UNCHANGED <<src, order, outOfWindow, ckpt, restarts>>
  BY DEF StampKnown
<1> HIDE DEF tick
<1>3. next[tick] \in 1..TickNs /\ next[tick] + 1 \in 1..TickNs
  <2>1. next \in [DOMAIN next -> 1..TickNs]
    BY <1>0 DEF TypeOK
  <2>2. next[tick] \in 1..TickNs
    BY <1>2, <2>1
  <2> QED BY <1>2, <2>2, StamperAssumption
<1>4. /\ DOMAIN next' = DOMAIN next /\ next' \in [DOMAIN next -> 1..TickNs]
      /\ next'[tick] = next[tick] + 1
  BY <1>0, <1>2, <1>3 DEF TypeOK
<1>5. TypeOK'
  <2>1. tick + next[tick] \in Int
    BY <1>1, <1>3, StamperAssumption
  <2>2. keys' \subseteq [line : 1..Len(src), stamp : Int]
    BY <1>0, <1>1, <1>2, <2>1 DEF TypeOK, Ship
  <2> QED BY <1>0, <1>1, <1>2, <1>4, <2>2 DEF TypeOK
<1>6. Listed'
  BY <1>0, <1>2, <1>4 DEF Listed
<1>7. ASSUME InTickOrder' PROVE Resumable' /\ Positioned'
  <2>0. InTickOrder /\ Resumable /\ Positioned
    BY <1>7, <1>2 DEF IInv, InTickOrder
  <2>1. /\ order # <<>> /\ order[Len(order)] = tick
        /\ next[tick] = Index(pos + 1) /\ Index(pos + 1) < TickNs /\ Index(pos + 1) \in Nat
    <3>1. /\ order # <<>> /\ order[Len(order)] = tick /\ Index(pos + 1) \in Nat
          /\ next[tick] = IF Index(pos + 1) < TickNs THEN Index(pos + 1) ELSE TickNs
      BY <1>0, <1>2, <2>0, KnownTick DEF tick
    <3> QED BY <1>2, <3>1, StamperAssumption
  <2>2. Positioned'
    <3>1. Ship(Floor(src[pos + 1]) + Index(pos + 1))
      BY <1>2, <2>1 DEF tick
    <3> QED BY <1>0, <1>2, <2>0, <2>1, <3>1, ShipPosition
  <2>3. Resume' = <<tick, Index(pos + 1) + 1>>
    BY <1>2, <1>4, <2>1 DEF Resume
  <2>4. \A l : Index(l)' = Index(l)
    BY <1>2 DEF Index
  <2>5. AtTick(pos, Resume)'
    <3>1. pos' # 0 /\ Floor(src'[pos']) = tick /\ Index(pos)' = Index(pos + 1)
      BY <1>1, <1>2 DEF tick, Index
    <3>2. Index(pos + 1) + 1
            = IF Index(pos + 1) + 1 < TickNs THEN Index(pos + 1) + 1 ELSE TickNs
      BY <1>3, <2>1, StamperAssumption
    <3> QED BY <2>3, <3>1, <3>2 DEF AtTick
  <2>6. AtTick(ckpt.pos, ckpt.last)'
    BY <1>2, <2>0, <2>4 DEF Resumable, AtTick
  <2>7. Resumable'
    BY <1>2, <1>7, <2>0, <2>5, <2>6 DEF Resumable
  <2> QED BY <2>2, <2>7
<1> QED BY <1>0, <1>5, <1>6, <1>7 DEF IInv

\* StampExhausted: the counter stays at its limit while the index goes on.
LEMMA StampExhaustedInv == IInv /\ StampExhausted => IInv'
<1> SUFFICES ASSUME IInv, StampExhausted PROVE IInv'
  OBVIOUS
<1> DEFINE tick == Floor(src[pos + 1])
<1>0. TypeOK /\ Listed /\ pos < Len(src)
  BY DEF IInv, StampExhausted
<1>1. /\ pos \in Nat /\ pos + 1 \in 1..Len(src) /\ pos + 1 \in 0..Len(src) /\ tick \in Int
  BY <1>0, NextLine
<1>2. /\ tick \in DOMAIN next /\ next[tick] >= TickNs
      /\ pos' = pos + 1 /\ UNCHANGED <<src, next, order, outOfWindow, ckpt, keys, restarts>>
  BY DEF StampExhausted
<1> HIDE DEF tick
<1>3. TypeOK'
  BY <1>0, <1>1, <1>2 DEF TypeOK
<1>4. Listed'
  BY <1>0, <1>2 DEF Listed
<1>5. ASSUME InTickOrder' PROVE Resumable' /\ Positioned'
  <2>0. InTickOrder /\ Resumable /\ Positioned
    BY <1>5, <1>2 DEF IInv, InTickOrder
  <2>1. /\ order # <<>> /\ order[Len(order)] = tick /\ Index(pos + 1) \in Nat
        /\ next[tick] = IF Index(pos + 1) < TickNs THEN Index(pos + 1) ELSE TickNs
    BY <1>0, <1>2, <2>0, KnownTick DEF tick
  <2>2. next[tick] = TickNs /\ ~(Index(pos + 1) + 1 < TickNs)
    BY <1>2, <2>1, StamperAssumption
  <2>3. \A l : Index(l)' = Index(l)
    BY <1>2 DEF Index
  <2>4. Positioned'
    BY <1>2, <2>0, <2>3 DEF Positioned
  <2>5. Resume' = <<tick, TickNs>>
    BY <1>2, <2>1, <2>2 DEF Resume
  <2>6. AtTick(pos, Resume)'
    <3>1. pos' # 0 /\ Floor(src'[pos']) = tick /\ Index(pos)' = Index(pos + 1)
      BY <1>1, <1>2 DEF tick, Index
    <3> QED BY <2>2, <2>5, <3>1 DEF AtTick
  <2>7. AtTick(ckpt.pos, ckpt.last)'
    BY <1>2, <2>0, <2>3 DEF Resumable, AtTick
  <2>8. Resumable'
    BY <1>2, <1>5, <2>0, <2>6, <2>7 DEF Resumable
  <2> QED BY <2>4, <2>8
<1> QED BY <1>0, <1>3, <1>4, <1>5 DEF IInv

\* StampNew: the first line of a tick takes sequence zero, and an eviction
\* never takes the tick just inserted.
LEMMA StampNewInv == IInv /\ StampNew => IInv'
<1> SUFFICES ASSUME IInv, StampNew PROVE IInv'
  OBVIOUS
<1> DEFINE tick == Floor(src[pos + 1])
           f == [t \in DOMAIN next \cup {tick} |-> IF t = tick THEN 1 ELSE next[t]]
<1>0. TypeOK /\ Listed /\ pos < Len(src)
  BY DEF IInv, StampNew
<1>1. /\ pos \in Nat /\ pos + 1 \in 1..Len(src) /\ pos + 1 \in 0..Len(src) /\ tick \in Int
  BY <1>0, NextLine
<1>2. /\ tick \notin DOMAIN next
      /\ outOfWindow' = IF order # <<>> /\ tick < Head(order)
                          THEN outOfWindow + 1 ELSE outOfWindow
      /\ order' = Evict(Append(order, tick))
      /\ next' = [t \in (DOMAIN next \cup {tick}) \ Without(Append(order, tick)) |->
                    IF t = tick THEN 1 ELSE next[t]]
      /\ Ship(tick)
      /\ pos' = pos + 1 /\ UNCHANGED <<src, ckpt, restarts>>
  BY DEF StampNew
<1> HIDE DEF tick
<1>3. next' = [t \in (DOMAIN next \cup {tick}) \ Without(Append(order, tick)) |-> f[t]]
  BY <1>2
<1>4. \A t \in DOMAIN next' : next'[t] = IF t = tick THEN 1 ELSE next[t]
  BY <1>2
<1> HIDE DEF f
<1>5. /\ order' \in Seq(Int) /\ order' # <<>> /\ order'[Len(order')] = tick
      /\ tick \in DOMAIN next' /\ DOMAIN next' \subseteq DOMAIN next \cup {tick}
      /\ Listed'
      /\ \A i \in DOMAIN order' : order'[i] = tick \/ \E j \in DOMAIN order : order'[i] = order[j]
  BY <1>0, <1>1, <1>2, <1>3, WindowInsert DEF TypeOK
<1>6. TypeOK'
  <2>1. \A t \in DOMAIN next' : next'[t] \in 1..TickNs
    <3>1. \A t \in DOMAIN next : next[t] \in 1..TickNs
      BY <1>0 DEF TypeOK
    <3>2. 1 \in 1..TickNs
      BY StamperAssumption
    <3> QED BY <1>4, <1>5, <3>1, <3>2
  <2>2. next' \in [DOMAIN next' -> 1..TickNs] /\ DOMAIN next' \subseteq Int
    BY <1>0, <1>1, <1>2, <1>5, <2>1 DEF TypeOK
  <2>3. keys' \subseteq [line : 1..Len(src), stamp : Int]
    BY <1>0, <1>1, <1>2 DEF TypeOK, Ship
  <2>4. outOfWindow' \in Nat
    BY <1>0, <1>2 DEF TypeOK
  <2> QED BY <1>0, <1>1, <1>2, <1>5, <2>2, <2>3, <2>4 DEF TypeOK
<1>7. ASSUME InTickOrder' PROVE Resumable' /\ Positioned'
  <2>0. InTickOrder /\ Resumable /\ Positioned
    BY <1>7, <1>2 DEF IInv, InTickOrder
  <2>1. Index(pos + 1) = 0 /\ \A i \in DOMAIN order : order[i] < tick
    BY <1>0, <1>2, <2>0, UnknownTick DEF tick
  <2>2. Positioned'
    <3>1. Ship(Floor(src[pos + 1]) + Index(pos + 1))
      BY <1>1, <1>2, <2>1 DEF tick
    <3> QED BY <1>0, <1>2, <2>0, <2>1, <3>1, ShipPosition, StamperAssumption
  <2>3. Resume' = <<tick, 1>>
    BY <1>4, <1>5 DEF Resume
  <2>4. AtTick(pos, Resume)'
    <3>1. pos' # 0 /\ Floor(src'[pos']) = tick /\ Index(pos)' = Index(pos + 1)
      BY <1>1, <1>2 DEF tick, Index
    <3> QED BY <1>0, <2>1, <2>3, <3>1, StamperAssumption DEF AtTick
  <2>5. \A l : Index(l)' = Index(l)
    BY <1>2 DEF Index
  <2>6. AtTick(ckpt.pos, ckpt.last)'
    BY <1>2, <2>0, <2>5 DEF Resumable, AtTick
  <2>7. \A i \in DOMAIN order' : order'[i] <= order'[Len(order')]
    <3>1. \A j \in DOMAIN order : order[j] \in Int
      BY <1>0, ElementOfSeq, LenProperties DEF TypeOK
    <3> QED BY <1>1, <1>5, <2>1, <3>1
  <2>8. Resumable'
    BY <1>2, <1>7, <2>0, <2>4, <2>6, <2>7 DEF Resumable
  <2> QED BY <2>2, <2>8
<1> QED BY <1>0, <1>5, <1>6, <1>7 DEF IInv

\* Save: the checkpoint takes the position and the tick inserted last.
LEMMA SaveInv == IInv /\ Save => IInv'
<1> SUFFICES ASSUME IInv, Save PROVE IInv'
  OBVIOUS
<1>0. TypeOK /\ Listed
  BY DEF IInv
<1>1. /\ ckpt' = [pos |-> pos, last |-> Resume]
      /\ UNCHANGED <<src, pos, next, order, outOfWindow, keys, restarts>>
  BY DEF Save
<1>2. Resume \in {<<>>} \cup (Int \X (1..TickNs))
  <2>1. CASE order = <<>>
    BY <2>1 DEF Resume
  <2>2. CASE order # <<>>
    <3>1. Len(order) \in DOMAIN order
      BY <1>0, <2>2, EmptySeq, LenProperties DEF TypeOK
    <3>2. order[Len(order)] \in DOMAIN next
      BY <1>0, <3>1 DEF Listed
    <3>3. order[Len(order)] \in Int /\ next[order[Len(order)]] \in 1..TickNs
      BY <1>0, <3>2 DEF TypeOK
    <3> QED BY <2>2, <3>3 DEF Resume
  <2> QED BY <2>1, <2>2
<1>3. TypeOK'
  BY <1>0, <1>1, <1>2 DEF TypeOK
<1>4. Listed'
  BY <1>0, <1>1 DEF Listed
<1>5. ASSUME InTickOrder' PROVE Resumable' /\ Positioned'
  <2>0. InTickOrder /\ Resumable /\ Positioned
    BY <1>5, <1>1 DEF IInv, InTickOrder
  <2>1. \A l : Index(l)' = Index(l)
    BY <1>1 DEF Index
  <2>2. Positioned'
    BY <1>1, <2>0, <2>1 DEF Positioned
  <2>3. Resume' = Resume /\ Index(pos)' = Index(pos)
    BY <1>1 DEF Resume, Index
  <2>4. AtTick(pos, Resume)'
    BY <1>1, <2>0, <2>3 DEF Resumable, AtTick
  <2>5. ckpt'.pos = pos /\ ckpt'.last = Resume
    BY <1>1
  <2>6. AtTick(ckpt.pos, ckpt.last)'
    BY <1>1, <2>0, <2>1, <2>5 DEF Resumable, AtTick
  <2>7. Resumable'
    BY <1>1, <1>5, <2>0, <2>4, <2>6 DEF Resumable
  <2> QED BY <2>2, <2>7
<1> QED BY <1>3, <1>4, <1>5 DEF IInv

\* Restart: the restored stamper stands where the checkpointed one stood.
LEMMA RestartInv == IInv /\ Restart => IInv'
<1> SUFFICES ASSUME IInv, Restart PROVE IInv'
  OBVIOUS
<1>0. TypeOK /\ Listed
  BY DEF IInv
<1>1. /\ restarts < MaxRestarts /\ restarts' = restarts + 1 /\ pos' = ckpt.pos
      /\ outOfWindow' = 0 /\ UNCHANGED <<src, ckpt, keys>>
  BY DEF Restart
<1>2. /\ Resume' = ckpt.last /\ Listed' /\ order' \in Seq(Int) /\ DOMAIN next' \subseteq Int
      /\ next' \in [DOMAIN next' -> 1..TickNs]
      /\ \A i \in DOMAIN order' : order'[i] <= order'[Len(order')]
  <2>1. CASE ckpt.last = <<>>
    <3>1. order' = <<>> /\ DOMAIN next' = {} /\ next' \in [DOMAIN next' -> 1..TickNs]
      BY <2>1 DEF Restart, NoTicks
    <3>2. order' \in Seq(Int) /\ Len(order') = 0 /\ DOMAIN order' = {}
      BY <3>1, EmptySeq
    <3>3. Listed'
      BY <3>1, <3>2, StamperAssumption DEF Listed
    <3>4. Resume' = ckpt.last
      BY <2>1, <3>1 DEF Resume
    <3> QED BY <3>1, <3>2, <3>3, <3>4
  <2>2. CASE ckpt.last # <<>>
    <3>1. ckpt.last \in Int \X (1..TickNs)
      BY <1>0, <2>2 DEF TypeOK
    <3>2. PICK tick \in Int, seq \in 1..TickNs : ckpt.last = <<tick, seq>>
      BY <3>1
    <3>3. next' = [t \in {tick} |-> seq] /\ order' = <<tick>>
      BY <2>2, <3>2 DEF Restart
    <3>4. /\ order' \in Seq(Int) /\ Len(order') = 1 /\ DOMAIN order' = {1}
          /\ order'[1] = tick /\ order' # <<>>
      BY <3>3
    <3>5. DOMAIN next' = {tick} /\ next'[tick] = seq
          /\ next' \in [DOMAIN next' -> 1..TickNs]
      BY <3>2, <3>3
    <3>6. Listed'
      BY <3>4, <3>5, StamperAssumption DEF Listed
    <3>7. Resume' = ckpt.last
      BY <3>2, <3>4, <3>5 DEF Resume
    <3> QED BY <3>2, <3>4, <3>5, <3>6, <3>7
  <2> QED BY <2>1, <2>2
<1>3. TypeOK'
  <2>1. restarts' \in 0..MaxRestarts
    BY <1>0, <1>1, StamperAssumption DEF TypeOK
  <2> QED BY <1>0, <1>1, <1>2, <2>1 DEF TypeOK
<1>4. ASSUME InTickOrder' PROVE Resumable' /\ Positioned'
  <2>0. InTickOrder /\ Resumable /\ Positioned
    BY <1>4, <1>1 DEF IInv, InTickOrder
  <2>1. \A l : Index(l)' = Index(l)
    BY <1>1 DEF Index
  <2>2. Positioned'
    BY <1>1, <2>0, <2>1 DEF Positioned
  <2>3. AtTick(ckpt.pos, ckpt.last)'
    BY <1>1, <2>0, <2>1 DEF Resumable, AtTick
  <2>4. Index(pos)' = Index(ckpt.pos)
    BY <1>1 DEF Index
  <2>5. AtTick(pos, Resume)'
    BY <1>1, <1>2, <2>0, <2>4 DEF Resumable, AtTick
  <2>6. Resumable'
    BY <1>1, <1>2, <1>4, <2>0, <2>3, <2>5 DEF Resumable
  <2> QED BY <2>2, <2>6
<1> QED BY <1>2, <1>3, <1>4 DEF IInv

\* The invariant is inductive.
LEMMA NextInv == IInv /\ [Next]_vars => IInv'
<1> SUFFICES ASSUME IInv, [Next]_vars PROVE IInv'
  OBVIOUS
<1>1. CASE Write BY <1>1, WriteInv
<1>2. CASE StampKnown BY <1>2, StampKnownInv
<1>3. CASE StampExhausted BY <1>3, StampExhaustedInv
<1>4. CASE StampNew BY <1>4, StampNewInv
<1>5. CASE Save BY <1>5, SaveInv
<1>6. CASE Restart BY <1>6, RestartInv
<1>7. CASE UNCHANGED vars
  BY <1>7 DEF vars, IInv, TypeOK, Listed, Resumable, InTickOrder, AtTick, Resume, Index,
              Positioned
<1> QED BY <1>1, <1>2, <1>3, <1>4, <1>5, <1>6, <1>7 DEF Next

(***************************************************************************)
(* The theorems                                                            *)
(***************************************************************************)

\* The stamper's window, counters and checkpoint always have their types: no
\* counter passes its tick's slots, however often the process is restarted and
\* whatever the order of the source.
THEOREM TypeCorrect == Spec => []TypeOK
<1>1. IInv => TypeOK
  BY DEF IInv
<1> QED BY InitInv, NextInv, <1>1, PTL DEF Spec

\* stamp() of a source in tick order: every stamp, in every life of the process,
\* is the line's tick plus its index within it.
THEOREM StampIsPositionHolds == Spec => []StampIsPosition
<1>1. IInv => StampIsPosition
  BY DEF IInv, StampIsPosition
<1> QED BY InitInv, NextInv, <1>1, PTL DEF Spec

\* A sum of a tick and a sequence below the tick length has one decomposition.
LEMMA SumUnique ==
  ASSUME NEW s \in Int, NEW t \in Int, NEW i \in Nat, NEW j \in Nat,
         i < TickNs, j < TickNs, s + i = t + j,
         s < t => s + TickNs <= t, t < s => t + TickNs <= s
  PROVE  s = t /\ i = j
BY StamperAssumption

\* A stamp determines its line: two lines that share one would share a tick and
\* an index.
LEMMA PositionUnique == TypeOK /\ Positioned => Unique
<1> SUFFICES ASSUME TypeOK, Positioned,
                    NEW a \in keys, NEW b \in keys, a.stamp = b.stamp
             PROVE  a.line = b.line
  BY DEF Unique
<1>1. a.line \in 1..Len(src) /\ b.line \in 1..Len(src) /\ Len(src) \in Nat
  BY LenProperties DEF TypeOK
<1>2. /\ src[a.line] \in Int /\ src[b.line] \in Int
      /\ Floor(src[a.line]) \in Int /\ Floor(src[b.line]) \in Int
  BY <1>1, SourceTick DEF TypeOK
<1>3. /\ Index(a.line) \in Nat /\ Index(b.line) \in Nat
  <2>1. a.line \in Nat /\ b.line \in Nat
    BY <1>1
  <2> QED BY <2>1, IndexType
<1>4. /\ Index(a.line) < TickNs /\ a.stamp = Floor(src[a.line]) + Index(a.line)
      /\ Index(b.line) < TickNs /\ b.stamp = Floor(src[b.line]) + Index(b.line)
  BY DEF Positioned
<1>5. /\ Floor(src[a.line]) < Floor(src[b.line])
           => Floor(src[a.line]) + TickNs <= Floor(src[b.line])
      /\ Floor(src[b.line]) < Floor(src[a.line])
           => Floor(src[b.line]) + TickNs <= Floor(src[a.line])
  BY <1>2, FloorSpacing
<1>6. Floor(src[a.line]) = Floor(src[b.line]) /\ Index(a.line) = Index(b.line)
  <2>1. Floor(src[a.line]) + Index(a.line) = Floor(src[b.line]) + Index(b.line)
    BY <1>4
  <2> QED BY <1>2, <1>3, <1>4, <1>5, <2>1, SumUnique
<1>7. a.line \in Nat \ {0} /\ b.line \in Nat \ {0}
  BY <1>1
<1>8. ~(a.line < b.line) /\ ~(b.line < a.line)
  BY <1>3, <1>6, <1>7, IndexDistinct
<1> QED BY <1>7, <1>8

\* stamp() and restore: no two lines of a source in tick order ever share a
\* primary key, through restarts from any checkpoint.
THEOREM KeysUniqueHolds == Spec => []KeysUnique
<1>1. IInv => KeysUnique
  BY PositionUnique DEF IInv, KeysUnique
<1> QED BY InitInv, NextInv, <1>1, PTL DEF Spec

\* A line of a source in tick order, replayed after a restart, gets the key it had.
THEOREM ReplayIdenticalHolds == Spec => []ReplayIdentical
<1>1. IInv => ReplayIdentical
  BY DEF IInv, Positioned, ReplayIdentical
<1> QED BY InitInv, NextInv, <1>1, PTL DEF Spec

(***************************************************************************)
(* Sources out of order, within the window                                 *)
(***************************************************************************)

\* No more ticks than the window holds, and no restart.
InWindow == restarts = 0 /\ Cardinality({Floor(src[i]) : i \in DOMAIN src}) <= Window

\* The lines of a tick that were stamped or refused.
Taken(t) == {i \in 1..pos : Floor(src[i]) = t}

\* The window holds every tick seen so far, and a tick's counter is the number of
\* its lines.
Numbered ==
  /\ Positioned
  /\ DOMAIN next = {Floor(src[i]) : i \in 1..pos}
  /\ \A t \in DOMAIN next :
       next[t] = IF Cardinality(Taken(t)) < TickNs THEN Cardinality(Taken(t)) ELSE TickNs

\* The inductive invariant behind UniqueInWindow, beside IInv.
WindowInv == InWindow => Numbered

\* The ticks of the source, and the lines of one, are finitely many.
LEMMA TicksFinite ==
  ASSUME TypeOK
  PROVE  /\ IsFiniteSet({Floor(src[i]) : i \in DOMAIN src})
         /\ \A t : IsFiniteSet(Taken(t)) /\ Cardinality(Taken(t)) \in Nat
<1>1. Len(src) \in Nat /\ DOMAIN src = 1..Len(src) /\ pos \in Nat
  BY LenProperties DEF TypeOK
<1>2. IsFiniteSet(1..Len(src)) /\ IsFiniteSet(1..pos)
  BY <1>1, FS_Interval
<1>3. IsFiniteSet({Floor(src[i]) : i \in DOMAIN src})
  <2> DEFINE f == [i \in 1..Len(src) |-> Floor(src[i])]
             T == {Floor(src[i]) : i \in 1..Len(src)}
  <2>1. f \in Surjection(1..Len(src), T)
    BY DEF Surjection
  <2> HIDE DEF f, T
  <2>2. IsFiniteSet(T)
    BY <1>2, <2>1, FS_Surjection
  <2> QED BY <1>1, <2>2 DEF T
<1>4. ASSUME NEW t PROVE IsFiniteSet(Taken(t)) /\ Cardinality(Taken(t)) \in Nat
  <2>1. Taken(t) \in SUBSET (1..pos)
    BY DEF Taken
  <2> QED BY <1>2, <2>1, FS_Subset, FS_CardinalityType
<1> QED BY <1>3, <1>4

\* The index of the line about to be stamped is the number of lines of its tick.
LEMMA IndexTaken ==
  ASSUME TypeOK, pos < Len(src)
  PROVE  Index(pos + 1) = Cardinality(Taken(Floor(src[pos + 1])))
<1>1. (pos + 1) - 1 = pos
  BY NextLine
<1> QED BY <1>1 DEF Index, Taken

\* A line more of its tick, and none of another.
LEMMA TakenStep ==
  ASSUME TypeOK, pos < Len(src), pos' = pos + 1, src' = src
  PROVE  /\ \A t : Cardinality(Taken(t)') =
                     Cardinality(Taken(t)) + (IF t = Floor(src[pos + 1]) THEN 1 ELSE 0)
         /\ {Floor(src'[i]) : i \in 1..pos'} = {Floor(src[i]) : i \in 1..pos} \cup {Floor(src[pos + 1])}
<1>1. pos \in Nat /\ 1..(pos + 1) = 1..pos \cup {pos + 1} /\ pos + 1 \notin 1..pos
  BY NextLine
<1>2. ASSUME NEW t, t = Floor(src[pos + 1])
      PROVE  Cardinality(Taken(t)') = Cardinality(Taken(t)) + 1
  <2>1. Taken(t)' = Taken(t) \cup {pos + 1} /\ pos + 1 \notin Taken(t)
    BY <1>1, <1>2 DEF Taken
  <2> QED BY <2>1, TicksFinite, FS_AddElement
<1>3. ASSUME NEW t, t # Floor(src[pos + 1])
      PROVE  Cardinality(Taken(t)') = Cardinality(Taken(t)) + 0
  <2>1. Taken(t)' = Taken(t)
    BY <1>1, <1>3 DEF Taken
  <2> QED BY <2>1, TicksFinite
<1>4. {Floor(src'[i]) : i \in 1..pos'} = {Floor(src[i]) : i \in 1..pos} \cup {Floor(src[pos + 1])}
  BY <1>1
<1> QED BY <1>2, <1>3, <1>4

\* A tick that is still to come has room in the window.
LEMMA NoEviction ==
  ASSUME TypeOK, Listed, InWindow, Numbered, pos < Len(src),
         Floor(src[pos + 1]) \notin DOMAIN next
  PROVE  Without(Append(order, Floor(src[pos + 1]))) = {}
<1> DEFINE tick == Floor(src[pos + 1])
           Ticks == {Floor(src[i]) : i \in DOMAIN src}
           n == Len(order)
<1>1. /\ pos \in Nat /\ pos + 1 \in DOMAIN src /\ 1..pos \subseteq DOMAIN src /\ tick \in Int
      /\ Len(src) \in Nat
  BY NextLine
<1>2. n \in Nat /\ DOMAIN order = 1..n /\ Len(Append(order, tick)) = n + 1
  BY <1>1, LenProperties, AppendProperties DEF TypeOK
<1>3. DOMAIN next \cup {tick} \in SUBSET Ticks
  BY <1>1 DEF Numbered
<1>4. IsFiniteSet(Ticks) /\ Cardinality(Ticks) <= Window
  BY TicksFinite DEF InWindow
<1> HIDE DEF tick, Ticks
<1>5. IsFiniteSet(DOMAIN next) /\ Cardinality(DOMAIN next \cup {tick}) <= Cardinality(Ticks)
  <2>1. DOMAIN next \in SUBSET Ticks
    BY <1>3
  <2> QED BY <1>3, <1>4, <2>1, FS_Subset
<1>6. Cardinality(DOMAIN next \cup {tick}) = Cardinality(DOMAIN next) + 1
  BY <1>5, FS_AddElement DEF tick
<1>7. n <= Cardinality(DOMAIN next)
  <2>1. order \in [1..n -> DOMAIN next]
    BY <1>2 DEF Listed, TypeOK
  <2>2. order \in Injection(1..n, DOMAIN next)
    BY <1>2, <2>1 DEF Listed, Injection, IsInjective
  <2> HIDE DEF n
  <2>3. Cardinality(1..n) <= Cardinality(DOMAIN next)
    BY <1>5, <2>2, FS_Injection
  <2>4. Cardinality(1..n) = n
    <3>1. 1 \in Int /\ n \in Int
      BY <1>2
    <3>2. Cardinality(1..n) = IF 1 > n THEN 0 ELSE n - 1 + 1
      BY <3>1, FS_Interval
    <3> QED BY <1>2, <3>2
  <2> QED BY <2>3, <2>4
<1>8. Cardinality(DOMAIN next) \in Nat /\ Cardinality(Ticks) \in Nat /\ Window \in Nat
  BY <1>4, <1>5, FS_CardinalityType, StamperAssumption
<1>9. ~(n + 1 > Window)
  BY <1>2, <1>4, <1>5, <1>6, <1>7, <1>8
<1> QED BY <1>2, <1>9 DEF Without, tick

\* The source grows: its first lines have the ticks they had.
LEMMA WriteNumbered ==
  ASSUME TypeOK, WindowInv, Write
  PROVE  WindowInv'
<1> SUFFICES ASSUME InWindow' PROVE Numbered'
  BY DEF WindowInv
<1>1. PICK ts \in Timestamps : src' = Append(src, ts)
  BY DEF Write
<1>2. UNCHANGED <<pos, next, order, keys, restarts>>
  BY DEF Write
<1>3. /\ src' \in Seq(Timestamps) /\ Len(src') = Len(src) + 1 /\ Len(src) \in Nat
      /\ \A i \in 1..Len(src) : src'[i] = src[i] /\ Index(i)' = Index(i)
  BY <1>1, IndexStable DEF TypeOK
<1>4. DOMAIN src = 1..Len(src) /\ DOMAIN src' = 1..Len(src') /\ DOMAIN src \subseteq DOMAIN src'
  BY <1>3, LenProperties DEF TypeOK
<1>5. pos \in 0..Len(src) /\ 1..pos \subseteq 1..Len(src)
  BY <1>3 DEF TypeOK
<1>6. InWindow
  <2> DEFINE A == {Floor(src[i]) : i \in DOMAIN src}
             B == {Floor(src'[i]) : i \in DOMAIN src'}
  <2>1. B = A \cup {Floor(ts)}
    <3>1. src'[Len(src) + 1] = ts
      BY <1>1, IndexStable DEF TypeOK
    <3>2. 1..Len(src') = 1..Len(src) \cup {Len(src) + 1}
      BY <1>3
    <3> QED BY <1>3, <1>4, <3>1, <3>2
  <2>2. IsFiniteSet(A)
    BY TicksFinite
  <2>3. restarts = 0 /\ Cardinality(B) <= Window
    BY <1>2 DEF InWindow
  <2> HIDE DEF A, B
  <2>4. IsFiniteSet(B) /\ Cardinality(A) <= Cardinality(B)
    <3>1. IsFiniteSet(B) /\ A \in SUBSET B
      BY <2>1, <2>2, FS_AddElement
    <3> QED BY <3>1, FS_Subset
  <2>5. Cardinality(A) \in Nat /\ Cardinality(B) \in Nat
    BY <2>2, <2>4, FS_CardinalityType
  <2>6. Cardinality(A) <= Window
    BY <2>3, <2>4, <2>5, StamperAssumption
  <2> QED BY <2>3, <2>6 DEF InWindow, A
<1>7. Numbered
  BY <1>6 DEF WindowInv
<1>8. Positioned'
  <2>1. \A k \in keys : src'[k.line] = src[k.line] /\ Index(k.line)' = Index(k.line)
    BY <1>3 DEF TypeOK
  <2> QED BY <1>2, <1>7, <2>1 DEF Numbered, Positioned
<1>9. \A i \in 1..pos : src'[i] = src[i]
  BY <1>3, <1>5
<1>10. \A t : Taken(t)' = Taken(t)
  BY <1>2, <1>9 DEF Taken
<1>11. {Floor(src'[i]) : i \in 1..pos'} = {Floor(src[i]) : i \in 1..pos}
  BY <1>2, <1>9
<1> QED BY <1>2, <1>7, <1>8, <1>10, <1>11 DEF Numbered

\* A line is stamped, or refused when its tick is full.
LEMMA StampNumbered ==
  ASSUME TypeOK, Listed, WindowInv, StampKnown \/ StampExhausted \/ StampNew
  PROVE  WindowInv'
<1> SUFFICES ASSUME InWindow' PROVE Numbered'
  BY DEF WindowInv
<1> DEFINE tick == Floor(src[pos + 1])
           c == Cardinality(Taken(tick))
<1>1. pos < Len(src) /\ pos' = pos + 1 /\ src' = src /\ restarts' = restarts
  BY DEF StampKnown, StampExhausted, StampNew
<1>2. InWindow /\ Numbered
  BY <1>1 DEF InWindow, WindowInv
<1>3. /\ \A t : Cardinality(Taken(t)') = Cardinality(Taken(t)) + (IF t = tick THEN 1 ELSE 0)
      /\ {Floor(src'[i]) : i \in 1..pos'} = DOMAIN next \cup {tick}
  BY <1>1, <1>2, TakenStep DEF Numbered
<1>4. /\ Index(pos + 1) = c /\ TickNs \in Nat \ {0, 1} /\ tick \in Int
      /\ \A t : Cardinality(Taken(t)) \in Nat
  BY <1>1, IndexTaken, TicksFinite, NextLine, StamperAssumption
<1>5. /\ \A t \in DOMAIN next :
           next[t] = IF Cardinality(Taken(t)) < TickNs THEN Cardinality(Taken(t)) ELSE TickNs
      /\ Positioned
  BY <1>2 DEF Numbered
<1> HIDE DEF tick, c
<1>6. CASE StampKnown
  <2>1. /\ tick \in DOMAIN next /\ next[tick] < TickNs /\ next' = [next EXCEPT ![tick] = @ + 1]
        /\ Ship(tick + next[tick])
    BY <1>6 DEF StampKnown, tick
  <2>2. next[tick] = c /\ c < TickNs /\ c \in Nat
    BY <1>4, <1>5, <2>1 DEF c
  <2>3. Positioned'
    <3>1. Ship(Floor(src[pos + 1]) + Index(pos + 1)) /\ Index(pos + 1) < TickNs
      BY <1>4, <2>1, <2>2 DEF tick
    <3> QED BY <1>1, <1>5, <3>1, ShipPosition
  <2>4. DOMAIN next' = DOMAIN next /\ DOMAIN next = DOMAIN next \cup {tick}
    BY <2>1
  <2>5. ASSUME NEW t \in DOMAIN next
        PROVE  next'[t] = IF Cardinality(Taken(t)') < TickNs THEN Cardinality(Taken(t)') ELSE TickNs
    <3>1. CASE t = tick
      <4>1. next'[t] = c + 1 /\ Cardinality(Taken(t)') = c + 1
        BY <1>3, <2>1, <2>2, <3>1 DEF c
      <4> QED BY <1>4, <2>2, <4>1
    <3>2. CASE t # tick
      <4>1. next'[t] = next[t] /\ Cardinality(Taken(t)') = Cardinality(Taken(t))
        BY <1>3, <1>4, <2>1, <3>2
      <4> QED BY <1>5, <4>1
    <3> QED BY <3>1, <3>2
  <2> QED BY <1>3, <2>3, <2>4, <2>5 DEF Numbered
<1>7. CASE StampExhausted
  <2>1. tick \in DOMAIN next /\ next[tick] >= TickNs /\ next' = next /\ keys' = keys
    BY <1>7 DEF StampExhausted, tick
  <2>2. next[tick] = TickNs /\ ~(c < TickNs) /\ c \in Nat
    BY <1>4, <1>5, <2>1 DEF c
  <2>3. Positioned'
    BY <1>1, <1>5, <2>1 DEF Positioned, Index
  <2>4. DOMAIN next = DOMAIN next \cup {tick}
    BY <2>1
  <2>5. ASSUME NEW t \in DOMAIN next
        PROVE  next[t] = IF Cardinality(Taken(t)') < TickNs THEN Cardinality(Taken(t)') ELSE TickNs
    <3>1. CASE t = tick
      <4>1. Cardinality(Taken(t)') = c + 1
        BY <1>3, <3>1 DEF c
      <4> QED BY <1>4, <2>2, <3>1, <4>1
    <3>2. CASE t # tick
      <4>1. Cardinality(Taken(t)') = Cardinality(Taken(t))
        BY <1>3, <1>4, <3>2
      <4> QED BY <1>5, <4>1
    <3> QED BY <3>1, <3>2
  <2> QED BY <1>3, <2>1, <2>3, <2>4, <2>5 DEF Numbered
<1>8. CASE StampNew
  <2>1. /\ tick \notin DOMAIN next /\ Ship(tick)
        /\ next' = [t \in (DOMAIN next \cup {tick}) \ Without(Append(order, tick)) |->
                      IF t = tick THEN 1 ELSE next[t]]
    BY <1>8 DEF StampNew, tick
  <2>2. Without(Append(order, tick)) = {}
    BY <1>1, <1>2, <2>1, NoEviction DEF tick
  <2>3. next' = [t \in DOMAIN next \cup {tick} |-> IF t = tick THEN 1 ELSE next[t]]
    BY <2>1, <2>2
  <2>4. c = 0
    <3>1. DOMAIN next = {Floor(src[i]) : i \in 1..pos}
      BY <1>2 DEF Numbered
    <3>2. Taken(tick) = {}
      BY <2>1, <3>1 DEF Taken
    <3> QED BY <3>2, FS_EmptySet DEF c
  <2>5. Positioned'
    <3>1. Ship(Floor(src[pos + 1]) + Index(pos + 1)) /\ Index(pos + 1) < TickNs
      <4>1. tick + Index(pos + 1) = tick /\ Index(pos + 1) < TickNs
        BY <1>4, <2>4
      <4> QED BY <2>1, <4>1 DEF tick
    <3> QED BY <1>1, <1>5, <3>1, ShipPosition
  <2>6. ASSUME NEW t \in DOMAIN next \cup {tick}
        PROVE  next'[t] = IF Cardinality(Taken(t)') < TickNs THEN Cardinality(Taken(t)') ELSE TickNs
    <3>1. CASE t = tick
      <4>1. next'[t] = 1 /\ Cardinality(Taken(t)') = 0 + 1
        BY <1>3, <2>3, <2>4, <3>1 DEF c
      <4> QED BY <1>4, <4>1
    <3>2. CASE t # tick
      <4>1. t \in DOMAIN next /\ next'[t] = next[t] /\ Cardinality(Taken(t)') = Cardinality(Taken(t))
        BY <1>3, <1>4, <2>3, <3>2
      <4> QED BY <1>5, <4>1
    <3> QED BY <3>1, <3>2
  <2>7. DOMAIN next' = DOMAIN next \cup {tick}
    BY <2>3
  <2> QED BY <1>3, <2>5, <2>6, <2>7 DEF Numbered
<1> QED BY <1>6, <1>7, <1>8

\* The invariant beside IInv is inductive.
LEMMA WindowNext ==
  ASSUME IInv, WindowInv, [Next]_vars
  PROVE  WindowInv'
<1>0. TypeOK /\ Listed /\ restarts \in Nat
  BY StamperAssumption DEF IInv, TypeOK
<1>1. CASE Save \/ UNCHANGED vars
  <2>1. UNCHANGED <<src, pos, next, order, keys, restarts>>
    BY <1>1 DEF Save, vars
  <2> QED BY <2>1 DEF WindowInv, InWindow, Numbered, Positioned, Index, Taken
<1>2. CASE Restart
  BY <1>0, <1>2 DEF Restart, WindowInv, InWindow
<1> QED BY <1>0, <1>1, <1>2, WriteNumbered, StampNumbered DEF Next

\* UniqueInWindowHolds: stamp() of a source in any order, with no more ticks than
\* WINDOW and no restart, numbers each tick's lines in turn, and no two share a
\* primary key.
THEOREM UniqueInWindowHolds == Spec => []UniqueInWindow
<1>1. Init => WindowInv
  <2> SUFFICES ASSUME Init PROVE Numbered
    BY DEF WindowInv
  <2>1. keys = {} /\ pos = 0 /\ next = NoTicks /\ DOMAIN next = {} /\ 1..0 = {}
    BY DEF Init, NoTicks
  <2> QED BY <2>1 DEF Numbered, Positioned
<1>2. IInv /\ WindowInv => UniqueInWindow
  BY PositionUnique DEF IInv, WindowInv, InWindow, Numbered, UniqueInWindow
<1> QED BY InitInv, NextInv, WindowNext, <1>1, <1>2, PTL DEF Spec
=============================================================================
