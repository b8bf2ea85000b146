---------------------------- MODULE FilesProofs ----------------------------
(***************************************************************************)
(* The disk queue implements the atomic queue, for every cap, every set of *)
(* bodies and any number of segments and kills, and the tailer skips no    *)
(* line and repeats none in one life, for any number of files, lines,      *)
(* truncations and restarts, over the composition MCFiles.                 *)
(***************************************************************************)
EXTENDS
  MCFiles, FiniteSetTheorems, SequenceTheorems, FunctionTheorems, WellFoundedInduction, TLAPS

(***************************************************************************)
(* Segments in name order                                                  *)
(***************************************************************************)

\* s lists the numbers of S in order.
Lists(s, S) ==
  /\ s \in [1..Cardinality(S) -> S]
  /\ \A i, j \in 1..Cardinality(S) : i < j => s[i] < s[j]

Finite == {S \in SUBSET Nat : IsFiniteSet(S)}

\* A nonempty set of naturals has a least element.
LEMMA LeastNumber ==
  ASSUME NEW S \in SUBSET Nat, S # {}
  PROVE  \E m \in S : \A k \in S : m <= k
<1>1. PICK m \in S : \A k \in S : ~(<<k, m>> \in OpToRel(<, Nat))
  BY NatLessThanWellFounded, WFMin, Zenon
<1>2. \A k \in S : ~(k < m)
  BY <1>1, Zenon DEF OpToRel
<1>3. m \in Nat /\ \A k \in S : k \in Nat
  OBVIOUS
<1> QED BY <1>2, <1>3

\* A list in order leaves no number out.
LEMMA ListsAll ==
  ASSUME NEW S \in Finite, NEW s, Lists(s, S)
  PROVE  /\ Cardinality(S) \in Nat
         /\ \A x \in S : \E i \in 1..Cardinality(S) : s[i] = x
<1> DEFINE k == Cardinality(S)
<1>1. k \in Nat /\ IsFiniteSet(S) /\ S \subseteq Nat
  BY FS_CardinalityType DEF Finite
<1>2. s \in Injection(1..k, S)
  <2>1. s \in [1..k -> S] /\ \A i, j \in 1..k : i < j => s[i] < s[j]
    BY DEF Lists
  <2>2. ASSUME NEW i \in 1..k, NEW j \in 1..k, s[i] = s[j] PROVE i = j
    <3>1. s[i] \in S /\ s[j] \in S /\ i \in Int /\ j \in Int
      BY <2>1
    <3>2. s[i] \in Nat /\ s[j] \in Nat
      BY <1>1, <3>1
    <3>3. /\ i < j => s[i] < s[j]
          /\ j < i => s[j] < s[i]
      BY <2>1
    <3> QED BY <2>2, <3>1, <3>2, <3>3
  <2>3. DOMAIN s = 1..k /\ IsInjective(s)
    BY <2>1, <2>2 DEF IsInjective
  <2> QED BY <2>1, <2>3, Zenon DEF Injection
<1>3. Cardinality(1..k) = k
  BY <1>1, FS_Interval, 1 \in Int, k \in Int
<1>4. s \in Surjection(1..k, S)
  BY <1>1, <1>2, <1>3, FS_Injection
<1> QED BY <1>1, <1>4 DEF Surjection

\* There is only one such list.
LEMMA ListsUnique ==
  ASSUME NEW S \in Finite, NEW s, NEW t, Lists(s, S), Lists(t, S)
  PROVE  s = t
<1> DEFINE k == Cardinality(S)
           D == {i \in 1..k : s[i] # t[i]}
<1>1. /\ k \in Nat /\ S \subseteq Nat
      /\ \A x \in S : \E i \in 1..k : s[i] = x
      /\ \A x \in S : \E i \in 1..k : t[i] = x
  BY ListsAll DEF Finite
<1>2. /\ s \in [1..k -> S] /\ \A i, j \in 1..k : i < j => s[i] < s[j]
      /\ t \in [1..k -> S] /\ \A i, j \in 1..k : i < j => t[i] < t[j]
  BY DEF Lists
<1>3. ASSUME D # {} PROVE FALSE
  <2>1. D \in SUBSET Nat
    BY <1>1
  <2>2. PICK m \in D : \A i \in D : m <= i
    <3> HIDE DEF D
    <3> QED BY <1>1, <1>3, <2>1, LeastNumber
  <2>3. m \in 1..k /\ s[m] # t[m] /\ s[m] \in S /\ t[m] \in S /\ s[m] \in Nat /\ t[m] \in Nat
    BY <1>1, <1>2
  <2>4. \A i \in 1..k : i < m => s[i] = t[i]
    BY <1>1, <2>2, <2>3
  <2>5. CASE s[m] < t[m]
    <3>1. PICK i \in 1..k : t[i] = s[m]
      BY <1>1, <2>3
    <3>2. ~(i < m)
      BY <1>1, <1>2, <2>3, <2>4, <3>1
    <3>3. ~(m < i) /\ i # m
      BY <1>1, <1>2, <2>3, <2>5, <3>1
    <3> QED BY <1>1, <2>3, <3>2, <3>3
  <2>6. CASE t[m] < s[m]
    <3>1. PICK i \in 1..k : s[i] = t[m]
      BY <1>1, <2>3
    <3>2. ~(i < m)
      BY <1>1, <1>2, <2>3, <2>4, <3>1
    <3>3. ~(m < i) /\ i # m
      BY <1>1, <1>2, <2>3, <2>6, <3>1
    <3> QED BY <1>1, <2>3, <3>2, <3>3
  <2> QED BY <2>3, <2>5, <2>6
<1>4. \A i \in 1..k : s[i] = t[i]
  BY <1>3
<1>5. s \in [1..k -> S] /\ t \in [1..k -> S]
  BY <1>2
<1>6. s = [i \in 1..k |-> s[i]] /\ t = [i \in 1..k |-> t[i]]
  BY <1>5, Zenon
<1>7. [i \in 1..k |-> s[i]] = [i \in 1..k |-> t[i]]
  BY <1>4, Zenon
<1> QED BY <1>6, <1>7

\* A list is a sequence, as long as its set.
LEMMA ListsSeq ==
  ASSUME NEW S \in Finite, NEW s, Lists(s, S)
  PROVE  s \in Seq(S) /\ Len(s) = Cardinality(S)
<1>1. Cardinality(S) \in Nat /\ s \in [1..Cardinality(S) -> S]
  BY ListsAll DEF Lists
<1> QED BY <1>1

\* InOrder finds the list, when there is one.
LEMMA InOrderLists ==
  ASSUME NEW S \in Finite, NEW s, Lists(s, S)
  PROVE  Q!InOrder(S) = s
<1>1. Q!Cardinality(S) = Cardinality(S)
  BY DEF Q!Cardinality, Cardinality
<1>2. Lists(Q!InOrder(S), S)
  BY <1>1 DEF Lists, Q!InOrder
<1> QED BY <1>2, ListsUnique

LEMMA ListsNone ==
  {} \in Finite /\ Lists(<<>>, {})
<1>1. IsFiniteSet({}) /\ Cardinality({}) = 0
  BY FS_EmptySet
<1>2. <<>> \in Seq({}) /\ Len(<<>>) = 0
  BY EmptySeq
<1>3. <<>> \in [1..0 -> {}]
  BY <1>2, LenProperties
<1> QED BY <1>1, <1>3 DEF Finite, Lists

\* A number above all others goes to the end.
LEMMA ListsAppend ==
  ASSUME NEW S \in Finite, NEW s, Lists(s, S), NEW m \in Nat, \A x \in S : x < m
  PROVE  S \cup {m} \in Finite /\ Lists(Append(s, m), S \cup {m})
<1> DEFINE k == Cardinality(S)
           U == S \cup {m}
           a == Append(s, m)
<1>1. k \in Nat /\ s \in [1..k -> S] /\ S \subseteq Nat /\ IsFiniteSet(S)
  BY ListsAll DEF Lists, Finite
<1>2. m \notin S
  BY <1>1
<1>3. IsFiniteSet(U) /\ Cardinality(U) = k + 1
  BY <1>1, <1>2, FS_AddElement
<1>4. s \in Seq(U) /\ Len(s) = k
  BY ListsSeq, SeqMonotonic
<1>5. /\ a \in Seq(U) /\ Len(a) = k + 1
      /\ \A i \in 1..k : a[i] = s[i]
      /\ a[k + 1] = m
  BY <1>4, AppendProperties, m \in U
<1>6. a \in [1..(k + 1) -> U]
  BY <1>5, LenProperties
<1>7. ASSUME NEW i \in 1..(k + 1), NEW j \in 1..(k + 1), i < j PROVE a[i] < a[j]
  <2>1. i \in 1..k /\ a[i] = s[i] /\ s[i] \in S
    BY <1>1, <1>5, <1>7
  <2>2. CASE j = k + 1
    BY <1>5, <2>1, <2>2
  <2>3. CASE j # k + 1
    <3>1. j \in 1..k
      BY <1>1, <2>3
    <3>2. s[i] < s[j]
      BY <1>7, <2>1, <3>1 DEF Lists
    <3> QED BY <1>5, <2>1, <3>1, <3>2
  <2> QED BY <2>2, <2>3
<1>8. Lists(a, U)
  <2> HIDE DEF a, U, k
  <2> QED BY <1>3, <1>6, <1>7 DEF Lists
<1>9. U \in Finite
  BY <1>1, <1>3 DEF Finite
<1> QED BY <1>8, <1>9

\* Without its front, a list is the list of the others.
LEMMA ListsTail ==
  ASSUME NEW S \in Finite, NEW s, Lists(s, S), s # <<>>
  PROVE  /\ Head(s) \in S /\ S \ {Head(s)} \in Finite
         /\ Lists(Tail(s), S \ {Head(s)})
<1> DEFINE k == Cardinality(S)
           h == Head(s)
           U == S \ {h}
           r == Tail(s)
<1>1. /\ k \in Nat /\ s \in [1..k -> S] /\ S \subseteq Nat /\ IsFiniteSet(S)
      /\ \A i, j \in 1..k : i < j => s[i] < s[j]
      /\ s \in Seq(S) /\ Len(s) = k
  BY ListsAll, ListsSeq DEF Lists, Finite
<1>2. /\ h \in S /\ h = s[1] /\ r \in Seq(S) /\ Len(r) = k - 1
      /\ \A i \in 1..(k - 1) : r[i] = s[i + 1]
  BY <1>1, HeadTailProperties
<1>3. k >= 1
  BY <1>1, EmptySeq
<1>4. IsFiniteSet(U) /\ Cardinality(U) = k - 1
  BY <1>1, <1>2, FS_RemoveElement
<1>5. ASSUME NEW i \in 1..(k - 1) PROVE r[i] \in U
  <2>1. i + 1 \in 1..k /\ 1 \in 1..k /\ 1 < i + 1 /\ r[i] = s[i + 1]
    BY <1>1, <1>2, <1>3
  <2>2. s[1] < s[i + 1] /\ s[i + 1] \in S /\ s[1] \in S
    BY <1>1, <2>1
  <2>3. s[i + 1] \in Nat /\ s[1] \in Nat
    BY <1>1, <2>2
  <2> QED BY <1>2, <2>1, <2>2, <2>3
<1>6. r \in [1..(k - 1) -> S]
  BY <1>2, LenProperties
<1>7. r \in [1..(k - 1) -> U]
  BY <1>5, <1>6
<1>8. ASSUME NEW i \in 1..(k - 1), NEW j \in 1..(k - 1), i < j PROVE r[i] < r[j]
  <2>1. i + 1 \in 1..k /\ j + 1 \in 1..k /\ i + 1 < j + 1
    BY <1>1, <1>8
  <2> QED BY <1>1, <1>2, <2>1
<1>9. Lists(r, U)
  <2> HIDE DEF r, U, k
  <2> QED BY <1>4, <1>7, <1>8 DEF Lists
<1>10. U \in Finite
  BY <1>1, <1>4 DEF Finite
<1> QED BY <1>2, <1>9, <1>10

(***************************************************************************)
(* Files and their sizes                                                   *)
(***************************************************************************)

\* The instances count like the library.
LEMMA SameCardinality ==
  \A S : Q!Cardinality(S) = Cardinality(S) /\ Q!Abs!Cardinality(S) = Cardinality(S)
  BY DEF Q!Cardinality, Q!Abs!Cardinality, Cardinality

\* The records of one file.
LEMMA SizeOfOne ==
  ASSUME NEW n, NEW b, IsFiniteSet(b)
  PROVE  IsFiniteSet({n} \X b) /\ Cardinality({n} \X b) = Cardinality(b)
<1>1. IsFiniteSet({n}) /\ Cardinality({n}) = 1
  BY FS_Singleton
<1>2. Cardinality(b) \in Nat
  BY FS_CardinalityType
<1> QED BY <1>1, <1>2, FS_Product

\* A new file adds its length (Queue::bytes after a spool).
LEMMA SizeWith ==
  ASSUME NEW f, NEW n, n \notin DOMAIN f, IsFiniteSet(Q!Records(f)),
         NEW b, IsFiniteSet(b)
  PROVE  /\ IsFiniteSet(Q!Records(Q!With(f, n, b)))
         /\ Q!SizeOf(f) \in Nat /\ Cardinality(b) \in Nat
         /\ Q!SizeOf(Q!With(f, n, b)) = Q!SizeOf(f) + Cardinality(b)
<1> DEFINE g == Q!With(f, n, b)
           R == Q!Records(f)
           N == {n} \X b
<1>0. IsFiniteSet(R)
  OBVIOUS
<1>1. DOMAIN g = DOMAIN f \cup {n} /\ g[n] = b /\ \A m \in DOMAIN f : g[m] = f[m]
  BY DEF Q!With
<1>2. Q!Records(g) = R \cup N
  <2>1. \A m \in DOMAIN f : {m} \X g[m] = {m} \X f[m]
    BY <1>1
  <2>2. {{m} \X g[m] : m \in DOMAIN g} = {{m} \X f[m] : m \in DOMAIN f} \cup {N}
    BY <1>1, <2>1
  <2>3. UNION ({{m} \X f[m] : m \in DOMAIN f} \cup {N}) = (UNION {{m} \X f[m] : m \in DOMAIN f}) \cup N
    OBVIOUS
  <2> QED BY <2>2, <2>3, Zenon DEF Q!Records
<1>3. R \cap N = {}
  <2>1. ASSUME NEW x \in R, x \in N PROVE FALSE
    <3>1. PICK m \in DOMAIN f : x \in {m} \X f[m]
      BY <2>1 DEF Q!Records
    <3>2. PICK r \in f[m] : x = <<m, r>>
      BY <3>1
    <3>3. PICK s \in b : x = <<n, s>>
      BY <2>1
    <3> QED BY <3>2, <3>3
  <2> QED BY <2>1
<1>4. IsFiniteSet(N) /\ Cardinality(N) = Cardinality(b)
  BY SizeOfOne
<1>5. Cardinality(R) \in Nat /\ Cardinality(b) \in Nat /\ Cardinality({}) = 0
  BY FS_CardinalityType, FS_EmptySet
<1>6. IsFiniteSet(R \cup N) /\ Cardinality(R \cup N) = Cardinality(R) + Cardinality(b)
  <2> HIDE DEF R, N
  <2>1. Cardinality(R \cap N) = 0
    BY <1>3, <1>5
  <2>2. IsFiniteSet(R \cup N)
        /\ Cardinality(R \cup N) = Cardinality(R) + Cardinality(N) - Cardinality(R \cap N)
    BY <1>4, <1>0, FS_Union
  <2> QED BY <1>4, <1>5, <2>1, <2>2
<1> QED BY <1>2, <1>5, <1>6, SameCardinality DEF Q!SizeOf

\* A file that is removed takes its length away (Queue::pop).
LEMMA SizeWithout ==
  ASSUME NEW f, f = [m \in DOMAIN f |-> f[m]], NEW n \in DOMAIN f, IsFiniteSet(Q!Records(f))
  PROVE  /\ IsFiniteSet(Q!Records(Q!Without(f, n)))
         /\ Q!SizeOf(Q!Without(f, n)) \in Nat /\ Cardinality(f[n]) \in Nat
         /\ Q!SizeOf(f) = Q!SizeOf(Q!Without(f, n)) + Cardinality(f[n])
<1> DEFINE g == Q!Without(f, n)
<1>1. /\ DOMAIN g = DOMAIN f \ {n} /\ \A m \in DOMAIN g : g[m] = f[m]
  BY DEF Q!Without
<1>2. Q!Records(g) \subseteq Q!Records(f)
  BY <1>1 DEF Q!Records
<1>3. IsFiniteSet(Q!Records(g))
  BY <1>2, FS_Subset
<1>4. IsFiniteSet(f[n])
  <2> DEFINE N == {n} \X f[n]
             p == [r \in f[n] |-> <<n, r>>]
  <2>1. N \subseteq Q!Records(f)
    BY DEF Q!Records
  <2>2. IsFiniteSet(N)
    BY <2>1, FS_Subset
  <2>3. p \in [f[n] -> N]
    OBVIOUS
  <2>4. p \in Injection(f[n], N)
    <3>1. DOMAIN p = f[n] /\ \A r, s \in f[n] : p[r] = p[s] => r = s
      OBVIOUS
    <3> QED BY <2>3, <3>1, Zenon DEF Injection, IsInjective
  <2> QED BY <2>2, <2>4, FS_Injection
<1>5. f = Q!With(g, n, f[n])
  <2>1. DOMAIN g \cup {n} = DOMAIN f
    BY <1>1
  <2>2. \A m \in DOMAIN f : f[m] = IF m = n THEN f[n] ELSE g[m]
    BY <1>1
  <2>3. Q!With(g, n, f[n]) = [m \in DOMAIN f |-> IF m = n THEN f[n] ELSE g[m]]
    BY <2>1 DEF Q!With
  <2>4. [m \in DOMAIN f |-> f[m]] = [m \in DOMAIN f |-> IF m = n THEN f[n] ELSE g[m]]
    BY <2>2
  <2> QED BY <2>3, <2>4
<1>6. n \notin DOMAIN g
  BY <1>1
<1>7. /\ Q!SizeOf(g) \in Nat /\ Cardinality(f[n]) \in Nat
      /\ Q!SizeOf(Q!With(g, n, f[n])) = Q!SizeOf(g) + Cardinality(f[n])
  <2> HIDE DEF g
  <2> QED BY <1>3, <1>4, <1>6, SizeWith
<1>8. Q!SizeOf(f) = Q!SizeOf(Q!With(g, n, f[n]))
  BY <1>5
<1> QED BY <1>3, <1>7, <1>8

(***************************************************************************)
(* The disk queue                                                          *)
(***************************************************************************)

\* The files on disk: each a body, with names that can be put in order.
FilesTyped ==
  /\ lp = [n \in DOMAIN lp |-> lp[n]]
  /\ DOMAIN lp \subseteq 0..MaxSeq
  /\ \A n \in DOMAIN lp : lp[n] \in Bodies
  /\ Lists(Q!InOrder(DOMAIN lp), DOMAIN lp)

CountersTyped ==
  /\ tmp \subseteq 0..MaxSeq
  /\ step \in {"down", "ready", "written", "renamed", "removed"}
  /\ call.forced \in BOOLEAN
  /\ segments \in Seq(0..MaxSeq) /\ bytes \in Nat /\ nextSeq \in 0..(MaxSeq + 1)
  /\ full \in BOOLEAN

\* Every file in the directory has a number below the next one's.
NextIsFree == \A n \in DOMAIN lp : n < nextSeq

\* What memory holds is what the directory holds.
Agrees == segments = Q!InOrder(DOMAIN lp) /\ bytes = Q!SizeOf(lp)

\* The inductive invariant of the disk queue: memory and directory agree but in
\* the middle of a call, where they differ by that call's body.
QueueInv ==
  /\ FilesTyped /\ CountersTyped
  /\ step = "down" => ~full
  /\ step = "ready" => Agrees /\ NextIsFree
  /\ step = "written" =>
       /\ Agrees /\ NextIsFree /\ nextSeq <= MaxSeq /\ call.body \in Bodies
       /\ ~call.forced => bytes + Cardinality(call.body) <= MaxBytes
  /\ step = "renamed" =>
       /\ call.body \in Bodies /\ nextSeq \in DOMAIN lp
       /\ \A n \in DOMAIN lp : n <= nextSeq
       /\ Q!InOrder(DOMAIN lp) = Append(segments, nextSeq)
       /\ Q!SizeOf(lp) = bytes + Cardinality(call.body)
  /\ step = "removed" =>
       /\ call.body \in Bodies /\ NextIsFree /\ segments # <<>>
       /\ Q!InOrder(DOMAIN lp) = Tail(segments)
       /\ bytes = Q!SizeOf(lp) + Cardinality(call.body)

\* The abstract queue that the files stand for.
Queued == [segs |-> Q!Queued, bytes |-> Q!SizeOf(lp), full |-> Q!AbsFull]

LEMMA FilesConstants ==
  /\ MaxSeq \in Nat /\ MaxBytes \in Nat
  /\ \A b \in Bodies : IsFiniteSet(b) /\ Cardinality(b) \in Nat
<1>1. Q!DiskQueueAssumption
  BY FilesAssumption
<1>2. \A b : Q!IsFiniteSet(b) = IsFiniteSet(b)
  BY DEF Q!IsFiniteSet, IsFiniteSet
<1>3. \A b \in Bodies : IsFiniteSet(b)
  BY <1>1, <1>2 DEF Q!DiskQueueAssumption
<1>4. \A b \in Bodies : Cardinality(b) \in Nat
  BY <1>3, FS_CardinalityType
<1> QED BY <1>1, <1>3, <1>4 DEF Q!DiskQueueAssumption

\* The files are finitely many, and so are their records.
LEMMA FilesFinite ==
  ASSUME FilesTyped
  PROVE  DOMAIN lp \in Finite /\ IsFiniteSet(Q!Records(lp)) /\ Q!SizeOf(lp) \in Nat
<1>1. MaxSeq \in Nat /\ \A b \in Bodies : IsFiniteSet(b)
  BY FilesConstants
<1>2. IsFiniteSet(0..MaxSeq) /\ 0..MaxSeq \subseteq Nat
  BY <1>1, FS_Interval, 0 \in Int, MaxSeq \in Int
<1>3. DOMAIN lp \in Finite
  BY <1>2, FS_Subset DEF FilesTyped, Finite
<1>4. IsFiniteSet(Q!Records(lp))
  <2> DEFINE P == [n \in DOMAIN lp |-> {n} \X lp[n]]
             I == {{n} \X lp[n] : n \in DOMAIN lp}
  <2>1. IsFiniteSet(I)
    <3>1. P \in Surjection(DOMAIN lp, I)
      BY DEF Surjection
    <3> QED BY <1>3, <3>1, FS_Surjection DEF Finite
  <2>2. \A X \in I : IsFiniteSet(X)
    <3>1. \A n \in DOMAIN lp : IsFiniteSet({n} \X lp[n])
      BY <1>1, SizeOfOne DEF FilesTyped
    <3> QED BY <3>1, Zenon
  <2>3. IsFiniteSet(UNION I)
    <3> HIDE DEF I
    <3> QED BY <2>1, <2>2, FS_UNION
  <2> QED BY <2>3 DEF Q!Records
<1>5. Q!SizeOf(lp) \in Nat
  BY <1>4, FS_CardinalityType, SameCardinality DEF Q!SizeOf
<1> QED BY <1>3, <1>4, <1>5

\* The queued bodies are those of the files, in order.
LEMMA QueuedIs ==
  ASSUME FilesTyped
  PROVE  Q!Queued = [i \in 1..Cardinality(DOMAIN lp) |-> lp[Q!InOrder(DOMAIN lp)[i]]]
  BY SameCardinality DEF Q!Queued

LEMMA QueueStarts == ASSUME Q!Init PROVE QueueInv /\ Q!Abs!Init
<1>1. /\ DOMAIN lp = {} /\ tmp = {} /\ step = "down" /\ call.forced = FALSE
      /\ segments = <<>> /\ bytes = 0 /\ nextSeq = 0 /\ full = FALSE
      /\ lp = [n \in DOMAIN lp |-> lp[n]]
  BY DEF Q!Init, Q!NoCall
<1>2. {} \in Finite /\ Lists(<<>>, {}) /\ Q!InOrder({}) = <<>>
  BY ListsNone, InOrderLists
<1>3. FilesTyped
  BY <1>1, <1>2 DEF FilesTyped
<1>4. CountersTyped
  <2>1. segments \in Seq(0..MaxSeq)
    BY <1>1, EmptySeq
  <2>2. bytes \in Nat /\ nextSeq \in 0..(MaxSeq + 1)
    BY <1>1, FilesConstants
  <2>3. full \in BOOLEAN /\ call.forced \in BOOLEAN
    BY <1>1, Zenon
  <2> QED BY <1>1, <2>1, <2>2, <2>3 DEF CountersTyped
<1>5. Q!Records(lp) = {} /\ Q!SizeOf(lp) = 0
  BY <1>1, FS_EmptySet, SameCardinality DEF Q!Records, Q!SizeOf
<1>6. Q!Queued = <<>>
  BY <1>1, <1>3, QueuedIs, FS_EmptySet
<1>7. Q!AbsFull = FALSE
  BY <1>1 DEF Q!AbsFull
<1> QED BY <1>1, <1>3, <1>4, <1>5, <1>6, <1>7 DEF QueueInv, Q!Abs!Init, Q!Abs!EmptyQueue

\* Renaming a new segment into place puts its body at the end of the queue.
LEMMA FileAdded ==
  ASSUME FilesTyped, NEW n \in 0..MaxSeq, \A m \in DOMAIN lp : m < n,
         NEW b \in Bodies, lp' = Q!With(lp, n, b)
  PROVE  /\ FilesTyped' /\ DOMAIN lp' = DOMAIN lp \cup {n}
         /\ Q!InOrder(DOMAIN lp)' = Append(Q!InOrder(DOMAIN lp), n)
         /\ (Q!SizeOf(lp))' = Q!SizeOf(lp) + Cardinality(b)
         /\ Q!Queued' = Append(Q!Queued, b)
<1> DEFINE D == DOMAIN lp
           s == Q!InOrder(D)
           a == Append(s, n)
           k == Cardinality(D)
<1>1. /\ D \in Finite /\ IsFiniteSet(Q!Records(lp)) /\ Q!SizeOf(lp) \in Nat
      /\ D \subseteq 0..MaxSeq /\ Lists(s, D) /\ MaxSeq \in Nat
      /\ IsFiniteSet(b) /\ n \in Nat /\ \A m \in D : m < n
  BY FilesFinite, FilesConstants DEF FilesTyped
<1>2. n \notin D
  BY <1>1
<1>3. /\ DOMAIN lp' = D \cup {n} /\ lp'[n] = b /\ \A m \in D : lp'[m] = lp[m]
      /\ lp' = [m \in DOMAIN lp' |-> lp'[m]]
  BY DEF Q!With
<1>4. D \cup {n} \in Finite /\ Lists(a, D \cup {n})
  <2> HIDE DEF D, s
  <2> QED BY <1>1, ListsAppend
<1>5. Q!InOrder(D \cup {n}) = a
  <2> HIDE DEF D, a
  <2> QED BY <1>4, InOrderLists
<1>6. Q!InOrder(DOMAIN lp)' = a
  BY <1>3, <1>5
<1>7. FilesTyped'
  <2>1. Lists(Q!InOrder(DOMAIN lp'), DOMAIN lp')
    BY <1>3, <1>4, <1>5
  <2>2. DOMAIN lp' \subseteq 0..MaxSeq /\ \A m \in DOMAIN lp' : lp'[m] \in Bodies
    BY <1>1, <1>3 DEF FilesTyped
  <2> QED BY <1>3, <2>1, <2>2 DEF FilesTyped
<1>8. Q!SizeOf(lp') = Q!SizeOf(lp) + Cardinality(b)
  BY <1>1, <1>2, SizeWith
<1>9. Q!Queued' = Append(Q!Queued, b)
  <2>1. /\ k \in Nat /\ Cardinality(D \cup {n}) = k + 1
    BY <1>1, <1>2, FS_CardinalityType, FS_AddElement DEF Finite
  <2>2. Q!Queued = [i \in 1..k |-> lp[s[i]]]
    BY QueuedIs
  <2>3. Q!Queued' = [i \in 1..(k + 1) |-> lp'[a[i]]]
    <3>1. Q!Queued' = [i \in 1..Cardinality(DOMAIN lp') |-> lp'[Q!InOrder(DOMAIN lp')[i]]]
      BY <1>7, SameCardinality DEF Q!Queued
    <3>2. Cardinality(DOMAIN lp') = k + 1 /\ Q!InOrder(DOMAIN lp') = a
      BY <1>3, <1>5, <2>1
    <3> HIDE DEF k, a
    <3> QED BY <3>1, <3>2
  <2>4. /\ s \in [1..k -> D] /\ s \in Seq(D) /\ Len(s) = k /\ D \subseteq Nat
    BY <1>1, ListsSeq DEF Lists, Finite
  <2>5. /\ \A i \in 1..k : a[i] = s[i] /\ s[i] \in D
        /\ a[k + 1] = n
    <3>1. s \in Seq(Nat)
      BY <2>4, SeqMonotonic
    <3> QED BY <1>1, <2>4, <3>1, AppendProperties
  <2>6. /\ \A i \in 1..k : lp'[a[i]] = lp[s[i]]
        /\ lp'[a[k + 1]] = b
    BY <1>3, <2>5
  <2> HIDE DEF k, s, a
  <2>7. Q!Queued \in Seq(Bodies) /\ Len(Q!Queued) = k
    <3>1. \A i \in 1..k : lp[s[i]] \in Bodies
      BY <2>5 DEF FilesTyped
    <3> QED BY <2>1, <2>2, <3>1
  <2>8. /\ Append(Q!Queued, b) \in Seq(Bodies) /\ Len(Append(Q!Queued, b)) = k + 1
        /\ \A i \in 1..k : Append(Q!Queued, b)[i] = Q!Queued[i]
        /\ Append(Q!Queued, b)[k + 1] = b
    BY <2>7, AppendProperties
  <2>9. Q!Queued' \in Seq(Bodies) /\ Len(Q!Queued') = k + 1
    <3>1. \A i \in 1..(k + 1) : lp'[a[i]] \in Bodies
      <4> SUFFICES ASSUME NEW i \in 1..(k + 1) PROVE lp'[a[i]] \in Bodies
        OBVIOUS
      <4>1. i \in 1..k \/ i = k + 1
        BY <2>1
      <4> QED BY <2>5, <2>6, <4>1 DEF FilesTyped
    <3> QED BY <2>1, <2>3, <3>1
  <2>10. \A i \in 1..(k + 1) : Q!Queued'[i] = Append(Q!Queued, b)[i]
    <3> SUFFICES ASSUME NEW i \in 1..(k + 1) PROVE Q!Queued'[i] = Append(Q!Queued, b)[i]
      OBVIOUS
    <3>1. i \in 1..k \/ i = k + 1
      BY <2>1
    <3> QED BY <2>1, <2>2, <2>3, <2>6, <2>8, <3>1
  <2> QED BY <2>8, <2>9, <2>10, SeqEqual
<1> QED BY <1>3, <1>6, <1>7, <1>8, <1>9

\* Removing the front segment takes the front body off the queue.
LEMMA FileRemoved ==
  ASSUME FilesTyped, Q!InOrder(DOMAIN lp) # <<>>,
         lp' = Q!Without(lp, Head(Q!InOrder(DOMAIN lp)))
  PROVE  /\ FilesTyped' /\ DOMAIN lp' \subseteq DOMAIN lp
         /\ Head(Q!InOrder(DOMAIN lp)) \in DOMAIN lp
         /\ Q!InOrder(DOMAIN lp)' = Tail(Q!InOrder(DOMAIN lp))
         /\ Q!SizeOf(lp) = (Q!SizeOf(lp))' + Cardinality(lp[Head(Q!InOrder(DOMAIN lp))])
         /\ Q!SizeOf(lp)' \in Nat
         /\ Q!Queued # <<>> /\ Head(Q!Queued) = lp[Head(Q!InOrder(DOMAIN lp))]
         /\ Q!Queued' = Tail(Q!Queued)
<1> DEFINE D == DOMAIN lp
           s == Q!InOrder(D)
           h == Head(s)
           r == Tail(s)
           k == Cardinality(D)
<1>1. /\ D \in Finite /\ IsFiniteSet(Q!Records(lp))
      /\ D \subseteq 0..MaxSeq /\ Lists(s, D) /\ s # <<>>
      /\ lp = [m \in DOMAIN lp |-> lp[m]] /\ \A m \in D : lp[m] \in Bodies
      /\ lp' = Q!Without(lp, h)
  BY FilesFinite DEF FilesTyped
<1>2. h \in D /\ D \ {h} \in Finite /\ Lists(r, D \ {h})
  <2> HIDE DEF D, s
  <2> QED BY <1>1, ListsTail
<1>3. /\ DOMAIN lp' = D \ {h} /\ \A m \in DOMAIN lp' : lp'[m] = lp[m]
      /\ lp' = [m \in DOMAIN lp' |-> lp'[m]]
  BY DEF Q!Without
<1>4. Q!InOrder(D \ {h}) = r
  <2> HIDE DEF D, h, r
  <2> QED BY <1>2, InOrderLists
<1>5. Q!InOrder(DOMAIN lp)' = r
  BY <1>3, <1>4
<1>6. FilesTyped'
  <2>1. Lists(Q!InOrder(DOMAIN lp'), DOMAIN lp')
    BY <1>2, <1>3, <1>4
  <2>2. DOMAIN lp' \subseteq 0..MaxSeq /\ \A m \in DOMAIN lp' : lp'[m] \in Bodies
    BY <1>1, <1>3
  <2> QED BY <1>3, <2>1, <2>2 DEF FilesTyped
<1>7. Q!SizeOf(lp') \in Nat /\ Q!SizeOf(lp) = Q!SizeOf(lp') + Cardinality(lp[h])
  <2> HIDE DEF h
  <2> QED BY <1>1, <1>2, SizeWithout
<1>8. /\ k \in Nat /\ IsFiniteSet(D) /\ Cardinality(D \ {h}) = k - 1
  BY <1>1, <1>2, FS_CardinalityType, FS_RemoveElement DEF Finite
<1>9. /\ s \in Seq(D) /\ Len(s) = k /\ h = s[1]
      /\ \A i \in 1..(k - 1) : r[i] = s[i + 1] /\ r[i] \in D \ {h}
      /\ \A i \in 1..k : s[i] \in D
  <2>1. s \in Seq(D) /\ Len(s) = k /\ s \in [1..k -> D]
    BY <1>1, ListsSeq DEF Lists
  <2>2. h = s[1] /\ Len(r) = k - 1 /\ \A i \in 1..Len(r) : r[i] = s[i + 1]
    BY <1>1, <2>1, HeadTailProperties
  <2>3. r \in [1..(k - 1) -> D \ {h}]
    BY <1>2, <1>8 DEF Lists
  <2> HIDE DEF k, s, r, h
  <2> QED BY <2>1, <2>2, <2>3
<1>10. k >= 1
  BY <1>1, <1>8, <1>9, EmptySeq
<1>11. Q!Queued = [i \in 1..k |-> lp[s[i]]]
  BY QueuedIs
<1>12. Q!Queued' = [i \in 1..(k - 1) |-> lp'[r[i]]]
  <2>1. Q!Queued' = [i \in 1..Cardinality(DOMAIN lp') |-> lp'[Q!InOrder(DOMAIN lp')[i]]]
    BY <1>6, SameCardinality DEF Q!Queued
  <2>2. Cardinality(DOMAIN lp') = k - 1 /\ Q!InOrder(DOMAIN lp') = r
    BY <1>3, <1>4, <1>8
  <2> HIDE DEF k, r
  <2> QED BY <2>1, <2>2
<1>13. /\ Q!Queued # <<>> /\ Head(Q!Queued) = lp[h]
       /\ Q!Queued' = Tail(Q!Queued)
  <2> HIDE DEF k, s, r, h
  <2>1. Q!Queued \in Seq(Bodies) /\ Len(Q!Queued) = k
    <3>1. \A i \in 1..k : lp[s[i]] \in Bodies
      BY <1>1, <1>9
    <3> QED BY <1>8, <1>11, <3>1
  <2>2. Q!Queued' \in Seq(Bodies) /\ Len(Q!Queued') = k - 1
    <3>1. \A i \in 1..(k - 1) : lp'[r[i]] \in Bodies
      BY <1>1, <1>3, <1>9
    <3> QED BY <1>8, <1>10, <1>12, <3>1
  <2>3. Q!Queued # <<>>
    BY <1>10, <2>1, EmptySeq
  <2>4. /\ Head(Q!Queued) = Q!Queued[1] /\ Tail(Q!Queued) \in Seq(Bodies)
        /\ Len(Tail(Q!Queued)) = k - 1
        /\ \A i \in 1..(k - 1) : Tail(Q!Queued)[i] = Q!Queued[i + 1]
    BY <2>1, <2>3, HeadTailProperties
  <2>5. Head(Q!Queued) = lp[h]
    BY <1>8, <1>9, <1>10, <1>11, <2>4
  <2>6. \A i \in 1..(k - 1) : Q!Queued'[i] = Tail(Q!Queued)[i]
    <3> SUFFICES ASSUME NEW i \in 1..(k - 1) PROVE Q!Queued'[i] = Tail(Q!Queued)[i]
      OBVIOUS
    <3>1. i + 1 \in 1..k /\ r[i] = s[i + 1] /\ r[i] \in DOMAIN lp'
      BY <1>3, <1>8, <1>9
    <3>2. lp'[r[i]] = lp[s[i + 1]]
      BY <1>3, <3>1
    <3>3. Q!Queued'[i] = lp'[r[i]]
      BY <1>12
    <3>4. Q!Queued[i + 1] = lp[s[i + 1]]
      BY <1>11, <3>1
    <3> QED BY <2>4, <3>2, <3>3, <3>4
  <2> QED BY <2>2, <2>3, <2>4, <2>5, <2>6, SeqEqual
<1> QED BY <1>2, <1>3, <1>5, <1>6, <1>7, <1>13

\* Calls of the abstract queue, on what the files stand for.
LEMMA AbstractPush ==
  ASSUME NEW b \in Bodies, NEW space \in BOOLEAN, Queued' = Q!Abs!Pushed(Queued, b, space)
  PROVE  Q!Abs!Next
<1>1. Q!Abs!Push(b, space)
  BY DEF Q!Abs!Push, Queued
<1> QED BY <1>1 DEF Q!Abs!Next

LEMMA AbstractForced ==
  ASSUME NEW b \in Bodies, NEW space \in BOOLEAN, Queued' = Q!Abs!Forced(Queued, b, space)
  PROVE  Q!Abs!Next
<1>1. Q!Abs!PushForced(b, space)
  BY DEF Q!Abs!PushForced, Queued
<1> QED BY <1>1 DEF Q!Abs!Next

LEMMA AbstractPop ==
  ASSUME Queued.segs # <<>>, Queued' = Q!Abs!Popped(Queued)
  PROVE  Q!Abs!Next
<1>1. Q!Abs!Pop
  BY DEF Q!Abs!Pop, Queued
<1> QED BY <1>1 DEF Q!Abs!Next

LEMMA AbstractOpen ==
  ASSUME Queued' = Q!Abs!Opened(Queued)
  PROVE  Q!Abs!Next
<1>1. Q!Abs!Open
  BY DEF Q!Abs!Open, Queued
<1> QED BY <1>1 DEF Q!Abs!Next

\* A step that leaves the files alone leaves bodies and bytes alone.
LEMMA FilesSame ==
  ASSUME FilesTyped, UNCHANGED lp
  PROVE  /\ FilesTyped' /\ Q!InOrder(DOMAIN lp)' = Q!InOrder(DOMAIN lp)
         /\ Q!SizeOf(lp)' = Q!SizeOf(lp) /\ Q!Queued' = Q!Queued
         /\ NextIsFree /\ UNCHANGED nextSeq => NextIsFree'
  BY DEF FilesTyped, NextIsFree, Q!Queued

\* open finds what is on disk (Queue::open).
LEMMA OpenRefines ==
  ASSUME QueueInv, Q!Open
  PROVE  QueueInv' /\ UNCHANGED Queued
<1>1. /\ step = "down" /\ segments' = Q!InOrder(DOMAIN lp) /\ bytes' = Q!SizeOf(lp)
      /\ nextSeq' = (IF DOMAIN lp = {} THEN 0 ELSE Q!Max(DOMAIN lp) + 1)
      /\ full' = FALSE /\ tmp' = {} /\ step' = "ready" /\ lp' = lp /\ call' = call
      /\ full = FALSE
  BY DEF Q!Open, QueueInv
<1>2. FilesTyped /\ CountersTyped
  BY DEF QueueInv
<1>3. /\ FilesTyped' /\ Q!InOrder(DOMAIN lp)' = Q!InOrder(DOMAIN lp)
      /\ Q!SizeOf(lp)' = Q!SizeOf(lp) /\ Q!Queued' = Q!Queued
  BY <1>1, <1>2, FilesSame
<1>4. nextSeq' \in 0..(MaxSeq + 1) /\ \A n \in DOMAIN lp : n < nextSeq'
  <2>1. MaxSeq \in Nat /\ DOMAIN lp \subseteq 0..MaxSeq
    BY <1>2, FilesConstants DEF FilesTyped
  <2>2. CASE DOMAIN lp = {}
    BY <1>1, <2>1, <2>2
  <2>3. CASE DOMAIN lp # {}
    <3>1. \E m \in DOMAIN lp : \A n \in DOMAIN lp : m >= n
      <4> DEFINE s == Q!InOrder(DOMAIN lp)
                 k == Cardinality(DOMAIN lp)
      <4>1. DOMAIN lp \in Finite /\ Lists(s, DOMAIN lp)
        BY <1>2, FilesFinite DEF FilesTyped
      <4>2. k \in Nat /\ \A x \in DOMAIN lp : \E i \in 1..k : s[i] = x
        <5> HIDE DEF s
        <5> QED BY <4>1, ListsAll
      <4>3. k \in 1..k
        BY <2>3, <4>2
      <4>4. s[k] \in DOMAIN lp /\ \A i \in 1..k : i < k => s[i] < s[k]
        BY <4>1, <4>3 DEF Lists
      <4>5. ASSUME NEW n \in DOMAIN lp PROVE s[k] >= n
        <5>1. PICK i \in 1..k : s[i] = n
          BY <4>2
        <5>2. s[k] \in Nat /\ n \in Nat
          BY <2>1, <4>4
        <5>3. i = k \/ i < k
          BY <4>2
        <5> HIDE DEF s, k
        <5> QED BY <4>4, <5>1, <5>2, <5>3
      <4> QED BY <4>4, <4>5
    <3>2. Q!Max(DOMAIN lp) \in DOMAIN lp /\ \A n \in DOMAIN lp : Q!Max(DOMAIN lp) >= n
      BY <3>1 DEF Q!Max
    <3> HIDE DEF Q!Max
    <3>3. nextSeq' = Q!Max(DOMAIN lp) + 1
      BY <1>1, <2>3
    <3> QED BY <2>1, <3>2, <3>3
  <2> QED BY <2>2, <2>3
<1>5. CountersTyped'
  <2>1. bytes' \in Nat
    BY <1>1, <1>2, FilesFinite
  <2>2. segments' \in Seq(0..MaxSeq)
    <3>1. DOMAIN lp \in Finite /\ Lists(Q!InOrder(DOMAIN lp), DOMAIN lp) /\ DOMAIN lp \subseteq 0..MaxSeq
      BY <1>2, FilesFinite DEF FilesTyped
    <3> QED BY <1>1, <3>1, ListsSeq, SeqMonotonic
  <2>3. full' \in BOOLEAN /\ call'.forced \in BOOLEAN /\ tmp' \subseteq 0..MaxSeq
    BY <1>1, <1>2, Zenon DEF CountersTyped
  <2> QED BY <1>1, <1>4, <2>1, <2>2, <2>3 DEF CountersTyped
<1>6. Agrees' /\ NextIsFree'
  BY <1>1, <1>3, <1>4 DEF Agrees, NextIsFree
<1>7. Q!AbsFull' = Q!AbsFull
  BY <1>1 DEF Q!AbsFull
<1> QED BY <1>1, <1>3, <1>5, <1>6, <1>7 DEF QueueInv, Queued

\* push over the cap pauses reading, and nothing else.
LEMMA PushRefusedRefines ==
  ASSUME QueueInv, Q!PushRefused
  PROVE  QueueInv' /\ Q!Abs!Next
<1>1. PICK b \in Bodies : bytes + Q!Cardinality(b) > MaxBytes
  BY DEF Q!PushRefused
<1>2. /\ step = "ready" /\ full' = TRUE
      /\ UNCHANGED <<lp, tmp, step, call, segments, bytes, nextSeq>>
  BY DEF Q!PushRefused, Q!disk
<1>3. FilesTyped /\ CountersTyped /\ Agrees /\ NextIsFree
  BY <1>2 DEF QueueInv
<1>4. /\ FilesTyped' /\ Q!InOrder(DOMAIN lp)' = Q!InOrder(DOMAIN lp)
      /\ Q!SizeOf(lp)' = Q!SizeOf(lp) /\ Q!Queued' = Q!Queued /\ NextIsFree'
  BY <1>2, <1>3, FilesSame
<1>5. CountersTyped'
  <2>1. full' \in BOOLEAN
    BY <1>2, Zenon
  <2> QED BY <1>2, <1>3, <2>1 DEF CountersTyped
<1>6. QueueInv'
  BY <1>2, <1>3, <1>4, <1>5 DEF QueueInv, Agrees
<1>7. Queued' = Q!Abs!Pushed(Queued, b, FALSE)
  <2>1. Q!AbsFull' = TRUE
    BY <1>2 DEF Q!AbsFull
  <2>2. ~Q!Abs!Accepts(Queued, b, FALSE)
    BY DEF Q!Abs!Accepts
  <2> QED BY <1>4, <2>1, <2>2 DEF Q!Abs!Pushed, Q!Abs!Paused, Queued
<1>8. FALSE \in BOOLEAN
  OBVIOUS
<1> QED BY <1>6, <1>7, <1>8, AbstractPush

\* Until the rename a spool has changed nothing.
LEMMA SpoolWriteRefines ==
  ASSUME QueueInv, Q!SpoolWrite
  PROVE  QueueInv' /\ UNCHANGED Queued
<1>1. PICK b \in Bodies, forced \in BOOLEAN :
        /\ forced \/ bytes + Cardinality(b) <= MaxBytes
        /\ call' = [body |-> b, forced |-> forced]
  BY SameCardinality DEF Q!SpoolWrite
<1>2. /\ step = "ready" /\ nextSeq <= MaxSeq /\ tmp' = tmp \cup {nextSeq} /\ step' = "written"
      /\ UNCHANGED <<lp, segments, bytes, nextSeq, full>>
  BY DEF Q!SpoolWrite, Q!mem
<1>3. FilesTyped /\ CountersTyped /\ Agrees /\ NextIsFree
  BY <1>2 DEF QueueInv
<1>4. /\ FilesTyped' /\ Q!InOrder(DOMAIN lp)' = Q!InOrder(DOMAIN lp)
      /\ Q!SizeOf(lp)' = Q!SizeOf(lp) /\ Q!Queued' = Q!Queued /\ NextIsFree'
  BY <1>2, <1>3, FilesSame
<1>5. call'.body = b /\ call'.forced = forced
  BY <1>1
<1>6. CountersTyped'
  <2>1. nextSeq \in 0..MaxSeq
    BY <1>2, <1>3, FilesConstants DEF CountersTyped
  <2>2. call'.forced \in BOOLEAN
    BY <1>5, Zenon
  <2> QED BY <1>2, <1>3, <2>1, <2>2 DEF CountersTyped
<1>7. ~call'.forced => bytes' + Cardinality(call'.body) <= MaxBytes
  BY <1>1, <1>2, <1>5
<1>8. Q!AbsFull' = Q!AbsFull
  BY <1>2 DEF Q!AbsFull
<1> QED BY <1>2, <1>3, <1>4, <1>5, <1>6, <1>7, <1>8 DEF QueueInv, Agrees, Queued

\* A full disk pauses reading, and the caller keeps the body.
LEMMA SpoolFailsRefines ==
  ASSUME QueueInv, Q!SpoolFails
  PROVE  QueueInv' /\ Q!Abs!Next
<1>1. /\ step = "written" /\ tmp' = tmp \ {nextSeq} /\ full' = TRUE /\ step' = "ready"
      /\ call' = [body |-> {}, forced |-> FALSE] /\ UNCHANGED <<lp, segments, bytes, nextSeq>>
  BY DEF Q!SpoolFails, Q!NoCall
<1>2. FilesTyped /\ CountersTyped /\ Agrees /\ NextIsFree /\ call.body \in Bodies
  BY <1>1 DEF QueueInv
<1>3. /\ FilesTyped' /\ Q!InOrder(DOMAIN lp)' = Q!InOrder(DOMAIN lp)
      /\ Q!SizeOf(lp)' = Q!SizeOf(lp) /\ Q!Queued' = Q!Queued /\ NextIsFree'
  BY <1>1, <1>2, FilesSame
<1>4. CountersTyped'
  <2>1. full' \in BOOLEAN /\ call'.forced \in BOOLEAN
    BY <1>1, Zenon
  <2> QED BY <1>1, <1>2, <2>1 DEF CountersTyped
<1>5. QueueInv'
  BY <1>1, <1>2, <1>3, <1>4 DEF QueueInv, Agrees
<1>6. Queued' = Q!Abs!Pushed(Queued, call.body, FALSE)
  <2>1. Q!AbsFull' = TRUE
    BY <1>1 DEF Q!AbsFull
  <2>2. ~Q!Abs!Accepts(Queued, call.body, FALSE)
    BY DEF Q!Abs!Accepts
  <2> QED BY <1>3, <2>1, <2>2 DEF Q!Abs!Pushed, Q!Abs!Paused, Queued
<1>7. FALSE \in BOOLEAN
  OBVIOUS
<1> QED BY <1>2, <1>5, <1>6, <1>7, AbstractPush

\* The rename is the moment at which push and push_forced take effect.
LEMMA SpoolRenameRefines ==
  ASSUME QueueInv, Q!SpoolRename
  PROVE  QueueInv' /\ Q!Abs!Next
<1>1. /\ step = "written" /\ lp' = Q!With(lp, nextSeq, call.body) /\ tmp' = tmp \ {nextSeq}
      /\ step' = "renamed" /\ UNCHANGED <<call, segments, bytes, nextSeq, full>>
  BY DEF Q!SpoolRename, Q!mem
<1>2. /\ FilesTyped /\ CountersTyped /\ Agrees /\ NextIsFree /\ nextSeq <= MaxSeq
      /\ call.body \in Bodies
      /\ ~call.forced => bytes + Cardinality(call.body) <= MaxBytes
  BY <1>1 DEF QueueInv
<1>3. nextSeq \in 0..MaxSeq
  BY <1>2, FilesConstants DEF CountersTyped
<1>4. /\ FilesTyped' /\ DOMAIN lp' = DOMAIN lp \cup {nextSeq}
      /\ Q!InOrder(DOMAIN lp)' = Append(Q!InOrder(DOMAIN lp), nextSeq)
      /\ Q!SizeOf(lp)' = Q!SizeOf(lp) + Cardinality(call.body)
      /\ Q!Queued' = Append(Q!Queued, call.body)
  BY <1>1, <1>2, <1>3, FileAdded DEF NextIsFree
<1>5. CountersTyped'
  BY <1>1, <1>2 DEF CountersTyped
<1>6. /\ nextSeq' \in DOMAIN lp' /\ \A n \in DOMAIN lp' : n <= nextSeq'
      /\ Q!InOrder(DOMAIN lp)' = Append(segments', nextSeq')
      /\ Q!SizeOf(lp)' = bytes' + Cardinality(call'.body)
  <2>1. \A n \in DOMAIN lp' : n <= nextSeq
    BY <1>2, <1>3, <1>4 DEF NextIsFree, FilesTyped
  <2> QED BY <1>1, <1>2, <1>4, <2>1 DEF Agrees
<1>7. QueueInv'
  BY <1>1, <1>2, <1>4, <1>5, <1>6 DEF QueueInv
<1>8. Q!AbsFull = full /\ Q!AbsFull' = (full \/ call.forced)
  BY <1>1 DEF Q!AbsFull
<1>9. Q!Abs!Spooled(Queued, call.body) =
        [segs |-> Q!Queued', bytes |-> Q!SizeOf(lp)', full |-> full]
  BY <1>4, <1>8, SameCardinality DEF Q!Abs!Spooled, Queued
<1>10. TRUE \in BOOLEAN
  OBVIOUS
<1>11. CASE call.forced
  <2>1. Q!AbsFull' = TRUE
    BY <1>8, <1>11, Zenon
  <2>2. Queued' = Q!Abs!Forced(Queued, call.body, TRUE)
    <3>1. Queued' = [segs |-> Q!Queued', bytes |-> Q!SizeOf(lp)', full |-> TRUE]
      BY <2>1 DEF Queued
    <3>2. Q!Abs!Forced(Queued, call.body, TRUE)
            = Q!Abs!Paused(Q!Abs!Spooled(Queued, call.body), TRUE)
      BY DEF Q!Abs!Forced
    <3>3. Q!Abs!Paused(Q!Abs!Spooled(Queued, call.body), TRUE)
            = [segs |-> Q!Queued', bytes |-> Q!SizeOf(lp)', full |-> TRUE]
      BY <1>9 DEF Q!Abs!Paused
    <3> QED BY <3>1, <3>2, <3>3
  <2> QED BY <1>2, <1>7, <1>10, <2>2, AbstractForced
<1>12. CASE ~call.forced
  <2>1. Q!AbsFull' = full
    <3>1. full \in BOOLEAN
      BY <1>2 DEF CountersTyped
    <3> QED BY <1>8, <1>12, <3>1, Zenon
  <2>2. Q!Abs!Accepts(Queued, call.body, TRUE)
    BY <1>2, <1>12, SameCardinality DEF Q!Abs!Accepts, Queued, Agrees
  <2>3. Queued' = Q!Abs!Pushed(Queued, call.body, TRUE)
    BY <1>9, <2>1, <2>2 DEF Q!Abs!Pushed, Queued
  <2> QED BY <1>2, <1>7, <1>10, <2>3, AbstractPush
<1> QED BY <1>11, <1>12

\* What memory then counts was there since the rename.
LEMMA SpoolCountRefines ==
  ASSUME QueueInv, Q!SpoolCount
  PROVE  QueueInv' /\ UNCHANGED Queued
<1>1. /\ step = "renamed" /\ nextSeq' = nextSeq + 1
      /\ bytes' = bytes + Cardinality(call.body)
      /\ segments' = Append(segments, nextSeq) /\ full' = (full \/ call.forced)
      /\ step' = "ready" /\ call' = [body |-> {}, forced |-> FALSE]
      /\ UNCHANGED <<lp, tmp>>
  BY SameCardinality DEF Q!SpoolCount, Q!NoCall, Q!disk
<1>2. /\ FilesTyped /\ CountersTyped /\ call.body \in Bodies /\ nextSeq \in DOMAIN lp
      /\ \A n \in DOMAIN lp : n <= nextSeq
      /\ Q!InOrder(DOMAIN lp) = Append(segments, nextSeq)
      /\ Q!SizeOf(lp) = bytes + Cardinality(call.body)
  BY <1>1 DEF QueueInv
<1>3. /\ FilesTyped' /\ Q!InOrder(DOMAIN lp)' = Q!InOrder(DOMAIN lp)
      /\ Q!SizeOf(lp)' = Q!SizeOf(lp) /\ Q!Queued' = Q!Queued
  BY <1>1, <1>2, FilesSame
<1>4. nextSeq \in 0..MaxSeq /\ DOMAIN lp \subseteq 0..MaxSeq /\ MaxSeq \in Nat
  BY <1>2, FilesConstants DEF FilesTyped
<1>5. CountersTyped'
  <2>1. segments' \in Seq(0..MaxSeq)
    BY <1>1, <1>2, <1>4, AppendProperties DEF CountersTyped
  <2>2. bytes' \in Nat /\ nextSeq' \in 0..(MaxSeq + 1)
    <3>1. bytes \in Nat /\ Cardinality(call.body) \in Nat
      BY <1>2, FilesConstants DEF CountersTyped
    <3> QED BY <1>1, <1>4, <3>1
  <2>3. full' \in BOOLEAN /\ call'.forced \in BOOLEAN
    BY <1>1, Zenon
  <2> QED BY <1>1, <1>2, <2>1, <2>2, <2>3 DEF CountersTyped
<1>6. Agrees' /\ NextIsFree'
  <2>1. \A n \in DOMAIN lp : n < nextSeq'
    BY <1>1, <1>2, <1>4
  <2>2. NextIsFree'
    BY <1>1, <2>1 DEF NextIsFree
  <2> QED BY <1>1, <1>2, <1>3, <2>2 DEF Agrees
<1>7. Q!AbsFull' = Q!AbsFull
  BY <1>1 DEF Q!AbsFull
<1> QED BY <1>1, <1>3, <1>5, <1>6, <1>7 DEF QueueInv, Queued

\* The removal of the file is the moment at which pop takes effect.
LEMMA PopRemoveRefines ==
  ASSUME QueueInv, Q!PopRemove
  PROVE  QueueInv' /\ Q!Abs!Next
<1> DEFINE h == Head(segments)
<1>1. /\ step = "ready" /\ segments # <<>> /\ h \in DOMAIN lp
      /\ call' = [body |-> lp[h], forced |-> FALSE] /\ lp' = Q!Without(lp, h)
      /\ step' = "removed" /\ UNCHANGED <<tmp, segments, bytes, nextSeq, full>>
  BY DEF Q!PopRemove, Q!mem
<1>2. /\ FilesTyped /\ CountersTyped /\ NextIsFree /\ segments = Q!InOrder(DOMAIN lp)
      /\ bytes = Q!SizeOf(lp)
  BY <1>1 DEF QueueInv, Agrees
<1>3. /\ FilesTyped' /\ DOMAIN lp' \subseteq DOMAIN lp
      /\ Q!InOrder(DOMAIN lp)' = Tail(segments)
      /\ Q!SizeOf(lp) = Q!SizeOf(lp)' + Cardinality(lp[h]) /\ Q!SizeOf(lp)' \in Nat
      /\ Q!Queued # <<>> /\ Head(Q!Queued) = lp[h] /\ Q!Queued' = Tail(Q!Queued)
  BY <1>1, <1>2, FileRemoved
<1>4. lp[h] \in Bodies /\ Cardinality(lp[h]) \in Nat
  BY <1>1, <1>2, FilesConstants DEF FilesTyped
<1>5. call'.body = lp[h] /\ call'.forced = FALSE
  BY <1>1
<1> HIDE DEF h
<1>6. CountersTyped'
  <2>1. call'.forced \in BOOLEAN
    BY <1>5, Zenon
  <2> QED BY <1>1, <1>2, <2>1 DEF CountersTyped
<1>7. NextIsFree'
  BY <1>1, <1>2, <1>3 DEF NextIsFree
<1>8. QueueInv'
  BY <1>1, <1>2, <1>3, <1>4, <1>5, <1>6, <1>7 DEF QueueInv
<1>9. Q!Left' = Q!SizeOf(lp)'
  BY <1>1, <1>2, <1>3, <1>4, <1>5, SameCardinality DEF Q!Left
<1>10. Q!AbsFull = full /\ Q!AbsFull' = (full /\ Q!SizeOf(lp)' * 2 > MaxBytes)
  BY <1>1, <1>9 DEF Q!AbsFull
<1>11. Queued.segs = Q!Queued /\ Queued.bytes = Q!SizeOf(lp) /\ Queued.full = full
  BY <1>10 DEF Queued
<1>12. Q!Abs!Popped(Queued) = [segs |-> Q!Queued', bytes |-> Q!SizeOf(lp)',
                               full |-> full /\ Q!SizeOf(lp)' * 2 > MaxBytes]
  <2>1. (IF Cardinality(lp[h]) <= Q!SizeOf(lp) THEN Q!SizeOf(lp) - Cardinality(lp[h]) ELSE 0)
          = Q!SizeOf(lp)'
    BY <1>3, <1>4
  <2> QED BY <1>3, <1>11, <2>1, SameCardinality DEF Q!Abs!Popped
<1>13. Queued' = Q!Abs!Popped(Queued)
  BY <1>10, <1>12 DEF Queued
<1> QED BY <1>3, <1>8, <1>11, <1>13, AbstractPop

\* The counters then follow, with the pause ended at half the cap.
LEMMA PopCountRefines ==
  ASSUME QueueInv, Q!PopCount
  PROVE  QueueInv' /\ UNCHANGED Queued
<1>1. /\ step = "removed" /\ segments' = Tail(segments) /\ bytes' = Q!Left
      /\ full' = (full /\ Q!Left * 2 > MaxBytes)
      /\ step' = "ready" /\ call' = [body |-> {}, forced |-> FALSE]
      /\ UNCHANGED <<lp, tmp, nextSeq>>
  BY DEF Q!PopCount, Q!NoCall, Q!disk
<1>2. /\ FilesTyped /\ CountersTyped /\ call.body \in Bodies /\ NextIsFree /\ segments # <<>>
      /\ Q!InOrder(DOMAIN lp) = Tail(segments)
      /\ bytes = Q!SizeOf(lp) + Cardinality(call.body)
  BY <1>1 DEF QueueInv
<1>3. /\ FilesTyped' /\ Q!InOrder(DOMAIN lp)' = Q!InOrder(DOMAIN lp)
      /\ Q!SizeOf(lp)' = Q!SizeOf(lp) /\ Q!Queued' = Q!Queued /\ NextIsFree'
  BY <1>1, <1>2, FilesSame
<1>4. Q!Left = Q!SizeOf(lp) /\ Q!SizeOf(lp) \in Nat
  BY <1>2, FilesFinite, FilesConstants, SameCardinality DEF Q!Left
<1>5. CountersTyped'
  <2>1. segments' \in Seq(0..MaxSeq)
    BY <1>1, <1>2, HeadTailProperties DEF CountersTyped
  <2>2. full' \in BOOLEAN /\ call'.forced \in BOOLEAN
    BY <1>1, Zenon
  <2> QED BY <1>1, <1>2, <1>4, <2>1, <2>2 DEF CountersTyped
<1>6. Agrees'
  BY <1>1, <1>2, <1>3, <1>4 DEF Agrees
<1>7. Q!AbsFull' = Q!AbsFull
  BY <1>1 DEF Q!AbsFull
<1> QED BY <1>1, <1>3, <1>5, <1>6, <1>7 DEF QueueInv, Queued

\* A kill loses the counters and, like a new open, the pause.
LEMMA KillRefines ==
  ASSUME QueueInv, Q!Kill
  PROVE  QueueInv' /\ Q!Abs!Next
<1>1. /\ step' = "down" /\ call' = [body |-> {}, forced |-> FALSE] /\ segments' = <<>>
      /\ bytes' = 0 /\ nextSeq' = 0 /\ full' = FALSE /\ UNCHANGED <<lp, tmp>>
  BY DEF Q!Kill, Q!NoCall, Q!disk
<1>2. FilesTyped /\ CountersTyped
  BY DEF QueueInv
<1>3. /\ FilesTyped' /\ Q!SizeOf(lp)' = Q!SizeOf(lp) /\ Q!Queued' = Q!Queued
  BY <1>1, <1>2, FilesSame
<1>4. CountersTyped'
  <2>1. segments' \in Seq(0..MaxSeq)
    BY <1>1, EmptySeq
  <2>2. bytes' \in Nat /\ nextSeq' \in 0..(MaxSeq + 1)
    BY <1>1, FilesConstants
  <2>3. full' \in BOOLEAN /\ call'.forced \in BOOLEAN
    BY <1>1, Zenon
  <2> QED BY <1>1, <1>2, <2>1, <2>2, <2>3 DEF CountersTyped
<1>5. QueueInv'
  BY <1>1, <1>3, <1>4 DEF QueueInv
<1>6. Q!AbsFull' = FALSE
  BY <1>1 DEF Q!AbsFull
<1>7. Queued' = Q!Abs!Opened(Queued)
  BY <1>3, <1>6 DEF Q!Abs!Opened, Q!Abs!Paused, Queued
<1> QED BY <1>5, <1>7, AbstractOpen

LEMMA QueueRefines ==
  ASSUME QueueInv, Q!Next
  PROVE  QueueInv' /\ (Q!Abs!Next \/ UNCHANGED Queued)
<1>1. CASE Q!Open
  BY <1>1, OpenRefines
<1>2. CASE Q!PushRefused
  BY <1>2, PushRefusedRefines
<1>3. CASE Q!SpoolWrite
  BY <1>3, SpoolWriteRefines
<1>4. CASE Q!SpoolFails
  BY <1>4, SpoolFailsRefines
<1>5. CASE Q!SpoolRename
  BY <1>5, SpoolRenameRefines
<1>6. CASE Q!SpoolCount
  BY <1>6, SpoolCountRefines
<1>7. CASE Q!PopRemove
  BY <1>7, PopRemoveRefines
<1>8. CASE Q!PopCount
  BY <1>8, PopCountRefines
<1>9. CASE Q!Kill
  BY <1>9, KillRefines
<1> QED BY <1>1, <1>2, <1>3, <1>4, <1>5, <1>6, <1>7, <1>8, <1>9 DEF Q!Next

\* The tailer's steps leave the queue alone.
LEMMA QueueStands ==
  ASSUME QueueInv, UNCHANGED queue
  PROVE  QueueInv' /\ UNCHANGED Queued
<1>1. UNCHANGED <<lp, tmp, step, call, segments, bytes, nextSeq, full>>
  BY DEF queue
<1>2. FilesTyped /\ CountersTyped
  BY DEF QueueInv
<1>3. /\ FilesTyped' /\ Q!InOrder(DOMAIN lp)' = Q!InOrder(DOMAIN lp)
      /\ Q!SizeOf(lp)' = Q!SizeOf(lp) /\ Q!Queued' = Q!Queued
      /\ NextIsFree => NextIsFree'
  BY <1>1, <1>2, FilesSame
<1>4. CountersTyped' /\ Q!AbsFull' = Q!AbsFull /\ (Agrees => Agrees')
  BY <1>1, <1>2, <1>3 DEF CountersTyped, Q!AbsFull, Q!Left, Agrees
<1> QED BY <1>1, <1>3, <1>4 DEF QueueInv, Queued
(***************************************************************************)
(* The tailer                                                              *)
(***************************************************************************)

Handle == [ino : 1..MaxFiles, off : Nat]

\* Files are written one after the other: only the last one created may be at
\* the path or be written to, and lines are numbered from file to file.
WorldInv ==
  /\ lines \in [1..MaxFiles -> Seq(1..written)]
  /\ \A i \in 1..MaxFiles : \A k, l \in DOMAIN lines[i] : k < l => lines[i][k] < lines[i][l]
  /\ \A i, j \in 1..MaxFiles : i < j =>
       \A k \in DOMAIN lines[i], l \in DOMAIN lines[j] : lines[i][k] < lines[j][l]
  /\ \A i \in 1..MaxFiles : i > created => lines[i] = <<>>
  /\ created \in 0..MaxFiles /\ written \in 0..NLines
  /\ live \in {0, created} /\ writer \in {0, created} /\ half \in {0, writer}
  /\ siblings \subseteq 1..created
  /\ half # 0 => written < NLines

\* A line is in its file, or was saved before the file was truncated.
Home == \A n \in 1..written :
          n \in covered \/ \E i \in 1..MaxFiles : \E k \in DOMAIN lines[i] : lines[i][k] = n

\* The open handle has passed the end of its file: a truncation to be noticed.
Cut(h) == h.off > T!Size(h.ino)

\* The rotated files are open in the order they were written, all before the
\* current one, and nobody writes to them any more.
DrainingInv ==
  /\ draining \in Seq(Handle)
  /\ \A i, j \in DOMAIN draining : i < j => draining[i].ino < draining[j].ino
  /\ \A i \in DOMAIN draining :
       /\ draining[i].ino <= created /\ draining[i].ino \notin {live, writer}
       /\ draining[i].off <= Len(lines[draining[i].ino])
       /\ current.ino # 0 => draining[i].ino < current.ino

\* The current file is cut only while it is at the path, and a file that is
\* written to under another name is the current one.
CurrentInv ==
  /\ current = T!NoFile \/ current \in Handle
  /\ current.ino <= created
  /\ current.ino # 0 =>
       \/ current.off <= Len(lines[current.ino])
       \/ Cut(current) /\ current.ino = live
  /\ pc # "down" /\ writer \notin {0, live} => current.ino = writer
  /\ pc \in {"rotation", "live"} => draining = <<>>
  /\ pc = "open" => current = T!NoFile

\* The handle will come to the k-th line of file i.
Coming(i, k) ==
  \/ \E d \in DOMAIN draining : draining[d].ino = i /\ k > draining[d].off
  \/ current.ino = i /\ (k > current.off \/ Cut(current))
  \/ i = live /\ i # current.ino

\* What is not coming has been read or given up.
NothingSkipped ==
  pc # "down" => \A i \in 1..MaxFiles : \A k \in DOMAIN lines[i] :
                   Coming(i, k) \/ lines[i][k] \in T!Seen \cup lost

\* What is coming was written after everything read.
ReadInv ==
  /\ read \in Seq(1..written) /\ T!InOrder
  /\ \A j \in DOMAIN read : \A i \in 1..MaxFiles : \A k \in DOMAIN lines[i] :
       Coming(i, k) => read[j] < lines[i][k]

\* No saved offset has been overtaken by a truncation.
Valid ==
  \A m \in DOMAIN marks : \A k \in 1..marks[m].off :
    k \in DOMAIN lines[marks[m].ino] /\ lines[marks[m].ino][k] \in covered

\* resume will come to the k-th line of file i, or count it as lost.
Marked(i, k) ==
  \/ \E m \in DOMAIN marks : marks[m].ino = i /\ k > marks[m].off
  \/ i = live /\ \A m \in DOMAIN marks : marks[m].ino # i

\* The checkpoint skips nothing either, once it knows of every truncation.
MarksInv ==
  /\ marks \in Seq(Handle)
  /\ \A m, n \in DOMAIN marks : m < n => marks[m].ino < marks[n].ino
  /\ \A m \in DOMAIN marks : marks[m].ino <= created
  /\ covered \cup lost \subseteq 1..written
  /\ writer \notin {0, live} => \E m \in DOMAIN marks : marks[m].ino = writer
  /\ Valid => \A i \in 1..MaxFiles : \A k \in DOMAIN lines[i] :
                Marked(i, k) \/ lines[i][k] \in covered \cup lost

\* While the agent is down it has nothing but the checkpoint.
DownInv ==
  /\ pc \in {"down", "drain", "rotation", "open", "drain_again", "live"}
  /\ pc = "down" =>
       /\ draining = <<>> /\ current = T!NoFile /\ read = <<>>
       /\ Valid /\ writer \in {0, live}

\* The inductive invariant of the tailer.
TailInv ==
  WorldInv /\ Home /\ DrainingInv /\ CurrentInv /\ NothingSkipped /\ ReadInv /\ MarksInv
  /\ DownInv

LEMMA TailConstants == MaxFiles \in Nat /\ NLines \in Nat
  BY FilesAssumption DEF T!TailerAssumption

\* The tailer starts with nothing to follow.
LEMMA TailStarts == T!Init => TailInv
<1> SUFFICES ASSUME T!Init PROVE TailInv
  OBVIOUS
<1>1. /\ lines = [i \in 1..MaxFiles |-> <<>>] /\ half = 0 /\ live = 0 /\ siblings = {} /\ writer = 0
      /\ created = 0 /\ written = 0 /\ pc = "down" /\ draining = <<>> /\ current = T!NoFile
      /\ read = <<>> /\ marks = <<>> /\ covered = {} /\ lost = {}
  BY DEF T!Init
<1>2. \A i \in 1..MaxFiles : lines[i] = <<>> /\ lines[i] \in Seq(1..written)
  BY <1>1
<1>3. T!NoFile.ino = 0 /\ T!NoFile.off = 0
  BY DEF T!NoFile
<1>4. WorldInv /\ Home
  BY <1>1, <1>2, TailConstants DEF WorldInv, Home
<1>5. DrainingInv /\ CurrentInv /\ DownInv
  BY <1>1, <1>3, TailConstants DEF DrainingInv, CurrentInv, DownInv, Valid
<1>6. NothingSkipped /\ ReadInv
  BY <1>1 DEF NothingSkipped, ReadInv, T!InOrder
<1>7. MarksInv
  BY <1>1, <1>2 DEF MarksInv
<1> QED BY <1>4, <1>5, <1>6, <1>7 DEF TailInv

\* What the invariant says of the types.
LEMMA TailTyped ==
  ASSUME TailInv
  PROVE  /\ created \in Nat /\ written \in Nat /\ created <= MaxFiles
         /\ live \in 0..MaxFiles /\ writer \in 0..MaxFiles
         /\ \A i \in 1..MaxFiles : Len(lines[i]) \in Nat /\ DOMAIN lines[i] = 1..Len(lines[i])
         /\ \A d \in DOMAIN draining : draining[d].ino \in 1..MaxFiles /\ draining[d].off \in Nat
         /\ \A m \in DOMAIN marks : marks[m].ino \in 1..MaxFiles /\ marks[m].off \in Nat
         /\ current.ino \in 0..MaxFiles /\ current.off \in Nat
         /\ \A i \in 1..MaxFiles : /\ T!Size(i) \in Nat /\ Len(lines[i]) <= T!Size(i)
                                   /\ half # i => T!Size(i) = Len(lines[i])
<1>1. /\ created \in Nat /\ written \in Nat /\ created <= MaxFiles
      /\ live \in 0..MaxFiles /\ writer \in 0..MaxFiles
  BY TailConstants DEF TailInv, WorldInv
<1>2. \A i \in 1..MaxFiles : lines[i] \in Seq(1..written)
  BY DEF TailInv, WorldInv
<1>3. \A d \in DOMAIN draining : draining[d] \in Handle
  BY ElementOfSeq, LenProperties DEF TailInv, DrainingInv
<1>4. \A m \in DOMAIN marks : marks[m] \in Handle
  BY ElementOfSeq, LenProperties DEF TailInv, MarksInv
<1>5. current.ino \in 0..MaxFiles /\ current.off \in Nat
  BY TailConstants DEF TailInv, CurrentInv, Handle, T!NoFile
<1>6. \A i \in 1..MaxFiles : Len(lines[i]) \in Nat /\ DOMAIN lines[i] = 1..Len(lines[i])
  BY <1>2, LenProperties
<1>7. \A i \in 1..MaxFiles : /\ T!Size(i) \in Nat /\ Len(lines[i]) <= T!Size(i)
                             /\ half # i => T!Size(i) = Len(lines[i])
  <2> SUFFICES ASSUME NEW i \in 1..MaxFiles
               PROVE  /\ T!Size(i) \in Nat /\ Len(lines[i]) <= T!Size(i)
                      /\ half # i => T!Size(i) = Len(lines[i])
    OBVIOUS
  <2>1. Len(lines[i]) \in Nat
    BY <1>6
  <2>2. half = i => T!Size(i) = Len(lines[i]) + 1
    BY DEF T!Size
  <2>3. half # i => T!Size(i) = Len(lines[i]) + 0
    BY DEF T!Size
  <2> QED BY <2>1, <2>2, <2>3
<1> QED BY <1>1, <1>3, <1>4, <1>5, <1>6, <1>7 DEF Handle

\* In particular, of the lines of a file.
LEMMA LinesTyped ==
  ASSUME TailInv, NEW i \in 1..MaxFiles
  PROVE  /\ Len(lines[i]) \in Nat /\ DOMAIN lines[i] = 1..Len(lines[i])
         /\ \A k \in DOMAIN lines[i] : k \in Nat
<1>1. Len(lines[i]) \in Nat /\ DOMAIN lines[i] = 1..Len(lines[i])
  BY TailTyped
<1> QED BY <1>1

\* A step outside the agent that leaves the lines where they are.
LEMMA OutsideStep ==
  ASSUME TailInv,
         UNCHANGED <<lines, written, pc, draining, current, read, marks, covered, lost>>,
         created' \in 0..MaxFiles, created <= created', siblings' \subseteq 1..created',
         live' \in {0, created'}, writer' \in {0, created'}, half' \in {0, writer'},
         half' # 0 => written < NLines,
         \A i \in DOMAIN draining : draining[i].ino \notin {live', writer'},
         current.ino # 0 =>
           current.off <= Len(lines[current.ino]) \/ (Cut(current)' /\ current.ino = live'),
         writer' \notin {0, live'} =>
           pc # "down" /\ current.ino = writer' /\ \E m \in DOMAIN marks : marks[m].ino = writer',
         pc # "down" => \A i \in 1..MaxFiles : \A k \in DOMAIN lines[i] : Coming(i, k)' <=> Coming(i, k),
         \A i \in 1..MaxFiles : \A k \in DOMAIN lines[i] : Marked(i, k) => Marked(i, k)'
  PROVE  TailInv'
<1>1. WorldInv' /\ Home'
  BY DEF TailInv, WorldInv, Home
<1>2. DrainingInv'
  <2>1. DrainingInv /\ created \in Nat /\ created' \in Nat
    BY TailTyped, TailConstants DEF TailInv
  <2>2. \A i \in DOMAIN draining : draining[i].ino \in Nat
    BY TailTyped
  <2> QED BY <2>1, <2>2 DEF DrainingInv
<1>3. CurrentInv'
  <2>1. CurrentInv /\ created \in Nat /\ created' \in Nat /\ current.ino \in Nat
    BY TailTyped, TailConstants DEF TailInv
  <2>2. current'.ino <= created'
    BY <2>1 DEF CurrentInv
  <2> QED BY <2>1, <2>2 DEF CurrentInv
<1>4. NothingSkipped'
  BY DEF TailInv, NothingSkipped, T!Seen
<1>5. ReadInv'
  BY EmptySeq DEF TailInv, ReadInv, T!InOrder, DownInv
<1>6. Valid' <=> Valid
  BY DEF Valid
<1>7. MarksInv'
  <2>1. MarksInv /\ created \in Nat /\ created' \in Nat
    BY TailTyped, TailConstants DEF TailInv
  <2>2. \A m \in DOMAIN marks : marks[m].ino \in Nat
    BY TailTyped
  <2> QED BY <1>6, <2>1, <2>2 DEF MarksInv
<1>8. DownInv'
  BY <1>6 DEF TailInv, DownInv
<1> QED BY <1>1, <1>2, <1>3, <1>4, <1>5, <1>7, <1>8 DEF TailInv

\* The agent's variables, which the writer and the rotation tool leave alone.
agent == <<pc, draining, current, read, marks, covered, lost, restarts>>

LEMMA WriteHalfKeeps == ASSUME TailInv, T!WriteHalf, UNCHANGED agent PROVE TailInv'
<1>1. /\ writer # 0 /\ half = 0 /\ half' = writer /\ written < NLines
      /\ UNCHANGED <<lines, live, siblings, writer, created, written>>
      /\ UNCHANGED <<pc, draining, current, read, marks, covered, lost>>
  BY DEF T!WriteHalf, agent
<1>2. /\ created' \in 0..MaxFiles /\ created <= created' /\ siblings' \subseteq 1..created'
      /\ live' \in {0, created'} /\ writer' \in {0, created'} /\ half' \in {0, writer'}
      /\ half' # 0 => written < NLines
  BY <1>1, TailTyped DEF TailInv, WorldInv
<1>3. /\ \A i \in DOMAIN draining : draining[i].ino \notin {live', writer'}
      /\ writer' \notin {0, live'} =>
           pc # "down" /\ current.ino = writer' /\ \E m \in DOMAIN marks : marks[m].ino = writer'
  BY <1>1 DEF TailInv, DrainingInv, CurrentInv, MarksInv, DownInv
<1>4. current.ino # 0 => current.off <= Len(lines[current.ino]) \/ (Cut(current) /\ current.ino = live)
  BY DEF TailInv, CurrentInv
<1>5. current.ino # 0 => (Cut(current) <=> Cut(current)')
  <2> SUFFICES ASSUME current.ino # 0 PROVE Cut(current) <=> Cut(current)'
    OBVIOUS
  <2>1. T!Size(current.ino) = Len(lines[current.ino]) + (IF half = current.ino THEN 1 ELSE 0)
    BY DEF T!Size
  <2>2. T!Size(current.ino)' = Len(lines[current.ino]) + (IF writer = current.ino THEN 1 ELSE 0)
    BY <1>1 DEF T!Size
  <2>3. CASE current.ino = writer
    <3>1. T!Size(writer) = Len(lines[writer]) /\ Len(lines[writer]) \in Nat
      <4>1. writer \in 1..MaxFiles /\ half # writer
        BY <1>1, TailTyped
      <4> QED BY <4>1, TailTyped
    <3>2. T!Size(writer) < current.off => T!Size(writer) + 1 < current.off
      BY <2>3 DEF T!WriteHalf, T!Noticeable
    <3> QED BY <1>1, <2>2, <2>3, <3>1, <3>2, TailTyped DEF Cut
  <2>4. CASE current.ino # writer
    <3>1. T!Size(current.ino)' = T!Size(current.ino)
      BY <1>1, <2>1, <2>2, <2>4
    <3> QED BY <1>1, <3>1 DEF Cut
  <2> QED BY <2>3, <2>4
<1>6. \A i \in 1..MaxFiles : \A k \in DOMAIN lines[i] :
        (Coming(i, k)' <=> Coming(i, k)) /\ (Marked(i, k)' <=> Marked(i, k))
  BY <1>1, <1>5 DEF Coming, Marked
<1> QED BY <1>1, <1>2, <1>3, <1>4, <1>5, <1>6, OutsideStep

LEMMA RenameKeeps == ASSUME TailInv, T!Rename, UNCHANGED agent PROVE TailInv'
<1>1. /\ live # 0 /\ live' = 0 /\ siblings' = siblings \cup {live}
      /\ pc # "down" \/ writer = 0
      /\ \E m \in DOMAIN marks : marks[m].ino = live
      /\ pc = "down" \/ (current.ino = live /\ current.off <= T!Size(live))
      /\ UNCHANGED <<lines, half, writer, created, written>>
      /\ UNCHANGED <<pc, draining, current, read, marks, covered, lost>>
  BY DEF T!Rename, T!Inos, agent
<1>2. live = created
  BY <1>1 DEF TailInv, WorldInv
<1>3. /\ created' \in 0..MaxFiles /\ created <= created' /\ siblings' \subseteq 1..created'
      /\ live' \in {0, created'} /\ writer' \in {0, created'} /\ half' \in {0, writer'}
      /\ half' # 0 => written < NLines
  BY <1>1, <1>2, TailTyped DEF TailInv, WorldInv
<1>4. /\ \A i \in DOMAIN draining : draining[i].ino \notin {live', writer'}
      /\ writer' \notin {0, live'} =>
           pc # "down" /\ current.ino = writer' /\ \E m \in DOMAIN marks : marks[m].ino = writer'
  <2>1. writer # 0 => writer = live
    BY <1>2 DEF TailInv, WorldInv
  <2>2. \A i \in DOMAIN draining : draining[i].ino # writer /\ draining[i].ino # 0
    BY TailTyped DEF TailInv, DrainingInv
  <2> QED BY <1>1, <2>1, <2>2
<1>5. pc # "down" => ~Cut(current)
  <2>1. live \in 1..MaxFiles
    BY <1>1, TailTyped
  <2>2. T!Size(live) \in Nat /\ current.off \in Nat
    BY <2>1, TailTyped
  <2> QED BY <1>1, <2>2 DEF Cut
<1>6. current.ino # 0 => pc # "down" /\ current.off <= Len(lines[current.ino])
  BY <1>5 DEF TailInv, CurrentInv, DownInv, T!NoFile
<1>7. Cut(current)' <=> Cut(current)
  BY <1>1 DEF Cut, T!Size
<1>8. \A i \in 1..MaxFiles : \A k \in DOMAIN lines[i] :
        /\ pc # "down" => (Coming(i, k)' <=> Coming(i, k))
        /\ Marked(i, k) => Marked(i, k)'
  BY <1>1, <1>7 DEF Coming, Marked
<1> QED BY <1>1, <1>3, <1>4, <1>6, <1>8, OutsideStep

LEMMA CreateKeeps == ASSUME TailInv, T!Create, UNCHANGED agent PROVE TailInv'
<1>1. /\ live = 0 /\ writer = 0 /\ created < MaxFiles /\ created' = created + 1
      /\ live' = created + 1
      /\ UNCHANGED <<lines, half, siblings, writer, written>>
      /\ UNCHANGED <<pc, draining, current, read, marks, covered, lost>>
  BY DEF T!Create, agent
<1>2. /\ created' \in 0..MaxFiles /\ created <= created' /\ siblings' \subseteq 1..created'
      /\ live' \in {0, created'} /\ writer' \in {0, created'} /\ half' \in {0, writer'}
      /\ half' # 0 => written < NLines
  BY <1>1, TailTyped, TailConstants DEF TailInv, WorldInv
<1>3. \A i \in DOMAIN draining : draining[i].ino \notin {live', writer'}
  BY <1>1, TailTyped DEF TailInv, DrainingInv
<1>4. current.ino # 0 => current.off <= Len(lines[current.ino])
  BY <1>1 DEF TailInv, CurrentInv
<1>5. lines[live'] = <<>> /\ live' \in 1..MaxFiles
  BY <1>1, TailTyped, TailConstants DEF TailInv, WorldInv
<1>6. Cut(current)' <=> Cut(current)
  BY <1>1 DEF Cut, T!Size
<1>7. \A i \in 1..MaxFiles : \A k \in DOMAIN lines[i] :
        (Coming(i, k)' <=> Coming(i, k)) /\ (Marked(i, k) => Marked(i, k)')
  <2> SUFFICES ASSUME NEW i \in 1..MaxFiles, NEW k \in DOMAIN lines[i]
               PROVE  (Coming(i, k)' <=> Coming(i, k)) /\ (Marked(i, k) => Marked(i, k)')
    OBVIOUS
  <2>1. i # live /\ i # live'
    <3>1. DOMAIN lines[live'] = {}
      BY <1>5
    <3> QED BY <1>1, <3>1
  <2> QED BY <1>1, <1>6, <2>1 DEF Coming, Marked
<1> QED BY <1>1, <1>2, <1>3, <1>4, <1>7, OutsideStep

\* The writer closes its file, opens the one at the path, or an old file is deleted.
LEMMA WriterKeeps ==
  ASSUME TailInv, T!Close \/ T!Reopen \/ T!Delete, UNCHANGED agent
  PROVE  TailInv'
<1>1. /\ writer' \in {0, live, writer} /\ (writer' = writer \/ half = 0)
      /\ siblings' \subseteq siblings
      /\ UNCHANGED <<lines, half, live, created, written>>
      /\ UNCHANGED <<pc, draining, current, read, marks, covered, lost>>
  BY DEF T!Close, T!Reopen, T!Delete, agent, TailInv, WorldInv
<1>2. /\ created' \in 0..MaxFiles /\ created <= created' /\ siblings' \subseteq 1..created'
      /\ live' \in {0, created'} /\ writer' \in {0, created'} /\ half' \in {0, writer'}
      /\ half' # 0 => written < NLines
  BY <1>1, TailTyped DEF TailInv, WorldInv
<1>3. /\ \A i \in DOMAIN draining : draining[i].ino \notin {live', writer'}
      /\ writer' \notin {0, live'} =>
           pc # "down" /\ current.ino = writer' /\ \E m \in DOMAIN marks : marks[m].ino = writer'
  <2>1. \A i \in DOMAIN draining : draining[i].ino # 0
    BY TailTyped
  <2> QED BY <1>1, <2>1 DEF TailInv, DrainingInv, CurrentInv, MarksInv, DownInv
<1>4. Cut(current)' <=> Cut(current)
  BY <1>1 DEF Cut, T!Size
<1>5. current.ino # 0 => current.off <= Len(lines[current.ino]) \/ (Cut(current)' /\ current.ino = live')
  BY <1>1, <1>4 DEF TailInv, CurrentInv
<1>6. \A i \in 1..MaxFiles : \A k \in DOMAIN lines[i] :
        (Coming(i, k)' <=> Coming(i, k)) /\ (Marked(i, k)' <=> Marked(i, k))
  BY <1>1, <1>4 DEF Coming, Marked
<1> QED BY <1>1, <1>2, <1>3, <1>5, <1>6, OutsideStep

\* A line that is completed is in front of the agent, and behind everything the
\* checkpoint covers.
LEMMA WriteRestKeeps == ASSUME TailInv, T!WriteRest, UNCHANGED agent PROVE TailInv'
<1> DEFINE e == Len(lines[half]) + 1
<1>1. /\ half # 0 /\ half' = 0 /\ written' = written + 1
      /\ lines' = [lines EXCEPT ![half] = Append(lines[half], written + 1)]
      /\ UNCHANGED <<live, siblings, writer, created>>
      /\ UNCHANGED <<pc, draining, current, read, marks, covered, lost>>
  BY DEF T!WriteRest, agent
<1>2. /\ half = writer /\ half = created /\ half \in 1..MaxFiles /\ written \in Nat /\ e \in Nat \ {0}
      /\ written < NLines
  BY <1>1, TailTyped DEF TailInv, WorldInv
<1>3. /\ lines' \in [1..MaxFiles -> Seq(1..(written + 1))]
      /\ DOMAIN lines'[half] = 1..e /\ Len(lines[half]) = e - 1
      /\ DOMAIN lines[half] = 1..(e - 1) /\ lines'[half][e] = written + 1
      /\ \A k \in DOMAIN lines[half] : lines'[half][k] = lines[half][k]
      /\ \A i \in 1..MaxFiles : i # half => lines'[i] = lines[i]
      /\ Len(lines'[half]) = e
      /\ \A i \in 1..MaxFiles : \A k \in DOMAIN lines[i] : lines[i][k] \in 1..written
  <2>1. lines \in [1..MaxFiles -> Seq(1..written)]
    BY DEF TailInv, WorldInv
  <2>2. /\ lines[half] \in Seq(1..written) /\ lines'[half] = Append(lines[half], written + 1)
        /\ \A i \in 1..MaxFiles : i # half => lines'[i] = lines[i]
    BY <1>1, <1>2, <2>1
  <2>3. \A i \in 1..MaxFiles : lines[i] \in Seq(1..(written + 1))
    BY <1>2, <2>1, SeqMonotonic
  <2>4. written + 1 \in 1..(written + 1) /\ lines[half] \in Seq(1..(written + 1))
    BY <1>2, <2>3
  <2>5. /\ Append(lines[half], written + 1) \in Seq(1..(written + 1))
        /\ Len(Append(lines[half], written + 1)) = e
        /\ \A k \in 1..Len(lines[half]) : Append(lines[half], written + 1)[k] = lines[half][k]
        /\ Append(lines[half], written + 1)[e] = written + 1
    BY <2>4, AppendProperties
  <2>6. /\ DOMAIN lines[half] = 1..Len(lines[half])
        /\ DOMAIN Append(lines[half], written + 1) = 1..e
    BY <2>4, <2>5, LenProperties
  <2>7. lines' \in [1..MaxFiles -> Seq(1..(written + 1))]
    BY <1>1, <2>1, <2>3, <2>5
  <2>8. \A i \in 1..MaxFiles : \A k \in DOMAIN lines[i] : lines[i][k] \in 1..written
    BY <2>1, ElementOfSeq, LenProperties
  <2> QED BY <1>2, <2>2, <2>5, <2>6, <2>7, <2>8
<1> HIDE DEF e
\* The lines there are now: those there were, and the new one.
<1>4. ASSUME NEW i \in 1..MaxFiles, NEW k \in DOMAIN lines'[i]
      PROVE  \/ k \in DOMAIN lines[i] /\ lines'[i][k] = lines[i][k] /\ lines[i][k] \in 1..written
             \/ i = half /\ k = e /\ lines'[i][k] = written + 1
  <2>1. CASE i # half
    BY <1>3, <2>1
  <2>2. CASE i = half /\ k = e
    BY <1>3, <2>2
  <2>3. CASE i = half /\ k # e
    <3>1. k \in DOMAIN lines[half]
      BY <1>2, <1>3, <2>3
    <3> QED BY <1>3, <2>3, <3>1
  <2> QED BY <2>1, <2>2, <2>3
\* And every line that there was is where it was.
<1>4a. \A i \in 1..MaxFiles : \A k \in DOMAIN lines[i] : k \in DOMAIN lines'[i] /\ lines'[i][k] = lines[i][k]
  <2> SUFFICES ASSUME NEW i \in 1..MaxFiles, NEW k \in DOMAIN lines[i]
               PROVE  k \in DOMAIN lines'[i] /\ lines'[i][k] = lines[i][k]
    OBVIOUS
  <2>1. CASE i # half
    BY <1>3, <2>1
  <2>2. CASE i = half
    <3>1. k \in 1..e
      BY <1>2, <1>3, <2>2
    <3> QED BY <1>3, <2>2, <3>1
  <2> QED BY <2>1, <2>2
<1>5. WorldInv'
  <2>1. ASSUME NEW i \in 1..MaxFiles, NEW k \in DOMAIN lines'[i], NEW l \in DOMAIN lines'[i], k < l
        PROVE  lines'[i][k] < lines'[i][l]
    <3>1. CASE i = half
      <4>1. k \in DOMAIN lines[i] /\ lines'[i][k] = lines[i][k] /\ lines[i][k] \in 1..written
        BY <1>2, <1>3, <2>1, <3>1
      <4> QED BY <1>2, <1>4, <2>1, <4>1 DEF TailInv, WorldInv
    <3>2. CASE i # half
      BY <1>3, <2>1, <3>2 DEF TailInv, WorldInv
    <3> QED BY <3>1, <3>2
  <2>2. ASSUME NEW i \in 1..MaxFiles, NEW j \in 1..MaxFiles, i < j,
               NEW k \in DOMAIN lines'[i], NEW l \in DOMAIN lines'[j]
        PROVE  lines'[i][k] < lines'[j][l]
    <3>1. i # half
      <4> SUFFICES ASSUME i = half PROVE FALSE
        OBVIOUS
      <4>1. lines[j] = <<>> /\ lines'[j] = lines[j]
        BY <1>2, <1>3, <2>2 DEF TailInv, WorldInv
      <4> QED BY <4>1
    <3>2. k \in DOMAIN lines[i] /\ lines'[i][k] = lines[i][k] /\ lines[i][k] \in 1..written
      BY <1>4, <3>1
    <3> QED BY <1>2, <1>4, <2>2, <3>2 DEF TailInv, WorldInv
  <2>3. \A i \in 1..MaxFiles : i > created => lines'[i] = <<>>
    BY <1>2, <1>3 DEF TailInv, WorldInv
  <2>4. written' \in 0..NLines
    BY <1>1, <1>2, TailConstants
  <2> QED BY <1>1, <1>3, <2>1, <2>2, <2>3, <2>4 DEF TailInv, WorldInv
<1>6. Home'
  <2> SUFFICES ASSUME NEW n \in 1..(written + 1), n \notin covered
               PROVE  \E i \in 1..MaxFiles : \E k \in DOMAIN lines'[i] : lines'[i][k] = n
    BY <1>1 DEF Home
  <2>1. CASE n = written + 1
    <3>1. e \in DOMAIN lines'[half] /\ lines'[half][e] = n
      <4>1. e \in 1..e
        BY <1>2
      <4> QED BY <1>3, <2>1, <4>1
    <3> QED BY <1>2, <3>1
  <2>2. CASE n # written + 1
    <3>1. n \in 1..written
      BY <1>2, <2>2
    <3>2. PICK i \in 1..MaxFiles : \E k \in DOMAIN lines[i] : lines[i][k] = n
      BY <3>1 DEF TailInv, Home
    <3>3. PICK k \in DOMAIN lines[i] : lines[i][k] = n
      BY <3>2
    <3>4. k \in DOMAIN lines'[i] /\ lines'[i][k] = n
      BY <1>4a, <3>3
    <3> QED BY <3>4
  <2> QED BY <2>1, <2>2
<1>7. \A i \in 1..MaxFiles : Len(lines[i]) <= Len(lines'[i]) /\ Len(lines'[i]) \in Nat
  <2> SUFFICES ASSUME NEW i \in 1..MaxFiles
               PROVE  Len(lines[i]) <= Len(lines'[i]) /\ Len(lines'[i]) \in Nat
    OBVIOUS
  <2>1. Len(lines[i]) \in Nat
    BY LinesTyped
  <2> QED BY <1>2, <1>3, <2>1
<1>8. current.ino # 0 => (Cut(current)' <=> Cut(current))
  <2> SUFFICES ASSUME current.ino # 0 PROVE Cut(current)' <=> Cut(current)
    OBVIOUS
  <2>1. current.ino \in 1..MaxFiles
    BY TailTyped
  <2>2. T!Size(current.ino) = Len(lines[current.ino]) + (IF half = current.ino THEN 1 ELSE 0)
    BY DEF T!Size
  <2>3. T!Size(current.ino)' = Len(lines'[current.ino]) + 0
    BY <1>1, <2>1 DEF T!Size
  <2>4. T!Size(current.ino)' = T!Size(current.ino)
    <3>1. CASE current.ino = half
      BY <1>2, <1>3, <2>2, <2>3, <3>1
    <3>2. CASE current.ino # half
      BY <1>3, <2>1, <2>2, <2>3, <3>2
    <3> QED BY <3>1, <3>2
  <2> QED BY <1>1, <2>4 DEF Cut
<1>9. \A i \in 1..MaxFiles : \A k \in Nat : Coming(i, k)' <=> Coming(i, k)
  BY <1>1, <1>8 DEF Coming
<1>10. DrainingInv'
  <2>1. \A d \in DOMAIN draining : draining[d].off <= Len(lines'[draining[d].ino])
    <3> SUFFICES ASSUME NEW d \in DOMAIN draining
                 PROVE  draining[d].off <= Len(lines'[draining[d].ino])
      OBVIOUS
    <3>1. draining[d].ino \in 1..MaxFiles /\ draining[d].off \in Nat
      BY TailTyped
    <3>2. draining[d].off <= Len(lines[draining[d].ino])
      BY DEF TailInv, DrainingInv
    <3> QED BY <1>7, <3>1, <3>2, LinesTyped
  <2> QED BY <1>1, <2>1 DEF TailInv, DrainingInv
<1>11. CurrentInv'
  <2>1. current.ino # 0 => current.off <= Len(lines'[current.ino]) \/ (Cut(current)' /\ current.ino = live)
    <3> SUFFICES ASSUME current.ino # 0, ~(Cut(current)' /\ current.ino = live)
                 PROVE  current.off <= Len(lines'[current.ino])
      OBVIOUS
    <3>1. current.ino \in 1..MaxFiles /\ current.off \in Nat
      BY TailTyped
    <3>2. current.off <= Len(lines[current.ino])
      BY <1>8 DEF TailInv, CurrentInv
    <3> QED BY <1>7, <3>1, <3>2, LinesTyped
  <2> QED BY <1>1, <2>1 DEF TailInv, CurrentInv
<1>12. pc # "down" => Coming(half, e)
  <2> SUFFICES ASSUME pc # "down" PROVE Coming(half, e)
    OBVIOUS
  <2>1. CASE current.ino = half
    <3>1. e > current.off \/ Cut(current)
      BY <1>2, <1>3, <2>1, TailTyped DEF TailInv, CurrentInv
    <3> QED BY <2>1, <3>1 DEF Coming
  <2>2. CASE current.ino # half
    <3>1. half = live
      BY <1>1, <1>2, <2>2 DEF TailInv, CurrentInv
    <3> QED BY <2>2, <3>1 DEF Coming
  <2> QED BY <2>1, <2>2
<1>13. NothingSkipped'
  <2> SUFFICES ASSUME pc # "down", NEW i \in 1..MaxFiles, NEW k \in DOMAIN lines'[i]
               PROVE  Coming(i, k)' \/ lines'[i][k] \in T!Seen \cup lost
    BY <1>1 DEF NothingSkipped, T!Seen
  <2>1. k \in Nat
    BY <1>2, <1>4, LinesTyped
  <2>2. CASE k \in DOMAIN lines[i] /\ lines'[i][k] = lines[i][k]
    BY <1>9, <2>1, <2>2 DEF TailInv, NothingSkipped
  <2>3. CASE i = half /\ k = e
    BY <1>9, <1>12, <2>1, <2>3
  <2> QED BY <1>4, <2>2, <2>3
<1>14. ReadInv'
  <2>1. read \in Seq(1..written) /\ \A j \in DOMAIN read : read[j] \in 1..written
    BY ElementOfSeq, LenProperties DEF TailInv, ReadInv
  <2>2. read \in Seq(1..(written + 1))
    BY <1>2, <2>1, SeqMonotonic
  <2>3. ASSUME NEW j \in DOMAIN read, NEW i \in 1..MaxFiles, NEW k \in DOMAIN lines'[i], Coming(i, k)'
        PROVE  read[j] < lines'[i][k]
    <3>1. CASE k \in DOMAIN lines[i] /\ lines'[i][k] = lines[i][k]
      <4>1. Coming(i, k)
        BY <1>9, <2>3, <3>1, TailTyped
      <4> QED BY <3>1, <4>1 DEF TailInv, ReadInv
    <3>2. CASE lines'[i][k] = written + 1
      BY <1>2, <2>1, <3>2
    <3> QED BY <1>4, <3>1, <3>2
  <2>4. T!InOrder'
    BY <1>1 DEF TailInv, ReadInv, T!InOrder
  <2> QED BY <1>1, <2>2, <2>3, <2>4 DEF ReadInv
<1>15. Valid => Valid'
  BY <1>1, <1>4a, TailTyped DEF Valid
<1>16. Valid' => Valid
  <2> SUFFICES ASSUME Valid', NEW m \in DOMAIN marks, NEW k \in 1..marks[m].off
               PROVE  k \in DOMAIN lines[marks[m].ino] /\ lines[marks[m].ino][k] \in covered
    BY DEF Valid
  <2>1. k \in DOMAIN lines'[marks[m].ino] /\ lines'[marks[m].ino][k] \in covered
    BY <1>1 DEF Valid
  <2>2. marks[m].ino \in 1..MaxFiles /\ covered \subseteq 1..written
    BY TailTyped DEF TailInv, MarksInv
  <2>3. lines'[marks[m].ino][k] # written + 1
    BY <1>2, <2>1, <2>2
  <2> QED BY <1>4, <2>1, <2>2, <2>3
<1>17. Valid => Marked(half, e)
  <2> SUFFICES ASSUME Valid PROVE Marked(half, e)
    OBVIOUS
  <2>1. \A m \in DOMAIN marks : marks[m].ino = half => e > marks[m].off
    <3> SUFFICES ASSUME NEW m \in DOMAIN marks, marks[m].ino = half, ~(e > marks[m].off)
                 PROVE  FALSE
      OBVIOUS
    <3>1. e \in 1..marks[m].off
      BY <1>2, TailTyped
    <3>2. e \in DOMAIN lines[half]
      BY <3>1 DEF Valid
    <3> QED BY <1>2, <1>3, <3>2
  <2>2. CASE \E m \in DOMAIN marks : marks[m].ino = half
    BY <2>1, <2>2 DEF Marked
  <2>3. CASE \A m \in DOMAIN marks : marks[m].ino # half
    <3>1. half = live
      BY <1>1, <1>2, <2>3 DEF TailInv, MarksInv
    <3> QED BY <2>3, <3>1 DEF Marked
  <2> QED BY <2>2, <2>3
<1>18. MarksInv'
  <2>1. ASSUME Valid', NEW i \in 1..MaxFiles, NEW k \in DOMAIN lines'[i]
        PROVE  Marked(i, k)' \/ lines'[i][k] \in covered \cup lost
    <3>1. Marked(i, k)' <=> Marked(i, k)
      BY <1>1 DEF Marked
    <3> QED BY <1>4, <1>16, <1>17, <2>1, <3>1 DEF TailInv, MarksInv
  <2>2. covered \cup lost \subseteq 1..(written + 1)
    BY <1>2 DEF TailInv, MarksInv
  <2> QED BY <1>1, <2>1, <2>2 DEF TailInv, MarksInv
<1>19. DownInv'
  BY <1>1, <1>15 DEF TailInv, DownInv
<1> QED BY <1>5, <1>6, <1>10, <1>11, <1>13, <1>14, <1>18, <1>19 DEF TailInv

\* A truncation takes only lines the checkpoint covers, from a file at the path:
\* a handle past the new end notices, and a mark past it is no longer valid.
LEMMA TruncateKeeps == ASSUME TailInv, T!Truncate, UNCHANGED agent PROVE TailInv'
<1>1. /\ pc # "down" /\ live # 0 /\ writer = live /\ half = 0
      /\ \A k \in DOMAIN lines[live] : lines[live][k] \in covered
      /\ lines' = [lines EXCEPT ![live] = <<>>]
      /\ UNCHANGED <<half, live, siblings, writer, created, written>>
      /\ UNCHANGED <<pc, draining, current, read, marks, covered, lost>>
  BY DEF T!Truncate, T!Range, agent
<1>2. live \in 1..MaxFiles /\ live = created
  BY <1>1, TailTyped DEF TailInv, WorldInv
<1>3. /\ lines' \in [1..MaxFiles -> Seq(1..written)]
      /\ lines'[live] = <<>> /\ DOMAIN lines'[live] = {} /\ Len(lines'[live]) = 0
      /\ \A i \in 1..MaxFiles : i # live => lines'[i] = lines[i]
  <2>1. lines \in [1..MaxFiles -> Seq(1..written)]
    BY DEF TailInv, WorldInv
  <2>2. <<>> \in Seq(1..written) /\ DOMAIN <<>> = {} /\ Len(<<>>) = 0
    BY EmptySeq
  <2>3. lines'[live] = <<>> /\ \A i \in 1..MaxFiles : i # live => lines'[i] = lines[i]
    BY <1>1, <1>2, <2>1
  <2>4. lines' \in [1..MaxFiles -> Seq(1..written)]
    BY <1>1, <2>1, <2>2
  <2> QED BY <2>2, <2>3, <2>4
<1>4. \A i \in 1..MaxFiles : \A k \in DOMAIN lines'[i] : i # live /\ lines'[i] = lines[i]
  BY <1>3
<1>5. WorldInv'
  <2>1. \A i, j \in 1..MaxFiles : i < j =>
          \A k \in DOMAIN lines'[i], l \in DOMAIN lines'[j] : lines'[i][k] < lines'[j][l]
    BY <1>4 DEF TailInv, WorldInv
  <2>2. \A i \in 1..MaxFiles : \A k, l \in DOMAIN lines'[i] : k < l => lines'[i][k] < lines'[i][l]
    BY <1>4 DEF TailInv, WorldInv
  <2>3. \A i \in 1..MaxFiles : i > created => lines'[i] = <<>>
    BY <1>2, <1>3 DEF TailInv, WorldInv
  <2> QED BY <1>1, <1>3, <2>1, <2>2, <2>3 DEF TailInv, WorldInv
<1>6. Home'
  <2> SUFFICES ASSUME NEW n \in 1..written, n \notin covered
               PROVE  \E i \in 1..MaxFiles : \E k \in DOMAIN lines'[i] : lines'[i][k] = n
    BY <1>1 DEF Home
  <2>1. PICK i \in 1..MaxFiles : \E k \in DOMAIN lines[i] : lines[i][k] = n
    BY DEF TailInv, Home
  <2>2. i # live
    BY <1>1, <2>1
  <2> QED BY <1>3, <2>1, <2>2
<1>7. DrainingInv'
  <2>1. \A d \in DOMAIN draining : draining[d].off <= Len(lines'[draining[d].ino])
    BY <1>3, TailTyped DEF TailInv, DrainingInv
  <2> QED BY <1>1, <2>1 DEF TailInv, DrainingInv
<1>8. ASSUME current.ino # 0, current.ino # live PROVE Cut(current)' <=> Cut(current)
  BY <1>1, <1>3, <1>8, TailTyped DEF Cut, T!Size
<1>9. CurrentInv'
  <2>1. ASSUME current.ino # 0
        PROVE  current.off <= Len(lines'[current.ino]) \/ (Cut(current)' /\ current.ino = live)
    <3>1. CASE current.ino = live
      <4>1. T!Size(current.ino)' = 0
        <5>1. T!Size(current.ino)' = Len(lines'[current.ino]) + 0
          BY <1>1, <2>1 DEF T!Size
        <5> QED BY <1>3, <3>1, <5>1
      <4>2. current.off > 0 => Cut(current)'
        BY <1>1, <4>1 DEF Cut
      <4> QED BY <1>3, <3>1, <4>2, TailTyped
    <3>2. CASE current.ino # live
      BY <1>3, <2>1, <3>2, TailTyped DEF TailInv, CurrentInv
    <3> QED BY <3>1, <3>2
  <2> QED BY <1>1, <2>1 DEF TailInv, CurrentInv
<1>10. \A i \in 1..MaxFiles : \A k \in DOMAIN lines'[i] :
         (Coming(i, k)' <=> Coming(i, k)) /\ (Marked(i, k)' <=> Marked(i, k))
  BY <1>1, <1>4, <1>8 DEF Coming, Marked
<1>11. NothingSkipped'
  BY <1>1, <1>4, <1>10 DEF TailInv, NothingSkipped, T!Seen
<1>12. ReadInv'
  BY <1>1, <1>4, <1>10 DEF TailInv, ReadInv, T!InOrder
<1>13. Valid' => Valid
  <2> SUFFICES ASSUME Valid', NEW m \in DOMAIN marks, NEW k \in 1..marks[m].off
               PROVE  k \in DOMAIN lines[marks[m].ino] /\ lines[marks[m].ino][k] \in covered
    BY DEF Valid
  <2>1. k \in DOMAIN lines'[marks[m].ino] /\ lines'[marks[m].ino][k] \in covered
    BY <1>1 DEF Valid
  <2> QED BY <1>4, <2>1, TailTyped
<1>14. MarksInv'
  BY <1>1, <1>4, <1>10, <1>13 DEF TailInv, MarksInv
<1>15. DownInv'
  BY <1>1 DEF TailInv, DownInv
<1> QED BY <1>5, <1>6, <1>7, <1>9, <1>11, <1>12, <1>14, <1>15 DEF TailInv

\* The writer and the rotation tool, between any two system calls of the agent.
LEMMA WorldKeeps == ASSUME TailInv, T!World PROVE TailInv'
<1>1. UNCHANGED agent
  BY DEF T!World, T!handles, T!recorded, agent
<1> QED BY <1>1, WriteHalfKeeps, WriteRestKeeps, RenameKeeps, CreateKeeps, WriterKeeps, TruncateKeeps
        DEF T!World

(***************************************************************************)
(* next_line                                                               *)
(***************************************************************************)

\* The files and the checkpoint, which next_line leaves alone.
stable == <<lines, half, live, siblings, writer, created, written, marks, covered, lost>>

LEMMA StableKeeps ==
  ASSUME TailInv, UNCHANGED stable
  PROVE  /\ WorldInv' /\ Home' /\ MarksInv'
         /\ \A h : Cut(h)' <=> Cut(h')
         /\ \A i : T!Size(i)' = T!Size(i)
<1>1. WorldInv' /\ Home'
  BY DEF TailInv, WorldInv, Home, stable
<1>2. Valid' <=> Valid
  BY DEF Valid, stable
<1>3. MarksInv'
  BY <1>2 DEF TailInv, MarksInv, Marked, stable
<1>4. \A i : T!Size(i)' = T!Size(i)
  BY DEF T!Size, stable
<1> QED BY <1>1, <1>3, <1>4 DEF Cut

\* A step that returns no line and changes nothing of what is coming.
LEMMA QuietStep ==
  ASSUME TailInv, UNCHANGED <<stable, read>>, DrainingInv', CurrentInv',
         pc # "down", pc' \in {"drain", "rotation", "open", "drain_again", "live"},
         \A i \in 1..MaxFiles : \A k \in DOMAIN lines[i] : Coming(i, k)' <=> Coming(i, k)
  PROVE  TailInv'
<1>1. WorldInv' /\ Home' /\ MarksInv'
  BY StableKeeps
<1>2. NothingSkipped' /\ ReadInv'
  BY DEF TailInv, NothingSkipped, ReadInv, T!Seen, T!InOrder, stable
<1>3. DownInv'
  BY DEF DownInv
<1> QED BY <1>1, <1>2, <1>3 DEF TailInv

\* A step that returns the first line that is coming.
LEMMA ReadStep ==
  ASSUME TailInv, UNCHANGED stable, DrainingInv', CurrentInv', pc # "down", pc' = "drain",
         NEW f \in 1..MaxFiles, NEW l \in DOMAIN lines[f], read' = Append(read, lines[f][l]),
         Coming(f, l),
         \A i \in 1..MaxFiles : \A k \in DOMAIN lines[i] :
           /\ Coming(i, k)' => Coming(i, k) /\ lines[f][l] < lines[i][k]
           /\ Coming(i, k) => Coming(i, k)' \/ (i = f /\ k = l)
  PROVE  TailInv'
<1> DEFINE n == lines[f][l]
<1>1. WorldInv' /\ Home' /\ MarksInv'
  BY StableKeeps
<1>2. n \in 1..written /\ read \in Seq(1..written) /\ written \in Nat
  BY ElementOfSeq, LenProperties, TailTyped DEF TailInv, WorldInv, ReadInv
<1>3. /\ read' \in Seq(1..written) /\ Len(read) \in Nat
      /\ DOMAIN read = 1..Len(read) /\ DOMAIN read' = 1..(Len(read) + 1)
      /\ \A j \in DOMAIN read : read'[j] = read[j] /\ read[j] \in 1..written
      /\ read'[Len(read) + 1] = n
  BY <1>2, AppendProperties, LenProperties, ElementOfSeq
<1>4. \A j \in DOMAIN read' : (j \in DOMAIN read /\ read'[j] = read[j]) \/ (j = Len(read) + 1 /\ read'[j] = n)
  BY <1>3
<1>5. T!Seen' = T!Seen \cup {n}
  <2>1. T!Range(read') = T!Range(read) \cup {n}
    BY <1>3 DEF T!Range
  <2> QED BY <2>1 DEF T!Seen, stable
<1> HIDE DEF n
<1>6. NothingSkipped'
  <2> SUFFICES ASSUME NEW i \in 1..MaxFiles, NEW k \in DOMAIN lines[i]
               PROVE  Coming(i, k)' \/ lines[i][k] \in T!Seen' \cup lost
    BY DEF NothingSkipped, stable
  <2>1. CASE i = f /\ k = l
    BY <1>5, <2>1 DEF n
  <2>2. CASE ~(i = f /\ k = l)
    BY <1>5, <2>2 DEF TailInv, NothingSkipped
  <2> QED BY <2>1, <2>2
<1>7. \A j \in DOMAIN read : read[j] < n
  BY DEF TailInv, ReadInv, n
<1>8. ReadInv'
  <2>1. T!InOrder'
    <3> SUFFICES ASSUME NEW a \in DOMAIN read', NEW b \in DOMAIN read', a < b
                 PROVE  read'[a] < read'[b]
      BY DEF T!InOrder
    <3>1. a \in DOMAIN read /\ read'[a] = read[a]
      BY <1>3
    <3> QED BY <1>4, <1>7, <3>1 DEF TailInv, ReadInv, T!InOrder
  <2>2. ASSUME NEW j \in DOMAIN read', NEW i \in 1..MaxFiles, NEW k \in DOMAIN lines[i], Coming(i, k)'
        PROVE  read'[j] < lines[i][k]
    <3>1. Coming(i, k) /\ n < lines[i][k]
      BY <2>2 DEF n
    <3>2. CASE j \in DOMAIN read /\ read'[j] = read[j]
      BY <3>1, <3>2 DEF TailInv, ReadInv
    <3> QED BY <1>4, <3>1, <3>2
  <2> QED BY <1>3, <2>1, <2>2 DEF ReadInv, stable
<1>9. DownInv'
  BY DEF DownInv
<1> QED BY <1>1, <1>6, <1>8, <1>9 DEF TailInv
\* What may be said of the file at the front of those being drained.
LEMMA FrontTyped ==
  ASSUME TailInv, draining # <<>>
  PROVE  /\ draining \in Seq(Handle) /\ Len(draining) \in Nat \ {0}
         /\ DOMAIN draining = 1..Len(draining) /\ 1 \in DOMAIN draining
         /\ Head(draining) = draining[1] /\ Head(draining) \in Handle
         /\ Tail(draining) \in Seq(Handle) /\ DOMAIN Tail(draining) = 1..(Len(draining) - 1)
         /\ \A d \in 1..(Len(draining) - 1) : Tail(draining)[d] = draining[d + 1]
<1>1. draining \in Seq(Handle)
  BY DEF TailInv, DrainingInv
<1> QED BY <1>1, EmptySeq, LenProperties, HeadTailProperties

LEMMA DrainDropKeeps == ASSUME TailInv, T!DrainDrop, UNCHANGED stable PROVE TailInv'
<1>1. /\ pc \in {"drain", "drain_again"} /\ draining # <<>> /\ ~T!HasLine(Head(draining))
      /\ draining' = Tail(draining) /\ UNCHANGED <<pc, current, read>>
  BY DEF T!DrainDrop
<1>2. draining[1].off = Len(lines[draining[1].ino])
  <2>1. /\ draining[1].ino \in 1..MaxFiles /\ draining[1].off \in Nat
        /\ draining[1].off <= Len(lines[draining[1].ino])
        /\ Len(lines[draining[1].ino]) \in Nat
    BY <1>1, FrontTyped, TailTyped DEF TailInv, DrainingInv
  <2> QED BY <1>1, <2>1, FrontTyped DEF T!HasLine
<1>3. \A d \in DOMAIN draining' : d + 1 \in DOMAIN draining /\ draining'[d] = draining[d + 1]
  BY <1>1, FrontTyped
<1>4. \A d \in DOMAIN draining : d # 1 => d - 1 \in DOMAIN draining' /\ draining'[d - 1] = draining[d]
  BY <1>1, FrontTyped
<1>5. DrainingInv'
  <2>1. \A c, d \in DOMAIN draining' : c < d => draining'[c].ino < draining'[d].ino
    BY <1>1, <1>3, FrontTyped DEF TailInv, DrainingInv
  <2> QED BY <1>1, <1>3, <2>1, FrontTyped DEF TailInv, DrainingInv, stable
<1>6. CurrentInv'
  BY <1>1, StableKeeps DEF TailInv, CurrentInv, stable
<1>7. ASSUME NEW i \in 1..MaxFiles, NEW k \in DOMAIN lines[i]
      PROVE  Coming(i, k)' <=> Coming(i, k)
  <2>1. ~(draining[1].ino = i /\ k > draining[1].off)
    BY <1>2, TailTyped
  <2>2. (\E d \in DOMAIN draining' : draining'[d].ino = i /\ k > draining'[d].off)
          <=> (\E d \in DOMAIN draining : draining[d].ino = i /\ k > draining[d].off)
    BY <1>3, <1>4, <2>1
  <2> QED BY <1>1, <2>2, StableKeeps DEF Coming, stable
<1> QED BY <1>1, <1>5, <1>6, <1>7, QuietStep

\* The two files are looked at and nothing is found to do.
LEMMA LookKeeps ==
  ASSUME TailInv, T!DrainEnd \/ T!Unrotated \/ T!LiveNone, UNCHANGED stable
  PROVE  TailInv'
<1>1. /\ pc # "down" /\ pc' \in {"drain", "rotation", "drain_again", "live"}
      /\ pc' \in {"rotation", "live"} => draining = <<>>
      /\ UNCHANGED <<draining, current, read>>
  BY DEF T!DrainEnd, T!Unrotated, T!LiveNone, T!handles
<1>2. DrainingInv'
  BY <1>1 DEF TailInv, DrainingInv, stable
<1>3. CurrentInv'
  BY <1>1, StableKeeps DEF TailInv, CurrentInv, stable
<1>4. \A i \in 1..MaxFiles : \A k \in DOMAIN lines[i] : Coming(i, k)' <=> Coming(i, k)
  BY <1>1, StableKeeps DEF Coming, stable
<1> QED BY <1>1, <1>2, <1>3, <1>4, QuietStep

\* A truncated file is still at the path, and will be opened again.
LEMMA TruncatedKeeps == ASSUME TailInv, T!Truncated, UNCHANGED stable PROVE TailInv'
<1>1. /\ pc = "rotation" /\ current # T!NoFile /\ current.off > T!Size(current.ino)
      /\ current' = T!NoFile /\ pc' = "open" /\ UNCHANGED <<draining, read>>
  BY DEF T!Truncated
<1>2. current.ino \in 1..MaxFiles /\ T!NoFile.ino = 0 /\ T!NoFile.off = 0
  BY <1>1 DEF TailInv, CurrentInv, Handle, T!NoFile
<1>3. Cut(current) /\ current.ino = live
  BY <1>1, <1>2, TailTyped DEF TailInv, CurrentInv, Cut
<1>4. DrainingInv'
  BY <1>1, <1>2 DEF TailInv, DrainingInv, stable
<1>5. CurrentInv'
  <2>1. writer \in {0, live}
    BY <1>1, <1>2, <1>3 DEF TailInv, CurrentInv, WorldInv
  <2> QED BY <1>1, <1>2, <2>1, TailTyped DEF CurrentInv, stable
<1>6. \A i \in 1..MaxFiles : \A k \in DOMAIN lines[i] : Coming(i, k)' <=> Coming(i, k)
  BY <1>1, <1>2, <1>3 DEF Coming, stable
<1> QED BY <1>1, <1>4, <1>5, <1>6, QuietStep

\* The old file, which has left the path, is drained before the new one is read.
LEMMA RotatedKeeps == ASSUME TailInv, T!Rotated, UNCHANGED stable PROVE TailInv'
<1>1. /\ pc = "rotation" /\ current # T!NoFile /\ current.off <= T!Size(current.ino)
      /\ live \notin {0, current.ino}
      /\ draining' = IF current.off < T!Size(current.ino) THEN Append(draining, current) ELSE draining
      /\ current' = T!NoFile /\ pc' = "open" /\ UNCHANGED read
  BY DEF T!Rotated
<1>2. /\ draining = <<>> /\ current \in Handle /\ current.ino \in 1..MaxFiles
      /\ T!NoFile.ino = 0 /\ T!NoFile.off = 0
  BY <1>1 DEF TailInv, CurrentInv, Handle, T!NoFile
<1>3. /\ ~Cut(current) /\ current.off <= Len(lines[current.ino])
  BY <1>1, <1>2, TailTyped DEF TailInv, CurrentInv, Cut
<1>4. writer \in {0, live} /\ current.ino <= created /\ writer # current.ino
  BY <1>1, <1>2 DEF TailInv, CurrentInv, WorldInv
<1>5. CASE current.off < T!Size(current.ino)
  <2>1. draining' = <<current>>
    BY <1>1, <1>2, <1>5
  <2>2. DrainingInv'
    BY <1>1, <1>2, <1>3, <1>4, <2>1 DEF DrainingInv, stable
  <2>3. ASSUME NEW i \in 1..MaxFiles, NEW k \in DOMAIN lines[i]
        PROVE  Coming(i, k)' <=> Coming(i, k)
    <3>1. DOMAIN draining' = {1} /\ draining'[1] = current /\ DOMAIN draining = {}
      BY <1>2, <2>1
    <3>2. Coming(i, k) <=> (current.ino = i /\ k > current.off) \/ i = live
      BY <1>1, <1>3, <3>1 DEF Coming
    <3>3. Coming(i, k)' <=> (current.ino = i /\ k > current.off) \/ i = live
      BY <1>1, <1>2, <3>1 DEF Coming, stable
    <3> QED BY <3>2, <3>3
  <2>4. CurrentInv'
    BY <1>1, <1>2, <1>4, TailTyped DEF CurrentInv, stable
  <2> QED BY <1>1, <2>2, <2>3, <2>4, QuietStep
<1>6. CASE ~(current.off < T!Size(current.ino))
  <2>1. draining' = <<>> /\ current.off = Len(lines[current.ino])
    BY <1>1, <1>2, <1>3, <1>6, TailTyped
  <2>2. DrainingInv'
    BY <1>2, <2>1, EmptySeq DEF TailInv, DrainingInv
  <2>3. \A i \in 1..MaxFiles : \A k \in DOMAIN lines[i] : Coming(i, k)' <=> Coming(i, k)
    BY <1>1, <1>2, <1>3, <2>1, TailTyped DEF Coming, stable
  <2>4. CurrentInv'
    BY <1>1, <1>2, <1>4, TailTyped DEF CurrentInv, stable
  <2> QED BY <1>1, <2>2, <2>3, <2>4, QuietStep
<1> QED BY <1>5, <1>6

\* Whatever is at the path by now is opened at its start.
LEMMA OpenLiveKeeps == ASSUME TailInv, T!OpenLive, UNCHANGED stable PROVE TailInv'
<1>1. /\ pc \in {"open", "rotation"} /\ current = T!NoFile
      /\ current' = IF live = 0 THEN T!NoFile ELSE T!At(live, 0)
      /\ pc' = "drain_again" /\ UNCHANGED <<draining, read>>
  BY DEF T!OpenLive, TailInv, CurrentInv
<1>2. T!NoFile.ino = 0 /\ T!NoFile.off = 0 /\ writer \in {0, live} /\ live \in {0, created}
  BY <1>1 DEF TailInv, CurrentInv, WorldInv, T!NoFile
<1>3. live # 0 => current' = [ino |-> live, off |-> 0] /\ live \in 1..MaxFiles
  <2> SUFFICES ASSUME live # 0 PROVE current' = [ino |-> live, off |-> 0] /\ live \in 1..MaxFiles
    OBVIOUS
  <2>1. live \in 1..MaxFiles /\ T!Size(live) \in Nat
    BY TailTyped
  <2> QED BY <1>1, <2>1 DEF T!At
<1>4. CurrentInv'
  <2>1. CASE live = 0
    BY <1>1, <1>2, <2>1, TailTyped DEF CurrentInv, stable
  <2>2. CASE live # 0
    <3>1. current' \in Handle /\ current'.ino = live /\ current'.off = 0
      BY <1>3, <2>2 DEF Handle
    <3> QED BY <1>1, <1>2, <1>3, <2>2, <3>1, TailTyped DEF CurrentInv, stable
  <2> QED BY <2>1, <2>2
<1>5. DrainingInv'
  <2>1. \A d \in DOMAIN draining : live # 0 => draining[d].ino < live
    BY <1>2, TailTyped DEF TailInv, DrainingInv
  <2>2. current'.ino \in {0, live}
    BY <1>1, <1>2, <1>3
  <2> QED BY <1>1, <2>1, <2>2 DEF TailInv, DrainingInv, stable
<1>6. \A i \in 1..MaxFiles : \A k \in DOMAIN lines[i] : Coming(i, k)' <=> Coming(i, k)
  <2> SUFFICES ASSUME NEW i \in 1..MaxFiles, NEW k \in DOMAIN lines[i]
               PROVE  Coming(i, k)' <=> Coming(i, k)
    OBVIOUS
  <2>1. k \in Nat /\ k > 0
    BY TailTyped
  <2>2. CASE live = 0
    BY <1>1, <1>2, <2>2 DEF Coming, stable
  <2>3. CASE live # 0
    BY <1>1, <1>2, <1>3, <2>1, <2>3 DEF Coming, stable
  <2> QED BY <2>2, <2>3
<1> QED BY <1>1, <1>4, <1>5, <1>6, QuietStep

\* The rotated files come first, and of them the first.
LEMMA DrainLineKeeps == ASSUME TailInv, T!DrainLine, UNCHANGED stable PROVE TailInv'
<1> DEFINE h == draining[1]
           g == [h EXCEPT !.off = h.off + 1]
<1>1. /\ pc \in {"drain", "drain_again"} /\ draining # <<>> /\ T!HasLine(h)
      /\ read' = Append(read, lines[h.ino][h.off + 1])
      /\ draining' = <<g>> \o Tail(draining) /\ pc' = "drain" /\ current' = current
  BY FrontTyped DEF T!DrainLine, T!Returns, T!Advanced
<1>2. /\ h \in Handle /\ h.ino \in 1..MaxFiles /\ h.off \in Nat /\ h.off + 1 \in DOMAIN lines[h.ino]
      /\ h.off + 1 <= Len(lines[h.ino])
  <2>1. h \in Handle /\ h.ino \in 1..MaxFiles /\ h.off \in Nat
    BY <1>1, FrontTyped DEF Handle
  <2>2. h.off < Len(lines[h.ino])
    BY <1>1 DEF T!HasLine
  <2> HIDE DEF h
  <2>3. Len(lines[h.ino]) \in Nat /\ DOMAIN lines[h.ino] = 1..Len(lines[h.ino])
    BY <2>1, LinesTyped
  <2> QED BY <2>1, <2>2, <2>3
<1>3. g \in Handle /\ g.ino = h.ino /\ g.off = h.off + 1
  BY <1>2 DEF Handle
<1>4. /\ draining' \in Seq(Handle) /\ DOMAIN draining' = DOMAIN draining
      /\ draining'[1] = g /\ \A d \in DOMAIN draining : d # 1 => draining'[d] = draining[d]
  <2> DEFINE s == <<g>>
             t == Tail(draining)
  <2>1. s \in Seq(Handle) /\ Len(s) = 1 /\ s[1] = g
    BY <1>3
  <2>2. /\ t \in Seq(Handle) /\ Len(t) = Len(draining) - 1 /\ Len(draining) \in Nat \ {0}
        /\ DOMAIN draining = 1..Len(draining)
        /\ \A d \in 1..(Len(draining) - 1) : t[d] = draining[d + 1]
    BY <1>1, FrontTyped, LenProperties
  <2> HIDE DEF s, t, g, h
  <2>3. /\ s \o t \in Seq(Handle) /\ Len(s \o t) = Len(s) + Len(t)
        /\ \A d \in 1..(Len(s) + Len(t)) :
             (s \o t)[d] = IF d <= Len(s) THEN s[d] ELSE t[d - Len(s)]
    BY <2>1, <2>2, ConcatProperties
  <2>4. Len(s \o t) = Len(draining) /\ DOMAIN (s \o t) = 1..Len(draining)
    BY <2>1, <2>2, <2>3, LenProperties
  <2>5. (s \o t)[1] = g
    BY <2>1, <2>2, <2>3
  <2>6. \A d \in 1..Len(draining) : d # 1 => (s \o t)[d] = draining[d]
    <3> SUFFICES ASSUME NEW d \in 1..Len(draining), d # 1 PROVE (s \o t)[d] = draining[d]
      OBVIOUS
    <3>1. d - 1 \in 1..(Len(draining) - 1) /\ ~(d <= 1) /\ d \in 1..(Len(s) + Len(t))
      BY <2>1, <2>2
    <3>2. (s \o t)[d] = t[d - 1]
      BY <2>1, <2>3, <3>1
    <3>3. t[d - 1] = draining[(d - 1) + 1]
      BY <2>2, <3>1
    <3> QED BY <2>2, <3>2, <3>3
  <2> QED BY <1>1, <2>2, <2>3, <2>4, <2>5, <2>6 DEF s, t
<1> HIDE DEF g, h
<1>5. \A d \in DOMAIN draining : draining'[d].ino = draining[d].ino
  BY <1>3, <1>4 DEF h
<1>6. DrainingInv'
  <2>1. \A d \in DOMAIN draining : draining'[d].off <= Len(lines[draining[d].ino])
    BY <1>2, <1>3, <1>4 DEF h, TailInv, DrainingInv
  <2> QED BY <1>1, <1>4, <1>5, <2>1 DEF TailInv, DrainingInv, stable
<1>7. CurrentInv'
  BY <1>1, StableKeeps DEF TailInv, CurrentInv, stable
<1>8. 1 \in DOMAIN draining /\ \A d \in DOMAIN draining : d # 1 => h.ino < draining[d].ino
  BY <1>1, FrontTyped DEF h, TailInv, DrainingInv
<1>9. Coming(h.ino, h.off + 1)
  BY <1>2, <1>8 DEF Coming, h
<1>10. ASSUME NEW i \in 1..MaxFiles, NEW k \in DOMAIN lines[i], Coming(i, k)'
       PROVE  Coming(i, k) /\ lines[h.ino][h.off + 1] < lines[i][k]
  <2>1. CASE \E d \in DOMAIN draining' : draining'[d].ino = i /\ k > draining'[d].off
    <3>1. PICK d \in DOMAIN draining : draining[d].ino = i /\ k > draining'[d].off
      BY <1>4, <1>5, <2>1
    <3>2. CASE d = 1
      <4>1. i = h.ino /\ k > h.off + 1 /\ k \in Nat
        <5>1. draining'[d].off = h.off + 1
          BY <1>3, <1>4, <3>2
        <5>2. k \in Nat
          BY LinesTyped
        <5> QED BY <3>1, <3>2, <5>1, <5>2 DEF h
      <4>2. k > h.off
        BY <1>2, <4>1
      <4> QED BY <1>2, <1>8, <4>1, <4>2 DEF Coming, h, TailInv, WorldInv
    <3>3. CASE d # 1
      <4>1. h.ino < i /\ k > draining[d].off
        BY <1>4, <1>8, <3>1, <3>3
      <4> QED BY <1>2, <3>1, <4>1 DEF Coming, TailInv, WorldInv
    <3> QED BY <3>2, <3>3
  <2>2. CASE current.ino = i /\ (k > current.off \/ Cut(current))
    <3>1. h.ino < i
      BY <1>8, <2>2 DEF h, TailInv, DrainingInv
    <3> QED BY <1>2, <2>2, <3>1 DEF Coming, TailInv, WorldInv
  <2>3. CASE i = live /\ i # current.ino
    <3>1. h.ino < i
      <4>1. h.ino <= created /\ h.ino # live
        BY <1>8 DEF h, TailInv, DrainingInv
      <4>2. i = created
        BY <2>3 DEF TailInv, WorldInv
      <4> QED BY <1>2, <2>3, <4>1, <4>2
    <3> QED BY <1>2, <2>3, <3>1 DEF Coming, TailInv, WorldInv
  <2> QED BY <1>1, <1>10, <2>1, <2>2, <2>3, StableKeeps DEF Coming, stable
<1>11. ASSUME NEW i \in 1..MaxFiles, NEW k \in DOMAIN lines[i], Coming(i, k)
       PROVE  Coming(i, k)' \/ (i = h.ino /\ k = h.off + 1)
  <2>1. CASE \E d \in DOMAIN draining : draining[d].ino = i /\ k > draining[d].off
    <3>1. PICK d \in DOMAIN draining : draining[d].ino = i /\ k > draining[d].off
      BY <2>1
    <3>2. d = 1 => k > g.off \/ k = h.off + 1
      <4> SUFFICES ASSUME d = 1 PROVE k > g.off \/ k = h.off + 1
        OBVIOUS
      <4>1. k > h.off /\ k \in Nat
        BY <3>1, TailTyped DEF h
      <4> QED BY <1>2, <1>3, <4>1
    <3> QED BY <1>3, <1>4, <1>5, <3>1, <3>2 DEF Coming, h
  <2>2. CASE ~(\E d \in DOMAIN draining : draining[d].ino = i /\ k > draining[d].off)
    BY <1>1, <1>11, <2>2, StableKeeps DEF Coming, stable
  <2> QED BY <2>1, <2>2
<1> QED
  <2> DEFINE f == h.ino
             l == h.off + 1
  <2>1. f \in 1..MaxFiles /\ l \in DOMAIN lines[f] /\ read' = Append(read, lines[f][l]) /\ Coming(f, l)
    BY <1>1, <1>2, <1>9
  <2>2. \A i \in 1..MaxFiles : \A k \in DOMAIN lines[i] :
           /\ Coming(i, k)' => Coming(i, k) /\ lines[f][l] < lines[i][k]
           /\ Coming(i, k) => Coming(i, k)' \/ (i = f /\ k = l)
    BY <1>10, <1>11
  <2> HIDE DEF f, l
  <2> QED BY <1>1, <1>6, <1>7, <2>1, <2>2, ReadStep

\* Then the current one.
LEMMA LiveLineKeeps == ASSUME TailInv, T!LiveLine, UNCHANGED stable PROVE TailInv'
<1> DEFINE f == current.ino
           l == current.off + 1
<1>1. /\ pc = "live" /\ T!HasLine(current) /\ read' = Append(read, lines[f][l])
      /\ current' = [current EXCEPT !.off = l] /\ pc' = "drain" /\ draining' = draining
  BY DEF T!LiveLine, T!Returns, T!Advanced
<1>2. draining = <<>> /\ DOMAIN draining = {}
  <2>1. draining = <<>>
    BY <1>1 DEF TailInv, CurrentInv
  <2> QED BY <2>1
<1>3. f \in 1..MaxFiles /\ current.off \in Nat /\ l \in DOMAIN lines[f] /\ l <= Len(lines[f])
  <2>1. f # 0 /\ current.off < Len(lines[f])
    BY <1>1 DEF T!HasLine
  <2>2. f \in 1..MaxFiles
    BY <2>1, TailTyped
  <2> QED BY <2>1, <2>2, TailTyped
<1>4. current \in Handle
  BY <1>3 DEF TailInv, CurrentInv, T!NoFile
<1>5. current' \in Handle /\ current'.ino = f /\ current'.off = l
  BY <1>1, <1>3, <1>4 DEF Handle
<1>6. ~Cut(current) /\ ~Cut(current')
  BY <1>3, <1>5, TailTyped, StableKeeps DEF Cut
<1>7. DrainingInv' /\ CurrentInv'
  <2>1. DrainingInv'
    BY <1>1, <1>2, EmptySeq DEF TailInv, DrainingInv
  <2>2. CurrentInv'
    BY <1>1, <1>2, <1>3, <1>5 DEF TailInv, CurrentInv, stable
  <2> QED BY <2>1, <2>2
<1>8. ASSUME NEW i \in 1..MaxFiles, NEW k \in DOMAIN lines[i]
      PROVE  /\ Coming(i, k) <=> (f = i /\ k > current.off) \/ (i = live /\ i # f)
             /\ Coming(i, k)' <=> (f = i /\ k > l) \/ (i = live /\ i # f)
  <2>1. ~Cut(current)'
    BY <1>6, StableKeeps
  <2>2. Coming(i, k)' <=> (f = i /\ k > l) \/ (i = live /\ i # f)
    BY <1>1, <1>2, <1>5, <2>1 DEF Coming, stable
  <2> QED BY <1>2, <1>6, <2>2 DEF Coming
<1>9. ASSUME NEW i \in 1..MaxFiles, NEW k \in DOMAIN lines[i]
      PROVE  /\ Coming(i, k)' => Coming(i, k) /\ lines[f][l] < lines[i][k]
             /\ Coming(i, k) => Coming(i, k)' \/ (i = f /\ k = l)
  <2>1. k \in Nat
    BY LinesTyped
  <2>2. i = live /\ i # f => f < i
    <3>1. f <= created /\ live \in {0, created}
      BY DEF TailInv, CurrentInv, WorldInv
    <3>2. f \in Nat /\ created \in Nat
      BY TailTyped
    <3> QED BY <3>1, <3>2
  <2>3. i = live /\ i # f => lines[f][l] < lines[i][k]
    BY <1>3, <2>2 DEF TailInv, WorldInv
  <2>4. f = i /\ k > l => lines[f][l] < lines[i][k]
    BY <1>3 DEF TailInv, WorldInv
  <2>5. f = i /\ k > l => k > current.off
    BY <1>3, <2>1
  <2>6. f = i /\ k > current.off => k > l \/ k = l
    BY <1>3, <2>1
  <2> QED BY <1>8, <2>3, <2>4, <2>5, <2>6
<1>10. Coming(f, l)
  BY <1>3, <1>8
<1> HIDE DEF f, l
<1> QED BY <1>1, <1>3, <1>7, <1>9, <1>10, ReadStep

(***************************************************************************)
(* resume and the checkpoint                                               *)
(***************************************************************************)

\* The positions of a sequence can be listed in order.
LEMMA ListsExist ==
  ASSUME NEW n \in Nat, NEW S \in SUBSET (1..n)
  PROVE  S \in Finite /\ \E s : Lists(s, S)
<1> DEFINE U(k) == S \cap (1..k)
           bad == {k \in 0..n : ~ \E s : Lists(s, U(k))}
<1>1. \A k \in 0..n : U(k) \in Finite /\ \A x \in U(k) : x <= k
  <2> SUFFICES ASSUME NEW k \in 0..n PROVE U(k) \in Finite
    OBVIOUS
  <2>1. IsFiniteSet(1..k)
    BY FS_Interval, 1 \in Int, k \in Int
  <2>2. IsFiniteSet(U(k))
    BY <2>1, FS_Subset
  <2> QED BY <2>2 DEF Finite
<1>2. bad = {}
  <2> SUFFICES ASSUME bad # {} PROVE FALSE
    OBVIOUS
  <2>1. PICK m \in bad : \A k \in bad : m <= k
    <3>1. bad \in SUBSET Nat
      OBVIOUS
    <3> HIDE DEF bad
    <3> QED BY <3>1, LeastNumber
  <2>2. U(0) = {} /\ \E s : Lists(s, U(0))
    BY ListsNone
  <2>3. m \in 1..n /\ m - 1 \in 0..n /\ m - 1 \notin bad
    <3>1. m \in 0..n /\ 0 \in 0..n
      OBVIOUS
    <3>2. m # 0
      <4>1. 0 \notin bad
        BY <2>2
      <4> QED BY <4>1
    <3>3. m \in 1..n /\ m - 1 \in 0..n /\ ~(m <= m - 1)
      BY <3>1, <3>2
    <3> HIDE DEF bad
    <3> QED BY <2>1, <3>3
  <2>4. PICK s : Lists(s, U(m - 1))
    BY <2>3
  <2>5. CASE m \in S
    <3>1. U(m) = U(m - 1) \cup {m} /\ \A x \in U(m - 1) : x < m
      BY <2>3, <2>5
    <3>2. U(m - 1) \in Finite /\ m \in Nat
      BY <1>1, <2>3
    <3> HIDE DEF U
    <3>3. Lists(Append(s, m), U(m - 1) \cup {m})
      BY <2>4, <3>1, <3>2, ListsAppend
    <3> QED BY <2>1, <3>1, <3>3
  <2>6. CASE m \notin S
    <3>1. U(m) = U(m - 1)
      BY <2>3, <2>6
    <3> QED BY <2>1, <2>4, <3>1
  <2> QED BY <2>5, <2>6
<1>3. U(n) = S /\ n \in 0..n
  <2>1. n \in 0..n
    OBVIOUS
  <2>2. S \cap (1..n) = S
    BY Zenon
  <2> QED BY <2>1, <2>2
<1> QED BY <1>1, <1>2, <1>3

\* Picked takes the elements at the positions, in their order, and no others.
LEMMA PickedKeeps ==
  ASSUME NEW X, NEW hs \in Seq(X), NEW at \in SUBSET (DOMAIN hs)
  PROVE  \E pos : /\ pos \in [1..Cardinality(at) -> at] /\ Cardinality(at) \in Nat
                  /\ \A i, j \in 1..Cardinality(at) : i < j => pos[i] < pos[j]
                  /\ \A x \in at : \E i \in 1..Cardinality(at) : pos[i] = x
                  /\ T!Picked(hs, at) = [i \in 1..Cardinality(at) |-> hs[pos[i]]]
                  /\ T!Picked(hs, at) \in Seq(X)
<1>1. DOMAIN hs = 1..Len(hs) /\ Len(hs) \in Nat /\ \A d \in DOMAIN hs : hs[d] \in X
  BY LenProperties, ElementOfSeq
<1>2. at \in Finite /\ \E s : Lists(s, at)
  BY <1>1, ListsExist
<1> DEFINE pos == CHOOSE s \in [1..Cardinality(at) -> at] :
                    \A i, j \in 1..Cardinality(at) : i < j => s[i] < s[j]
<1>3. Lists(pos, at)
  BY <1>2 DEF Lists
<1>4. T!Cardinality(at) = Cardinality(at)
  BY DEF T!Cardinality, Cardinality
<1>5. T!Picked(hs, at) = [i \in 1..Cardinality(at) |-> hs[pos[i]]]
  BY <1>4 DEF T!Picked
<1> HIDE DEF pos
<1>6. /\ Cardinality(at) \in Nat /\ pos \in [1..Cardinality(at) -> at]
      /\ \A i, j \in 1..Cardinality(at) : i < j => pos[i] < pos[j]
      /\ \A x \in at : \E i \in 1..Cardinality(at) : pos[i] = x
  <2>1. Cardinality(at) \in Nat /\ \A x \in at : \E i \in 1..Cardinality(at) : pos[i] = x
    BY <1>2, <1>3, ListsAll
  <2>2. /\ pos \in [1..Cardinality(at) -> at]
        /\ \A i, j \in 1..Cardinality(at) : i < j => pos[i] < pos[j]
    BY <1>3 DEF Lists
  <2> QED BY <2>1, <2>2
<1>7. T!Picked(hs, at) \in [1..Cardinality(at) -> X]
  BY <1>1, <1>5, <1>6
<1>8. T!Picked(hs, at) \in Seq(X)
  BY <1>6, <1>7
<1> QED BY <1>5, <1>6, <1>8

LEMMA ReadTyped == ASSUME TailInv PROVE T!Range(read) \subseteq 1..written
<1>1. read \in Seq(1..written)
  BY DEF TailInv, ReadInv
<1>2. DOMAIN read = 1..Len(read) /\ \A i \in 1..Len(read) : read[i] \in 1..written
  BY <1>1, LenProperties, ElementOfSeq
<1> QED BY <1>2 DEF T!Range

\* Killed, the agent keeps its checkpoint, and no truncation it has not noticed.
LEMMA KillKeeps == ASSUME TailInv, T!Kill PROVE TailInv'
<1>1. /\ pc # "down" /\ T!Quiet
      /\ pc' = "down" /\ draining' = <<>> /\ current' = T!NoFile /\ read' = <<>>
      /\ UNCHANGED <<lines, half, live, siblings, writer, created, written, marks, covered, lost>>
  BY DEF T!Kill, T!files, T!recorded
<1>2. Valid /\ writer \in {0, live}
  BY <1>1 DEF T!Quiet, T!Range, Valid
<1>3. T!NoFile.ino = 0 /\ T!NoFile.off = 0
  BY DEF T!NoFile
<1>4. WorldInv' /\ Home'
  BY <1>1 DEF TailInv, WorldInv, Home
<1>5. DrainingInv' /\ NothingSkipped' /\ ReadInv'
  BY <1>1 DEF DrainingInv, NothingSkipped, ReadInv, T!InOrder
<1>6. Valid' /\ DownInv'
  BY <1>1, <1>2 DEF DownInv, Valid
<1>7. CurrentInv'
  BY <1>1, <1>2, <1>3, TailTyped DEF CurrentInv
<1>8. MarksInv'
  BY <1>1, <1>2 DEF TailInv, MarksInv, Valid, Marked
<1> QED BY <1>4, <1>5, <1>6, <1>7, <1>8 DEF TailInv

\* The checkpoint takes the handles as they are, and everything read as covered.
LEMMA SaveKeeps == ASSUME TailInv, T!Save PROVE TailInv'
<1> DEFINE last == IF current = T!NoFile THEN << >> ELSE <<current>>
<1>1. /\ pc = "drain" /\ marks' = draining \o last /\ covered' = covered \cup T!Range(read)
      /\ UNCHANGED <<lines, half, live, siblings, writer, created, written, pc, draining,
                     current, read, lost>>
  BY DEF T!Save, T!files, T!handles
<1>2. draining \in Seq(Handle) /\ Len(draining) \in Nat /\ DOMAIN draining = 1..Len(draining)
  BY LenProperties DEF TailInv, DrainingInv
<1>3. T!NoFile.ino = 0 /\ T!NoFile.off = 0
  BY DEF T!NoFile
<1>4. current.ino # 0 <=> current # T!NoFile
  BY <1>3 DEF TailInv, CurrentInv, Handle
<1>5. current # T!NoFile => current \in Handle
  BY DEF TailInv, CurrentInv
<1>6. /\ marks' \in Seq(Handle)
      /\ \A d \in DOMAIN draining : d \in DOMAIN marks' /\ marks'[d] = draining[d]
      /\ current # T!NoFile => /\ Len(draining) + 1 \in DOMAIN marks'
                               /\ marks'[Len(draining) + 1] = current
      /\ \A m \in DOMAIN marks' :
           m \in DOMAIN draining \/ (current # T!NoFile /\ m = Len(draining) + 1)
  <2>1. CASE current = T!NoFile
    <3>1. marks' = draining
      BY <1>1, <1>2, <2>1
    <3> QED BY <1>2, <2>1, <3>1
  <2>2. CASE current # T!NoFile
    <3>1. marks' = draining \o <<current>>
      BY <1>1, <2>2
    <3>2. <<current>> \in Seq(Handle) /\ Len(<<current>>) = 1 /\ <<current>>[1] = current
      BY <1>5, <2>2
    <3> QED BY <1>2, <2>2, <3>1, <3>2
  <2> QED BY <2>1, <2>2
<1> HIDE DEF last
<1>7. WorldInv' /\ Home'
  BY <1>1 DEF TailInv, WorldInv, Home
<1>8. DrainingInv' /\ CurrentInv' /\ DownInv'
  <2>1. Cut(current)' <=> Cut(current)
    BY <1>1 DEF Cut, T!Size
  <2> QED BY <1>1, <2>1 DEF TailInv, DrainingInv, CurrentInv, DownInv
<1>9. T!Seen' = T!Seen /\ covered' = T!Seen
  BY <1>1 DEF T!Seen
<1>10. \A i, k : Coming(i, k)' <=> Coming(i, k)
  BY <1>1 DEF Coming, Cut, T!Size
<1>11. NothingSkipped' /\ ReadInv'
  BY <1>1, <1>9, <1>10 DEF TailInv, NothingSkipped, ReadInv, T!InOrder
<1>12. MarksInv'
  <2>1. \A m, n \in DOMAIN marks' : m < n => marks'[m].ino < marks'[n].ino
    BY <1>2, <1>4, <1>6 DEF TailInv, DrainingInv
  <2>2. \A m \in DOMAIN marks' : marks'[m].ino <= created'
    BY <1>1, <1>6 DEF TailInv, DrainingInv, CurrentInv
  <2>3. covered' \cup lost' \subseteq 1..written'
    <3>1. T!Range(read) \subseteq 1..written
      BY ReadTyped
    <3>2. covered \cup lost \subseteq 1..written
      BY DEF TailInv, MarksInv
    <3> QED BY <1>1, <3>1, <3>2
  <2>4. writer' \notin {0, live'} => \E m \in DOMAIN marks' : marks'[m].ino = writer'
    BY <1>1, <1>4, <1>6 DEF TailInv, CurrentInv
  <2>5. ASSUME Valid', NEW i \in 1..MaxFiles, NEW k \in DOMAIN lines'[i]
        PROVE  Marked(i, k)' \/ lines'[i][k] \in covered' \cup lost'
    <3>1. Coming(i, k) \/ lines'[i][k] \in covered' \cup lost'
      BY <1>1, <1>9, <2>5 DEF TailInv, NothingSkipped
    <3>2. ASSUME NEW d \in DOMAIN draining, draining[d].ino = i, k > draining[d].off
          PROVE  Marked(i, k)'
      BY <1>6, <3>2 DEF Marked
    <3>3. ASSUME current.ino = i, k > current.off PROVE Marked(i, k)'
      BY <1>4, <1>6, <3>3 DEF Marked
    <3>4. current.ino = i => ~Cut(current)
      <4> SUFFICES ASSUME current.ino = i, Cut(current) PROVE FALSE
        OBVIOUS
      <4>1. /\ current.off \in Nat /\ T!Size(i) \in Nat /\ Len(lines[i]) <= T!Size(i)
            /\ Len(lines[i]) \in Nat /\ DOMAIN lines[i] = 1..Len(lines[i])
        BY TailTyped
      <4>2. current.off > Len(lines[i]) /\ current.off \in 1..current.off
        BY <4>1 DEF Cut
      <4>3. PICK m \in DOMAIN marks' : marks'[m] = current
        BY <1>4, <1>6
      <4>4. current.off \in DOMAIN lines[i]
        <5>1. \A j \in 1..marks'[m].off : j \in DOMAIN lines'[marks'[m].ino]
          BY <2>5 DEF Valid
        <5> QED BY <1>1, <4>2, <4>3, <5>1
      <4> QED BY <4>1, <4>2, <4>4
    <3>5. ASSUME i = live, i # current.ino PROVE Marked(i, k)'
      <4>1. \A m \in DOMAIN marks' : marks'[m].ino # i
        BY <1>6, <3>5 DEF TailInv, DrainingInv
      <4> QED BY <1>1, <3>5, <4>1 DEF Marked
    <3> QED BY <3>1, <3>2, <3>3, <3>4, <3>5 DEF Coming
  <2> QED BY <1>6, <2>1, <2>2, <2>3, <2>4, <2>5 DEF MarksInv
<1> QED BY <1>7, <1>8, <1>11, <1>12 DEF TailInv

\* An offset that no truncation has overtaken is not clamped.
LEMMA MarksStand ==
  ASSUME TailInv, Valid
  PROVE  \A m \in DOMAIN marks : /\ marks[m].off <= Len(lines[marks[m].ino])
                                 /\ T!At(marks[m].ino, marks[m].off) = marks[m]
<1> SUFFICES ASSUME NEW m \in DOMAIN marks
             PROVE  /\ marks[m].off <= Len(lines[marks[m].ino])
                    /\ T!At(marks[m].ino, marks[m].off) = marks[m]
  OBVIOUS
<1> DEFINE i == marks[m].ino  o == marks[m].off
<1>1. /\ i \in 1..MaxFiles /\ o \in Nat /\ Len(lines[i]) \in Nat /\ T!Size(i) \in Nat
      /\ Len(lines[i]) <= T!Size(i) /\ DOMAIN lines[i] = 1..Len(lines[i])
  BY TailTyped
<1>2. \A k \in 1..o : k \in DOMAIN lines[i]
  BY DEF Valid
<1>3. marks[m] = [ino |-> i, off |-> o]
  <2>1. marks[m] \in Handle
    BY ElementOfSeq, LenProperties DEF TailInv, MarksInv
  <2> QED BY <2>1 DEF Handle
<1> HIDE DEF i, o
<1>4. o <= Len(lines[i])
  BY <1>1, <1>2
<1>5. ~(o > T!Size(i))
  BY <1>1, <1>4
<1>6. T!At(i, o) = [ino |-> i, off |-> o]
  BY <1>5 DEF T!At
<1>7. marks[m].ino = i /\ marks[m].off = o
  BY DEF i, o
<1> QED BY <1>3, <1>4, <1>6, <1>7

\* resume opens the marked files it finds as the marks say, and counts the rest as lost.
LEMMA ResumeKeeps == ASSUME TailInv, T!Resume PROVE TailInv'
<1> DEFINE found  == {i \in DOMAIN marks : T!Found(marks[i])}
           known  == {i \in found : marks[i].ino = live}
           others == IF known = {} THEN found ELSE found \ {T!Min(known)}
           opened == [i \in DOMAIN marks |-> T!At(marks[i].ino, marks[i].off)]
<1>1. /\ draining = <<>> /\ current = T!NoFile /\ read = <<>> /\ Valid /\ writer \in {0, live}
      /\ pc = "down"
  BY DEF T!Resume, TailInv, DownInv
<1>2. /\ draining' = T!Picked(opened, others)
      /\ current' = IF live = 0 THEN T!NoFile
                    ELSE IF known = {} THEN T!At(live, 0) ELSE opened[T!Min(known)]
      /\ lost' = lost \cup UNION {T!After(m) : m \in {x \in T!Range(marks) : ~T!Found(x)}}
      /\ pc' = "drain"
      /\ UNCHANGED <<lines, half, live, siblings, writer, created, written, read, marks, covered>>
  BY DEF T!Resume, T!files, T!recorded
<1>3. /\ marks \in Seq(Handle) /\ DOMAIN marks \in SUBSET Nat
      /\ \A m \in DOMAIN marks : marks[m] \in Handle
  BY LenProperties, ElementOfSeq DEF TailInv, MarksInv
<1>4. \A m \in DOMAIN marks : /\ marks[m].off <= Len(lines[marks[m].ino])
                              /\ T!At(marks[m].ino, marks[m].off) = marks[m]
  BY <1>1, MarksStand
<1>5. opened = marks
  <2>1. \A m \in DOMAIN marks : opened[m] = marks[m]
    BY <1>4
  <2>2. marks = [m \in DOMAIN marks |-> marks[m]]
    BY <1>3
  <2> QED BY <2>1, <2>2, Zenon
<1>6. \A m, n \in DOMAIN marks : marks[m].ino = marks[n].ino => m = n
  <2>1. \A m, n \in DOMAIN marks : m < n => marks[m].ino < marks[n].ino
    BY DEF TailInv, MarksInv
  <2>2. \A m \in DOMAIN marks : m \in Nat /\ marks[m].ino \in Nat
    BY <1>3, TailTyped
  <2> QED BY <2>1, <2>2
<1>7. known # {} => T!Min(known) \in known
  <2> SUFFICES ASSUME NEW x \in known PROVE T!Min(known) \in known
    OBVIOUS
  <2>1. known = {x} /\ x \in Nat
    BY <1>3, <1>6
  <2>2. \E y \in known : \A z \in known : y <= z
    BY <2>1
  <2> HIDE DEF known
  <2> QED BY <2>2 DEF T!Min
<1>8. \A i \in found : i \in others \/ (i \in known /\ i = T!Min(known))
  <2>1. known = {} => others = found
    BY Zenon
  <2>2. known # {} => others = found \ {T!Min(known)}
    BY Zenon
  <2> QED BY <1>7, <2>1, <2>2
<1>9. others \in SUBSET (DOMAIN marks) /\ others \subseteq found /\ \A i \in others : marks[i].ino # live
  <2>1. \A i \in known : i = T!Min(known)
    BY <1>3, <1>6, <1>7
  <2> QED BY <2>1
<1>10. /\ known = {} => \A m \in found : marks[m].ino # live
       /\ \A m \in known : marks[m].ino = live /\ m \in DOMAIN marks
  OBVIOUS
<1>11. \A i \in DOMAIN marks : i \in found <=> T!Found(marks[i])
  OBVIOUS
<1> HIDE DEF found, known, others, opened
<1>12. PICK pos : /\ pos \in [1..Cardinality(others) -> others] /\ Cardinality(others) \in Nat
                  /\ \A i, j \in 1..Cardinality(others) : i < j => pos[i] < pos[j]
                  /\ \A x \in others : \E i \in 1..Cardinality(others) : pos[i] = x
                  /\ T!Picked(marks, others) = [i \in 1..Cardinality(others) |-> marks[pos[i]]]
                  /\ T!Picked(marks, others) \in Seq(Handle)
  BY <1>3, <1>9, PickedKeeps
<1>13. /\ draining' \in Seq(Handle) /\ DOMAIN draining' = 1..Cardinality(others)
       /\ \A d \in DOMAIN draining' : pos[d] \in others /\ draining'[d] = marks[pos[d]]
       /\ \A d, e \in DOMAIN draining' : d < e => pos[d] < pos[e]
       /\ \A m \in others : \E d \in DOMAIN draining' : draining'[d] = marks[m]
  <2>1. draining' = T!Picked(marks, others)
    BY <1>2, <1>5
  <2>2. /\ DOMAIN draining' = 1..Cardinality(others)
        /\ \A d \in DOMAIN draining' : pos[d] \in others /\ draining'[d] = marks[pos[d]]
    BY <1>12, <2>1
  <2>3. \A m \in others : \E d \in DOMAIN draining' : draining'[d] = marks[m]
    BY <1>12, <2>2
  <2> QED BY <1>12, <2>1, <2>2, <2>3
<1>14. /\ live = 0 => current' = T!NoFile
       /\ live # 0 /\ known = {} => current' = [ino |-> live, off |-> 0]
       /\ live # 0 /\ known # {} => T!Min(known) \in known /\ current' = marks[T!Min(known)]
  <2>1. ASSUME live # 0 PROVE T!At(live, 0) = [ino |-> live, off |-> 0]
    <3>1. T!Size(live) \in Nat
      BY <2>1, TailTyped
    <3>2. ~(0 > T!Size(live))
      BY <3>1
    <3> QED BY <3>2 DEF T!At
  <2> QED BY <1>2, <1>5, <1>7, <2>1
<1>15. /\ current' = T!NoFile \/ current' \in Handle
       /\ current'.ino = live
       /\ current'.ino # 0 => current'.off <= Len(lines[live])
  <2>1. T!NoFile.ino = 0
    BY DEF T!NoFile
  <2>2. CASE live = 0
    BY <1>14, <2>1, <2>2
  <2>3. CASE live # 0 /\ known = {}
    <3>1. live \in 1..MaxFiles /\ Len(lines[live]) \in Nat
      BY <2>3, TailTyped
    <3> QED BY <1>14, <2>3, <3>1 DEF Handle
  <2>4. CASE live # 0 /\ known # {}
    BY <1>3, <1>4, <1>10, <1>14, <2>4
  <2> QED BY <2>2, <2>3, <2>4
<1>16. lost' \subseteq 1..written /\ lost \subseteq lost'
       /\ \A m \in DOMAIN marks : ~T!Found(marks[m]) => T!After(marks[m]) \subseteq lost'
  <2>1. \A m \in DOMAIN marks : T!After(marks[m]) \subseteq 1..written
    <3> SUFFICES ASSUME NEW m \in DOMAIN marks,
                        NEW k \in (marks[m].off + 1)..Len(lines[marks[m].ino])
                 PROVE  lines[marks[m].ino][k] \in 1..written
      BY DEF T!After
    <3>1. /\ marks[m].ino \in 1..MaxFiles /\ marks[m].off \in Nat
          /\ Len(lines[marks[m].ino]) \in Nat
      BY TailTyped
    <3>2. k \in 1..Len(lines[marks[m].ino])
      BY <3>1
    <3>3. lines[marks[m].ino] \in Seq(1..written)
      BY <3>1 DEF TailInv, WorldInv
    <3> QED BY <3>2, <3>3, ElementOfSeq
  <2>2. lost \subseteq 1..written
    BY DEF TailInv, MarksInv
  <2>3. T!Range(marks) = {marks[m] : m \in DOMAIN marks}
    BY DEF T!Range
  <2> QED BY <1>2, <2>1, <2>2, <2>3
<1>17. WorldInv' /\ Home' /\ ReadInv' /\ DownInv'
  BY <1>1, <1>2 DEF TailInv, WorldInv, Home, ReadInv, T!InOrder, DownInv
<1>18. DrainingInv'
  <2>1. \A d \in DOMAIN draining' : /\ draining'[d].ino <= created /\ draining'[d].ino # live
                                    /\ draining'[d].ino \in 1..MaxFiles
                                    /\ draining'[d].off <= Len(lines[draining'[d].ino])
    <3>1. \A m \in DOMAIN marks : marks[m].ino <= created /\ marks[m].ino \in 1..MaxFiles
      BY TailTyped DEF TailInv, MarksInv
    <3> QED BY <1>4, <1>9, <1>13, <3>1
  <2>2. \A d, e \in DOMAIN draining' : d < e => draining'[d].ino < draining'[e].ino
    <3>1. \A m, n \in DOMAIN marks : m < n => marks[m].ino < marks[n].ino
      BY DEF TailInv, MarksInv
    <3> QED BY <1>9, <1>13, <3>1
  <2>3. live # 0 => live = created
    BY DEF TailInv, WorldInv
  <2>4. \A d \in DOMAIN draining' : current'.ino # 0 => draining'[d].ino < current'.ino
    <3>1. created \in Nat
      BY TailTyped
    <3> QED BY <1>15, <2>1, <2>3, <3>1
  <2>5. \A d \in DOMAIN draining' : draining'[d].ino \notin {live', writer'}
    BY <1>1, <1>2, <2>1
  <2> QED BY <1>2, <1>13, <2>1, <2>2, <2>4, <2>5 DEF DrainingInv
<1>19. CurrentInv'
  <2>1. live <= created
    BY TailTyped DEF TailInv, WorldInv
  <2> QED BY <1>1, <1>2, <1>15, <2>1 DEF CurrentInv
<1>20. NothingSkipped'
  <2> SUFFICES ASSUME NEW i \in 1..MaxFiles, NEW k \in DOMAIN lines[i]
               PROVE  Coming(i, k)' \/ lines[i][k] \in T!Seen' \cup lost'
    BY <1>2 DEF NothingSkipped
  <2>1. Marked(i, k) \/ lines[i][k] \in covered \cup lost
    BY <1>1 DEF TailInv, MarksInv
  <2>2. covered \cup lost \subseteq T!Seen' \cup lost'
    BY <1>2, <1>16 DEF T!Seen
  <2>3. k \in 1..Len(lines[i]) /\ Len(lines[i]) \in Nat
    BY TailTyped
  <2>4. ASSUME NEW m \in DOMAIN marks, marks[m].ino = i, k > marks[m].off
        PROVE  Coming(i, k)' \/ lines[i][k] \in lost'
    <3>1. CASE m \in others
      BY <1>13, <2>4, <3>1 DEF Coming
    <3>2. CASE m \in known /\ m = T!Min(known)
      <4>1. live # 0
        BY <1>10, <2>4, <3>2, TailTyped
      <4> QED BY <1>14, <2>4, <3>2, <4>1 DEF Coming
    <3>3. CASE ~T!Found(marks[m])
      <4>1. marks[m].off \in Nat
        BY TailTyped
      <4>2. k \in (marks[m].off + 1)..Len(lines[i])
        BY <2>3, <2>4, <4>1
      <4>3. lines[i][k] \in T!After(marks[m])
        BY <2>4, <4>2 DEF T!After
      <4> QED BY <1>16, <3>3, <4>3
    <3> QED BY <1>8, <1>11, <3>1, <3>2, <3>3
  <2>5. ASSUME i = live, \A m \in DOMAIN marks : marks[m].ino # i PROVE Coming(i, k)'
    <3>1. live # 0 /\ known = {}
      BY <1>10, <2>5
    <3>2. current'.ino = i /\ current'.off = 0
      BY <1>14, <2>5, <3>1
    <3> QED BY <2>3, <3>2 DEF Coming
  <2> QED BY <2>1, <2>2, <2>4, <2>5 DEF Marked
<1>21. MarksInv'
  <2>1. Valid' <=> Valid
    BY <1>2 DEF Valid
  <2>2. \A i, k : Marked(i, k)' <=> Marked(i, k)
    BY <1>2 DEF Marked
  <2> QED BY <1>2, <1>16, <2>1, <2>2 DEF TailInv, MarksInv
<1> QED BY <1>17, <1>18, <1>19, <1>20, <1>21 DEF TailInv

LEMMA TailerKeeps == ASSUME TailInv, T!Next PROVE TailInv'
<1>1. ASSUME T!NextLine PROVE TailInv'
  <2>1. UNCHANGED stable
    BY <1>1 DEF T!NextLine, T!files, T!recorded, stable
  <2> QED BY <1>1, <2>1, DrainLineKeeps, DrainDropKeeps, LookKeeps, TruncatedKeeps, RotatedKeeps,
             OpenLiveKeeps, LiveLineKeeps DEF T!NextLine
<1> QED BY <1>1, WorldKeeps, ResumeKeeps, SaveKeeps, KillKeeps DEF T!Next

\* The queue's steps leave the tailer alone.
LEMMA TailerStands == ASSUME TailInv, UNCHANGED tailer PROVE TailInv'
<1>1. UNCHANGED <<lines, half, live, siblings, writer, created, written, pc, draining, current,
                  read, marks, covered, lost>>
  BY DEF tailer
<1>2. UNCHANGED stable /\ read' = read
  BY <1>1 DEF stable
<1>3. WorldInv' /\ Home' /\ MarksInv'
  BY <1>2, StableKeeps
<1>4. \A i, k : Coming(i, k)' <=> Coming(i, k)
  BY <1>1 DEF Coming, Cut, T!Size
<1>5. DrainingInv' /\ CurrentInv' /\ DownInv'
  BY <1>1 DEF TailInv, DrainingInv, CurrentInv, DownInv, Cut, T!Size, Valid
<1>6. NothingSkipped' /\ ReadInv'
  BY <1>1, <1>4 DEF TailInv, NothingSkipped, ReadInv, T!Seen, T!InOrder
<1> QED BY <1>3, <1>5, <1>6 DEF TailInv

\* The invariant gives the tailer's types: no file is open twice.
LEMMA TailTypes == ASSUME TailInv PROVE T!TypeOK
<1>1. /\ DOMAIN lines = 1..MaxFiles
      /\ \A i \in 1..MaxFiles : T!Range(lines[i]) \subseteq 1..written
  BY LenProperties, ElementOfSeq DEF TailInv, WorldInv, T!Range
<1>2. /\ {half, live, writer} \subseteq 0..MaxFiles /\ siblings \subseteq 1..MaxFiles
      /\ created \in 0..MaxFiles /\ written \in 0..NLines
  BY TailConstants DEF TailInv, WorldInv
<1>3. T!IsInjective([d \in DOMAIN draining |-> draining[d].ino])
  <2>1. DOMAIN draining = 1..Len(draining) /\ Len(draining) \in Nat
    BY LenProperties DEF TailInv, DrainingInv
  <2>2. \A d, e \in DOMAIN draining : draining[d].ino = draining[e].ino => d = e
    <3>1. \A d, e \in DOMAIN draining : d < e => draining[d].ino < draining[e].ino
      BY DEF TailInv, DrainingInv
    <3>2. \A d \in DOMAIN draining : draining[d].ino \in Nat
      BY TailTyped
    <3> QED BY <2>1, <3>1, <3>2
  <2> QED BY <2>2 DEF T!IsInjective
<1>4. T!Inos(draining) \subseteq (1..MaxFiles) \ {current.ino}
  <2>1. \A d \in DOMAIN draining : draining[d].ino \in 1..MaxFiles
    BY TailTyped
  <2>2. \A d \in DOMAIN draining : current.ino # 0 => draining[d].ino < current.ino
    BY DEF TailInv, DrainingInv
  <2>3. current.ino \in Nat
    BY TailTyped
  <2>4. \A d \in DOMAIN draining : draining[d].ino # current.ino
    BY <2>1, <2>2, <2>3
  <2> QED BY <2>1, <2>4 DEF T!Inos
<1>5. T!Range(read) \cup covered \cup lost \subseteq 1..written
  <2>1. covered \cup lost \subseteq 1..written
    BY DEF TailInv, MarksInv
  <2> QED BY <2>1, ReadTyped
<1> QED BY <1>1, <1>2, <1>3, <1>4, <1>5 DEF T!TypeOK, TailInv, DownInv

\* What is coming, or marked, is in front of the agent.
LEMMA TailReaches == ASSUME TailInv PROVE T!NothingLeftBehind
<1> SUFFICES ASSUME NEW n \in 1..written, n \notin T!Seen \cup lost
             PROVE  T!Ahead(n)
  BY DEF T!NothingLeftBehind
<1>1. n \notin covered \cup lost
  BY DEF T!Seen
<1>i. PICK i \in 1..MaxFiles : \E k \in DOMAIN lines[i] : lines[i][k] = n
  BY <1>1 DEF TailInv, Home
<1>2. PICK k \in DOMAIN lines[i] : lines[i][k] = n
  BY <1>i
<1>3. k \in 1..Len(lines[i]) /\ Len(lines[i]) \in Nat /\ n \in T!Range(lines[i]) /\ i # 0
  BY <1>2, TailTyped DEF T!Range
<1>4. CASE pc = "down"
  <2>1. Valid /\ Marked(i, k)
    BY <1>1, <1>2, <1>4 DEF TailInv, DownInv, MarksInv
  <2>2. ASSUME NEW m \in DOMAIN marks, marks[m].ino = i, k > marks[m].off PROVE T!Ahead(n)
    <3>1. T!At(marks[m].ino, marks[m].off) = marks[m] /\ marks[m].off \in Nat
      BY <2>1, MarksStand, TailTyped
    <3>2. k \in (marks[m].off + 1)..Len(lines[marks[m].ino])
      BY <1>3, <2>2, <3>1
    <3>3. n \in T!After(T!At(marks[m].ino, marks[m].off)) /\ marks[m] \in T!Range(marks)
      BY <1>2, <2>2, <3>1, <3>2 DEF T!After, T!Range
    <3> QED BY <1>4, <3>3 DEF T!Ahead
  <2>3. ASSUME i = live, \A m \in DOMAIN marks : marks[m].ino # i PROVE T!Ahead(n)
    BY <1>3, <1>4, <2>3 DEF T!Ahead, T!Inos
  <2> QED BY <2>1, <2>2, <2>3 DEF Marked
<1>5. CASE pc # "down"
  <2>1. Coming(i, k)
    BY <1>2, <1>5 DEF TailInv, NothingSkipped
  <2>2. ASSUME NEW d \in DOMAIN draining, draining[d].ino = i, k > draining[d].off PROVE T!Ahead(n)
    <3>1. T!Reaches(draining[d], n) /\ draining[d] \in T!Range(draining)
      BY <1>2, <1>3, <2>2 DEF T!Reaches, T!Range
    <3> QED BY <1>5, <3>1 DEF T!Ahead
  <2>3. ASSUME current.ino = i, k > current.off \/ Cut(current) PROVE T!Ahead(n)
    <3>1. T!Reaches(current, n)
      BY <1>2, <1>3, <2>3 DEF T!Reaches, Cut
    <3> QED BY <1>5, <3>1 DEF T!Ahead
  <2>4. ASSUME i = live, i # current.ino PROVE T!Ahead(n)
    <3>1. live \notin T!Inos(draining)
      BY DEF TailInv, DrainingInv, T!Inos
    <3> QED BY <1>3, <1>5, <2>4, <3>1 DEF T!Ahead
  <2> QED BY <2>1, <2>2, <2>3, <2>4 DEF Coming
<1> QED BY <1>4, <1>5
-----------------------------------------------------------------------------
\* ImplementsHolds: every step of the queue's files and counters is a call of the
\* atomic queue or none, so that no kill loses, tears, repeats or reorders a
\* segment (Queue::open, push, push_forced, spool and pop of queue.rs).
THEOREM ImplementsHolds == Spec => ImplementsAtomicQueue
<1>1. Init => QueueInv /\ Q!Abs!Init
  BY QueueStarts DEF Init
<1>2. QueueInv /\ [Next]_vars => QueueInv' /\ (Q!Abs!Next \/ UNCHANGED Queued)
  <2> SUFFICES ASSUME QueueInv, [Next]_vars
               PROVE  QueueInv' /\ (Q!Abs!Next \/ UNCHANGED Queued)
    OBVIOUS
  <2>1. CASE TailerStep(T!Next)
    BY <2>1, QueueStands DEF TailerStep
  <2>2. CASE QueueStep(Q!Next)
    BY <2>2, QueueRefines DEF QueueStep
  <2>3. CASE UNCHANGED vars
    BY <2>3, QueueStands DEF vars
  <2> QED BY <2>1, <2>2, <2>3 DEF Next
<1>3. QueueInv /\ [Next]_vars => [Q!Abs!Next]_Queued
  BY <1>2
<1>4. Queued = [segs |-> Q!Queued, bytes |-> Q!SizeOf(lp), full |-> Q!AbsFull]
  BY DEF Queued
<1> QED BY <1>1, <1>2, <1>3, <1>4, PTL DEF Spec, ImplementsAtomicQueue, Q!ImplementsAtomicQueue, Q!Abs!Spec, Queued

LEMMA TailInvariant == Spec => []TailInv
<1>1. Init => TailInv
  BY TailStarts DEF Init
<1>2. TailInv /\ [Next]_vars => TailInv'
  BY TailerKeeps, TailerStands DEF Next, TailerStep, QueueStep, vars
<1> QED BY <1>1, <1>2, PTL DEF Spec

LEMMA QueueInvariant == Spec => []QueueInv
<1>1. Init => QueueInv
  BY QueueStarts DEF Init
<1>2. QueueInv /\ [Next]_vars => QueueInv'
  BY QueueStands, QueueRefines DEF Next, TailerStep, QueueStep, vars
<1> QED BY <1>1, <1>2, PTL DEF Spec

\* TypeCorrect: the tailer never has a file open twice, and the queue's directory
\* never holds a torn segment (tail.rs, queue.rs).
THEOREM TypeCorrect == Spec => []TypeOK
<1>1. TailInv /\ QueueInv => TypeOK
  BY TailTypes DEF TypeOK, Q!TypeOK, QueueInv, FilesTyped, CountersTyped
<1> QED BY <1>1, TailInvariant, QueueInvariant, PTL

\* InOrderHolds: across rotations next_line returns the lines of one life in the
\* order they were written and none twice, the old file's last line before the
\* new file's first (Tailer::next_line, check_rotation and drain_pending).
THEOREM InOrderHolds == Spec => []InOrder
<1>1. TailInv => InOrder
  BY DEF TailInv, ReadInv, InOrder
<1> QED BY <1>1, TailInvariant, PTL

\* NothingLeftBehindHolds: every complete line has been read, is still in front of
\* the agent, or was in a file that resume counted as lost (tail.rs).
THEOREM NothingLeftBehindHolds == Spec => []NothingLeftBehind
<1>1. TailInv => NothingLeftBehind
  BY TailReaches DEF NothingLeftBehind
<1> QED BY <1>1, TailInvariant, PTL
=============================================================================
