----------------------------- MODULE AgentProofs -----------------------------
(***************************************************************************)
(* ReadIsKept of GlobSource and OneTask of Coordinator, for every set of   *)
(* files, names and paths and every bound: the safety properties of the    *)
(* two supervisors, over the composition MCAgent.                          *)
(***************************************************************************)
EXTENDS MCAgent, FiniteSetTheorems, FunctionTheorems, SequenceTheorems, TLAPS

\* The two instances count like the library.
LEMMA SameCardinality ==
  \A S : G!Cardinality(S) = Cardinality(S) /\ C!Cardinality(S) = Cardinality(S)
  BY DEF G!Cardinality, C!Cardinality, Cardinality

(***************************************************************************)
(* The glob supervisor                                                     *)
(***************************************************************************)

Position == [life : 0..MaxLives, pos : 0..MaxLines]

\* A position in a file is not past its end, for a child and for a checkpoint.
Within(p, f) == p.life # 0 => p.pos <= written[f][p.life]

\* The inductive invariant of the glob supervisor.
GlobInv ==
  /\ G!TypeOK
  /\ mem \in [Files -> SUBSET G!Line] /\ queue \in [Files -> SUBSET G!Line]
  /\ \A f \in Files : Within(child[f], f) /\ Within(ckpt[f], f)
  /\ G!ReadIsKept

\* Lines are kept when every line of a child's memory or queue stays in one of
\* them, or is stored or dropped.
LEMMA GlobKeeps ==
  ASSUME G!ReadIsKept, stored \subseteq stored', dropped \subseteq dropped',
         \A f \in Files : mem[f] \cup queue[f] \subseteq mem'[f] \cup queue'[f] \cup stored' \cup dropped',
         read' \subseteq read \cup UNION {mem'[f] : f \in Files}
  PROVE  G!ReadIsKept'
  BY DEF G!ReadIsKept, G!Somewhere

\* The first w lines of a file.
LinesTo(f, i, w) == {[path |-> f, life |-> i, n |-> n] : n \in 1..w}

\* There are w of them.
LEMMA LinesCount ==
  ASSUME NEW f, NEW i, NEW w \in Nat
  PROVE  IsFiniteSet(LinesTo(f, i, w)) /\ Cardinality(LinesTo(f, i, w)) = w
<1> DEFINE lines == LinesTo(f, i, w)
           nth == [n \in 1..w |-> [path |-> f, life |-> i, n |-> n]]
<1>1. IsFiniteSet(1..w) /\ Cardinality(1..w) = w
  BY FS_Interval, w \in Int, 1 \in Int
<1>2. nth \in [1..w -> lines] /\ \A l \in lines : \E n \in 1..w : nth[n] = l
  BY DEF LinesTo
<1>3. \A m, n \in 1..w : nth[m] = nth[n] => m = n
  <2> TAKE m, n \in 1..w
  <2>1. nth[m].n = m /\ nth[n].n = n
    OBVIOUS
  <2> QED BY <2>1
<1> HIDE DEF nth, lines
<1>4. nth \in Surjection(1..w, lines) /\ nth \in Injection(1..w, lines)
  BY <1>2, <1>3, Fun_IsSurj, Fun_IsInj
<1>5. IsFiniteSet(lines) /\ Cardinality(lines) = w
  BY <1>1, <1>4, FS_Surjection
<1> QED BY <1>5 DEF lines, LinesTo

\* Write's bound on the lines of a path bounds those of each of its files.
LEMMA WrittenBelow ==
  ASSUME GlobInv, NEW f \in Files, NEW k \in G!Lives,
         Cardinality(G!AllLines(f)) < MaxLines
  PROVE  written[f][k] < MaxLines
<1> DEFINE w == written[f][k]
           one == LinesTo(f, k, w)
           all == G!AllLines(f)
<1>1. /\ \A j \in G!Lives : written[f][j] \in 0..MaxLines
      /\ MaxLines \in Nat /\ MaxLives \in Nat
  BY AgentAssumption DEF GlobInv, G!TypeOK, G!GlobAssumption
<1>2. w \in Nat
  BY <1>1
<1>3. one = G!LinesOf(f, k, 0)
  BY DEF G!LinesOf, LinesTo
<1>4. Cardinality(one) = w
  BY <1>2, LinesCount
<1>5. IsFiniteSet(all)
  <2> DEFINE pairs == (1..MaxLives) \X (1..MaxLines)
             at == [p \in pairs |-> [path |-> f, life |-> p[1], n |-> p[2]]]
             any == {at[p] : p \in pairs}
  <2>1. IsFiniteSet(pairs)
    <3>1. IsFiniteSet(1..MaxLives) /\ IsFiniteSet(1..MaxLines)
      BY <1>1, FS_Interval
    <3> QED BY <3>1, FS_Product
  <2>2. at \in Surjection(pairs, any)
    <3>1. at \in [pairs -> any] /\ \A l \in any : \E p \in pairs : at[p] = l
      OBVIOUS
    <3> HIDE DEF at, any, pairs
    <3> QED BY <3>1, Fun_IsSurj
  <2>3. IsFiniteSet(any)
    <3> HIDE DEF at, any, pairs
    <3> QED BY <2>1, <2>2, FS_Surjection
  <2>4. all \subseteq any
    <3> SUFFICES ASSUME NEW l \in all PROVE l \in any
      OBVIOUS
    <3>1. PICK j \in G!Lives : l \in G!LinesOf(f, j, 0)
      BY DEF G!AllLines
    <3>2. PICK n \in 1..written[f][j] : l = [path |-> f, life |-> j, n |-> n]
      BY <3>1 DEF G!LinesOf
    <3>3. j \in 1..MaxLives /\ n \in 1..MaxLines
      BY <1>1 DEF G!Lives
    <3>4. <<j, n>> \in pairs /\ at[<<j, n>>] = l
      BY <3>2, <3>3
    <3> QED BY <3>4
  <2> HIDE DEF all, any
  <2> QED BY <2>3, <2>4, FS_Subset
<1>6. one \subseteq all
  BY <1>3 DEF G!AllLines
<1>7. Cardinality(one) <= Cardinality(all) /\ Cardinality(all) \in Nat
  <2> HIDE DEF one, all
  <2> QED BY <1>5, <1>6, FS_Subset, FS_CardinalityType
<1> QED BY <1>1, <1>2, <1>4, <1>7
\* Adoption only starts children where there were none, at a position that is
\* within the file.
LEMMA Adoption ==
  ASSUME GlobInv, NEW found, child' = G!Adopted(found), UNCHANGED written
  PROVE  /\ child' \in [Files -> [at : {"none", "read", "idle", "ok", "err"},
                                  life : 0..MaxLives, pos : 0..MaxLines]]
         /\ \A f \in Files : Within(child[f], f)'
         /\ G!Running \subseteq G!Running'
<1>1. \A f \in Files : /\ G!Resumed(f) \in [at : {"none", "read", "idle", "ok", "err"},
                                            life : 0..MaxLives, pos : 0..MaxLines]
                       /\ Within(G!Resumed(f), f) /\ G!Resumed(f).at # "none"
  <2> TAKE f \in Files
  <2>1. /\ present[f] \in 0..MaxLives /\ ckpt[f] \in Position /\ Within(ckpt[f], f)
        /\ written[f] \in [G!Lives -> 0..MaxLines] /\ MaxLines \in Nat
    BY AgentAssumption DEF GlobInv, G!TypeOK, G!GlobAssumption, Position
  <2>2. CASE ckpt[f].life = present[f] /\ present[f] # 0
    BY <2>1, <2>2 DEF G!Resumed, Within, Position
  <2>3. CASE ~(ckpt[f].life = present[f] /\ present[f] # 0)
    <3>1. present[f] # 0 => written[f][present[f]] \in 0..MaxLines
      BY <2>1, AgentAssumption DEF G!Lives, G!GlobAssumption
    <3> QED BY <2>1, <2>3, <3>1 DEF G!Resumed, Within, Position
  <2> QED BY <2>2, <2>3
<1>2. \A f \in Files : child'[f] \in {child[f], G!Resumed(f)}
  BY DEF G!Adopted
<1>3. \A f \in Files : Within(child[f], f)'
  BY <1>1, <1>2 DEF GlobInv, Within
<1>4. G!Running \subseteq G!Running'
  BY DEF G!Adopted, G!Running
<1>5. child' \in [Files -> [at : {"none", "read", "idle", "ok", "err"},
                            life : 0..MaxLives, pos : 0..MaxLines]]
  BY <1>1 DEF G!Adopted, GlobInv, G!TypeOK
<1> QED BY <1>3, <1>4, <1>5

LEMMA GlobInit == G!Init => GlobInv
<1> SUFFICES ASSUME G!Init PROVE GlobInv
  OBVIOUS
<1>1. MaxLives \in Nat /\ MaxLines \in Nat /\ MaxEnds \in Nat
  BY AgentAssumption DEF G!GlobAssumption
<1>2. child \in [Files -> [at : {"none", "read", "idle", "ok", "err"},
                           life : 0..MaxLives, pos : 0..MaxLines]]
  BY <1>1 DEF G!Init, G!NoChild
<1>3. ckpt \in [Files -> [life : 0..MaxLives, pos : 0..MaxLines]]
  BY <1>1 DEF G!Init, G!NoMark
<1>4. G!TypeOK
  <2>1. /\ present \in [Files -> 0..MaxLives] /\ lives \in [Files -> 0..MaxLives]
        /\ written \in [Files -> [G!Lives -> 0..MaxLines]]
    BY <1>1 DEF G!Init
  <2>2. /\ \A f \in Files : mem[f] \subseteq G!Line /\ queue[f] \subseteq G!Line
        /\ ends \in 0..MaxEnds
    BY <1>1 DEF G!Init
  <2> QED BY <1>2, <1>3, <2>1, <2>2 DEF G!Init, G!TypeOK
<1>5. \A f \in Files : Within(child[f], f) /\ Within(ckpt[f], f)
  BY DEF G!Init, G!NoChild, G!NoMark, Within
<1> QED BY <1>4, <1>5 DEF G!Init, GlobInv, G!ReadIsKept

\* A child's own steps, which leave every other path alone.
LEMMA GlobRead == ASSUME GlobInv, NEW f \in Files, G!Read(f) PROVE GlobInv'
<1> DEFINE line == [path |-> f, life |-> child[f].life, n |-> child'[f].pos]
<1>1. /\ child[f].life \in 1..MaxLives /\ child[f].pos \in 0..MaxLines /\ MaxLines \in Nat
      /\ written[f][child[f].life] \in 0..MaxLines
      /\ child[f].pos < written[f][child[f].life]
  <2>1. /\ child[f].life \in 0..MaxLives /\ child[f].life # 0 /\ child[f].pos \in 0..MaxLines
        /\ child[f].pos # written[f][child[f].life] /\ MaxLives \in Nat /\ MaxLines \in Nat
    BY AgentAssumption DEF GlobInv, G!TypeOK, G!Read, G!AtEnd, G!GlobAssumption
  <2>2. written[f][child[f].life] \in 0..MaxLines /\ child[f].pos <= written[f][child[f].life]
    BY <2>1 DEF GlobInv, G!TypeOK, Within, G!Lives
  <2> QED BY <2>1, <2>2
<1>2. /\ child' = [child EXCEPT ![f].pos = @ + 1]
      /\ mem' = [mem EXCEPT ![f] = @ \cup {line}] /\ read' = read \cup {line}
      /\ UNCHANGED <<present, lives, written, paused, told, retiring, stopping, ckpt, queue,
                     stored, db, up, ends, dropped>>
  BY DEF G!Read, G!world, G!sup, G!disk, G!env
<1>3. /\ child'[f].pos = child[f].pos + 1 /\ child'[f].life = child[f].life
      /\ child' \in [Files -> [at : {"none", "read", "idle", "ok", "err"},
                               life : 0..MaxLives, pos : 0..MaxLines]]
      /\ G!Running' = G!Running
  BY <1>1, <1>2 DEF GlobInv, G!TypeOK, G!Running
<1>4. line \in G!Line
  BY <1>1, <1>3 DEF G!Line, G!Lives
<1>5. mem' \in [Files -> SUBSET G!Line]
  BY <1>2, <1>4 DEF GlobInv
<1>6. G!TypeOK'
  BY <1>2, <1>3, <1>4, <1>5 DEF GlobInv, G!TypeOK
<1>7. \A g \in Files : Within(child[g], g)' /\ Within(ckpt[g], g)'
  <2> TAKE g \in Files
  <2>1. Within(child[g], g) /\ Within(ckpt[g], g)
    BY DEF GlobInv
  <2>2. CASE g = f
    BY <1>1, <1>2, <1>3, <2>1, <2>2 DEF Within
  <2>3. CASE g # f
    BY <1>2, <2>1, <2>3 DEF Within, GlobInv, G!TypeOK
  <2> QED BY <2>2, <2>3
<1>8. G!ReadIsKept'
  <2>1. \A g \in Files : mem[g] \cup queue[g] \subseteq mem'[g] \cup queue'[g]
    BY <1>2 DEF GlobInv
  <2>2. line \in mem'[f]
    BY <1>2 DEF GlobInv
  <2>3. read' \subseteq read \cup UNION {mem'[g] : g \in Files}
    BY <1>2, <2>2
  <2> QED BY <1>2, <2>1, <2>3, GlobKeeps DEF GlobInv
<1> QED BY <1>2, <1>5, <1>6, <1>7, <1>8 DEF GlobInv

\* Follow, Idle, Wake and Fails move the child and keep its position in a file.
LEMMA ChildMoves ==
  ASSUME GlobInv, NEW f \in Files, NEW c, child' = [child EXCEPT ![f] = c],
         c \in [at : {"read", "idle", "ok", "err"}, life : 0..MaxLives, pos : 0..MaxLines],
         child[f].at # "none", Within(c, f), UNCHANGED <<written, ckpt>>
  PROVE  /\ child' \in [Files -> [at : {"none", "read", "idle", "ok", "err"},
                                  life : 0..MaxLives, pos : 0..MaxLines]]
         /\ G!Running' = G!Running
         /\ \A g \in Files : Within(child[g], g)' /\ Within(ckpt[g], g)'
<1>1. child' \in [Files -> [at : {"none", "read", "idle", "ok", "err"},
                            life : 0..MaxLives, pos : 0..MaxLines]]
  BY DEF GlobInv, G!TypeOK
<1>2. \A g \in Files : child'[g] = IF g = f THEN c ELSE child[g]
  BY DEF GlobInv, G!TypeOK
<1>3. G!Running' = G!Running
  BY <1>2 DEF G!Running
<1>4. \A g \in Files : Within(child[g], g)' /\ Within(ckpt[g], g)'
  BY <1>2 DEF GlobInv, Within
<1> QED BY <1>1, <1>3, <1>4

LEMMA GlobFollow == ASSUME GlobInv, NEW f \in Files, G!Follow(f) PROVE GlobInv'
<1> DEFINE c == [at |-> "read", life |-> present[f], pos |-> 0]
<1>1. /\ child' = [child EXCEPT ![f] = c] /\ child[f].at # "none"
      /\ UNCHANGED <<present, lives, written, mem, paused, told, retiring, stopping, ckpt, queue,
                     stored, db, up, ends, read, dropped>>
  BY DEF G!Follow, G!world, G!sup, G!disk, G!env, G!history
<1>2. /\ c \in [at : {"read", "idle", "ok", "err"}, life : 0..MaxLives, pos : 0..MaxLines]
      /\ Within(c, f)
  <2>1. present[f] \in 0..MaxLives /\ MaxLines \in Nat /\ MaxLives \in Nat
    BY AgentAssumption DEF GlobInv, G!TypeOK, G!GlobAssumption
  <2>2. present[f] # 0 => written[f][present[f]] \in 0..MaxLines
    BY <2>1 DEF GlobInv, G!TypeOK, G!Lives
  <2> QED BY <2>1, <2>2 DEF Within
<1> HIDE DEF c
<1>3. /\ child' \in [Files -> [at : {"none", "read", "idle", "ok", "err"},
                               life : 0..MaxLives, pos : 0..MaxLines]]
      /\ G!Running' = G!Running
      /\ \A g \in Files : Within(child[g], g)' /\ Within(ckpt[g], g)'
  BY <1>1, <1>2, ChildMoves
<1>4. G!TypeOK'
  BY <1>1, <1>3 DEF GlobInv, G!TypeOK
<1>5. G!ReadIsKept'
  BY <1>1 DEF GlobInv, G!ReadIsKept, G!Somewhere
<1> QED BY <1>1, <1>3, <1>4, <1>5 DEF GlobInv

\* A step that moves the child on from one place in its loop to another.
LEMMA GlobTurn ==
  ASSUME GlobInv, NEW f \in Files, NEW at \in {"read", "idle"},
         child' = [child EXCEPT ![f].at = at], child[f].at # "none",
         UNCHANGED <<present, lives, written, mem, paused, told, retiring, stopping, ckpt, queue,
                     stored, db, up, ends, read, dropped>>
  PROVE  GlobInv'
<1> DEFINE c == [child[f] EXCEPT !.at = at]
<1>1. /\ child' = [child EXCEPT ![f] = c]
      /\ c \in [at : {"read", "idle", "ok", "err"}, life : 0..MaxLives, pos : 0..MaxLines]
      /\ c.life = child[f].life /\ c.pos = child[f].pos
  BY DEF GlobInv, G!TypeOK
<1>2. Within(c, f)
  BY <1>1 DEF GlobInv, Within
<1> HIDE DEF c
<1>3. /\ child' \in [Files -> [at : {"none", "read", "idle", "ok", "err"},
                               life : 0..MaxLives, pos : 0..MaxLines]]
      /\ G!Running' = G!Running
      /\ \A g \in Files : Within(child[g], g)' /\ Within(ckpt[g], g)'
  BY <1>1, <1>2, ChildMoves
<1>4. G!TypeOK'
  BY <1>3 DEF GlobInv, G!TypeOK
<1>5. G!ReadIsKept'
  BY DEF GlobInv, G!ReadIsKept, G!Somewhere
<1> QED BY <1>3, <1>4, <1>5 DEF GlobInv

LEMMA GlobIdle == ASSUME GlobInv, NEW f \in Files, G!Idle(f) PROVE GlobInv'
  BY GlobTurn DEF G!Idle, G!world, G!sup, G!disk, G!env, G!history

LEMMA GlobWake == ASSUME GlobInv, NEW f \in Files, G!Wake(f) PROVE GlobInv'
  BY GlobTurn DEF G!Wake, G!world, G!sup, G!disk, G!env, G!history

\* What a settled position is in: the one the child has.
LEMMA Settled ==
  ASSUME GlobInv, NEW f \in Files, UNCHANGED <<child, written>>,
         ckpt' = [ckpt EXCEPT ![f] = [life |-> child[f].life, pos |-> child[f].pos]]
  PROVE  /\ ckpt' \in [Files -> [life : 0..MaxLives, pos : 0..MaxLines]]
         /\ \A g \in Files : Within(child[g], g)' /\ Within(ckpt[g], g)'
<1>1. ckpt' \in [Files -> [life : 0..MaxLives, pos : 0..MaxLines]]
  BY DEF GlobInv, G!TypeOK
<1>2. \A g \in Files : Within(child[g], g) /\ Within(ckpt[g], g)
  BY DEF GlobInv
<1>3. \A g \in Files :
        ckpt'[g] = IF g = f THEN [life |-> child[f].life, pos |-> child[f].pos] ELSE ckpt[g]
  BY DEF GlobInv, G!TypeOK
<1>4. \A g \in Files : Within(child[g], g)' /\ Within(ckpt[g], g)'
  BY <1>2, <1>3 DEF Within
<1> QED BY <1>1, <1>4

LEMMA GlobSettle == ASSUME GlobInv, NEW f \in Files, G!Settle(f) PROVE GlobInv'
<1>1. /\ mem' = [mem EXCEPT ![f] = {}] /\ child[f].at # "none"
      /\ ckpt' = [ckpt EXCEPT ![f] = [life |-> child[f].life, pos |-> child[f].pos]]
      /\ \/ stored' = stored \cup mem[f] /\ UNCHANGED <<queue, paused>>
         \/ /\ queue' = [queue EXCEPT ![f] = @ \cup mem[f]] /\ UNCHANGED stored
            /\ paused' \subseteq paused \cup {f}
      /\ UNCHANGED <<present, lives, written, child, told, retiring, stopping, db, up, ends,
                     read, dropped>>
  BY DEF G!Settle, G!world, G!sup, G!env, G!history
<1>2. /\ ckpt' \in [Files -> [life : 0..MaxLives, pos : 0..MaxLines]]
      /\ \A g \in Files : Within(child[g], g)' /\ Within(ckpt[g], g)'
  BY <1>1, Settled
<1>3. /\ mem' \in [Files -> SUBSET G!Line] /\ queue' \in [Files -> SUBSET G!Line]
      /\ stored' \subseteq G!Line
  BY <1>1 DEF GlobInv, G!TypeOK
<1>4. paused' \subseteq G!Running' /\ G!Running' = G!Running
  BY <1>1 DEF GlobInv, G!TypeOK, G!Running
<1>5. G!TypeOK'
  BY <1>1, <1>2, <1>3, <1>4 DEF GlobInv, G!TypeOK
<1>6. G!ReadIsKept'
  <2>1. \A g \in Files : mem[g] \cup queue[g] \subseteq mem'[g] \cup queue'[g] \cup stored'
    BY <1>1 DEF GlobInv
  <2>2. stored \subseteq stored'
    BY <1>1
  <2> QED BY <1>1, <2>1, <2>2, GlobKeeps DEF GlobInv
<1> QED BY <1>2, <1>3, <1>5, <1>6 DEF GlobInv

LEMMA GlobDrainQueue == ASSUME GlobInv, NEW f \in Files, G!DrainQueue(f) PROVE GlobInv'
<1>1. /\ stored' = stored \cup queue[f] /\ queue' = [queue EXCEPT ![f] = {}]
      /\ paused' \subseteq paused
      /\ UNCHANGED <<present, lives, written, child, mem, told, retiring, stopping, ckpt, db, up,
                     ends, read, dropped>>
  BY DEF G!DrainQueue, G!world, G!sup, G!env, G!history
<1>2. queue' \in [Files -> SUBSET G!Line] /\ stored' \subseteq G!Line
  BY <1>1 DEF GlobInv, G!TypeOK
<1>3. G!TypeOK'
  BY <1>1, <1>2 DEF GlobInv, G!TypeOK, G!Running
<1>4. \A g \in Files : Within(child[g], g)' /\ Within(ckpt[g], g)'
  BY <1>1 DEF GlobInv, Within
<1>5. G!ReadIsKept'
  <2>1. \A g \in Files : mem[g] \cup queue[g] \subseteq mem'[g] \cup queue'[g] \cup stored'
    BY <1>1 DEF GlobInv
  <2> QED BY <1>1, <2>1, GlobKeeps DEF GlobInv
<1> QED BY <1>1, <1>2, <1>3, <1>4, <1>5 DEF GlobInv

LEMMA GlobFinish == ASSUME GlobInv, NEW f \in Files, G!Finish(f) PROVE GlobInv'
<1> DEFINE c == [child[f] EXCEPT !.at = "ok"]
           left == mem[f] \cup queue[f]
<1>1. /\ mem' = [mem EXCEPT ![f] = {}] /\ child[f].at # "none"
      /\ ckpt' = [ckpt EXCEPT ![f] = [life |-> child[f].life, pos |-> child[f].pos]]
      /\ child' = [child EXCEPT ![f].at = "ok"]
      /\ \/ stored' = stored \cup left /\ queue' = [queue EXCEPT ![f] = {}]
         \/ queue' = [queue EXCEPT ![f] = left] /\ UNCHANGED stored
      /\ UNCHANGED <<present, lives, written, paused, told, retiring, stopping, db, up, ends,
                     read, dropped>>
  BY DEF G!Finish, G!world, G!sup, G!env
<1>2. /\ child'[f] = c /\ c.life = child[f].life /\ c.pos = child[f].pos /\ c.at = "ok"
      /\ \A g \in Files \ {f} : child'[g] = child[g]
      /\ child' \in [Files -> [at : {"none", "read", "idle", "ok", "err"},
                               life : 0..MaxLives, pos : 0..MaxLines]]
  BY <1>1 DEF GlobInv, G!TypeOK
<1>3. /\ ckpt'[f] = [life |-> child[f].life, pos |-> child[f].pos]
      /\ \A g \in Files \ {f} : ckpt'[g] = ckpt[g]
      /\ ckpt' \in [Files -> [life : 0..MaxLives, pos : 0..MaxLines]]
  BY <1>1 DEF GlobInv, G!TypeOK
<1>4. \A g \in Files : Within(child[g], g)' /\ Within(ckpt[g], g)'
  <2> HIDE DEF c
  <2>1. \A g \in Files : Within(child[g], g) /\ Within(ckpt[g], g)
    BY DEF GlobInv
  <2> QED BY <1>1, <1>2, <1>3, <2>1 DEF Within
<1>5. /\ mem' \in [Files -> SUBSET G!Line] /\ queue' \in [Files -> SUBSET G!Line]
      /\ stored' \subseteq G!Line
  BY <1>1 DEF GlobInv, G!TypeOK
<1>6. G!Running' = G!Running
  BY <1>1, <1>2 DEF G!Running
<1>7. G!TypeOK'
  BY <1>1, <1>2, <1>3, <1>5, <1>6 DEF GlobInv, G!TypeOK
<1>8. G!ReadIsKept'
  <2>1. \A g \in Files : mem[g] \cup queue[g] \subseteq mem'[g] \cup queue'[g] \cup stored'
    BY <1>1 DEF GlobInv
  <2>2. stored \subseteq stored'
    BY <1>1
  <2> QED BY <1>1, <2>1, <2>2, GlobKeeps DEF GlobInv
<1> QED BY <1>4, <1>5, <1>7, <1>8 DEF GlobInv

LEMMA GlobFails == ASSUME GlobInv, NEW f \in Files, G!Fails(f) PROVE GlobInv'
<1> DEFINE c == [child[f] EXCEPT !.at = "err"]
<1>1. /\ child' = [child EXCEPT ![f] = c] /\ mem' = [mem EXCEPT ![f] = {}]
      /\ child[f].at # "none" /\ dropped' = dropped \cup mem[f] /\ ends' = ends + 1
      /\ ends < MaxEnds
      /\ UNCHANGED <<present, lives, written, paused, told, retiring, stopping, ckpt, queue,
                     stored, db, up, read>>
      /\ c \in [at : {"read", "idle", "ok", "err"}, life : 0..MaxLives, pos : 0..MaxLines]
      /\ c.life = child[f].life /\ c.pos = child[f].pos
  BY DEF GlobInv, G!TypeOK, G!Fails, G!world, G!sup, G!disk
<1>2. Within(c, f)
  BY <1>1 DEF GlobInv, Within
<1> HIDE DEF c
<1>3. /\ child' \in [Files -> [at : {"none", "read", "idle", "ok", "err"},
                               life : 0..MaxLives, pos : 0..MaxLines]]
      /\ G!Running' = G!Running
      /\ \A g \in Files : Within(child[g], g)' /\ Within(ckpt[g], g)'
  BY <1>1, <1>2, ChildMoves
<1>4. mem' \in [Files -> SUBSET G!Line] /\ dropped' \subseteq G!Line
  BY <1>1 DEF GlobInv, G!TypeOK
<1>5. ends' \in 0..MaxEnds
  BY <1>1, AgentAssumption DEF GlobInv, G!TypeOK, G!GlobAssumption
<1>6. G!TypeOK'
  BY <1>1, <1>3, <1>4, <1>5 DEF GlobInv, G!TypeOK
<1>7. G!ReadIsKept'
  <2>1. \A g \in Files : mem[g] \cup queue[g] \subseteq mem'[g] \cup queue'[g] \cup dropped'
    BY <1>1 DEF GlobInv
  <2> QED BY <1>1, <2>1, GlobKeeps DEF GlobInv
<1> QED BY <1>1, <1>3, <1>4, <1>6, <1>7 DEF GlobInv

\* The supervisor's steps.
LEMMA GlobRescan == ASSUME GlobInv, NEW found, G!Rescan(found) PROVE GlobInv'
<1>1. /\ child' = G!Adopted(found)
      /\ told' = told \cup ((G!Running \ found) \ retiring)
      /\ retiring' = retiring \cup ((G!Running \ found) \ retiring)
      /\ UNCHANGED <<present, lives, written, mem, paused, stopping, ckpt, queue, stored, db, up,
                     ends, read, dropped>>
  BY DEF G!Rescan, G!world, G!disk, G!env, G!history
<1>2. /\ child' \in [Files -> [at : {"none", "read", "idle", "ok", "err"},
                               life : 0..MaxLives, pos : 0..MaxLines]]
      /\ \A f \in Files : Within(child[f], f)'
      /\ G!Running \subseteq G!Running'
  BY <1>1, Adoption
<1>3. told' \subseteq G!Running' /\ retiring' \subseteq told' /\ paused' \subseteq G!Running'
  BY <1>1, <1>2 DEF GlobInv, G!TypeOK
<1>4. G!TypeOK'
  BY <1>1, <1>2, <1>3 DEF GlobInv, G!TypeOK
<1>5. \A f \in Files : Within(ckpt[f], f)'
  BY <1>1 DEF GlobInv, Within
<1>6. G!ReadIsKept'
  BY <1>1 DEF GlobInv, G!ReadIsKept, G!Somewhere
<1> QED BY <1>1, <1>2, <1>4, <1>5, <1>6 DEF GlobInv

LEMMA GlobJoin == ASSUME GlobInv, NEW f \in Files, G!Join(f) PROVE GlobInv'
<1>1. /\ child' = [child EXCEPT ![f] = G!NoChild]
      /\ retiring' = retiring \ {f} /\ paused' = paused \ {f}
      /\ told' \in {told \ {f}, G!Running \ {f}}
      /\ ckpt' \in {ckpt, [ckpt EXCEPT ![f] = G!NoMark]}
      /\ stopping' \in {stopping, TRUE}
      /\ UNCHANGED <<present, lives, written, mem, queue, stored, db, up, ends, read, dropped>>
  BY DEF G!Join, G!Retired, G!world, G!env, G!history
<1>2. MaxLives \in Nat /\ MaxLines \in Nat
  BY AgentAssumption DEF G!GlobAssumption
<1>3. /\ child' \in [Files -> [at : {"none", "read", "idle", "ok", "err"},
                               life : 0..MaxLives, pos : 0..MaxLines]]
      /\ G!Running' = G!Running \ {f}
      /\ \A g \in Files : child'[g] \in {child[g], [at |-> "none", life |-> 0, pos |-> 0]}
  BY <1>1, <1>2 DEF GlobInv, G!TypeOK, G!Running, G!NoChild
<1>4. /\ ckpt' \in [Files -> [life : 0..MaxLives, pos : 0..MaxLines]]
      /\ \A g \in Files : ckpt'[g] \in {ckpt[g], [life |-> 0, pos |-> 0]}
  <2>1. [ckpt EXCEPT ![f] = G!NoMark] \in [Files -> [life : 0..MaxLives, pos : 0..MaxLines]]
    BY <1>2 DEF GlobInv, G!TypeOK, G!NoMark
  <2>2. \A g \in Files : [ckpt EXCEPT ![f] = G!NoMark][g] \in {ckpt[g], [life |-> 0, pos |-> 0]}
    BY DEF GlobInv, G!TypeOK, G!NoMark
  <2>3. ckpt \in [Files -> [life : 0..MaxLives, pos : 0..MaxLines]]
    BY DEF GlobInv, G!TypeOK
  <2> QED BY <1>1, <2>1, <2>2, <2>3
<1>5. told' \subseteq G!Running' /\ retiring' \subseteq told' /\ paused' \subseteq G!Running'
  BY <1>1, <1>3 DEF GlobInv, G!TypeOK
<1>6. G!TypeOK'
  BY <1>1, <1>3, <1>4, <1>5 DEF GlobInv, G!TypeOK
<1>7. \A g \in Files : Within(child[g], g)' /\ Within(ckpt[g], g)'
  <2>1. \A g \in Files : Within(child[g], g) /\ Within(ckpt[g], g)
    BY DEF GlobInv
  <2> QED BY <1>1, <1>3, <1>4, <2>1 DEF Within
<1>8. G!ReadIsKept'
  BY <1>1 DEF GlobInv, G!ReadIsKept, G!Somewhere
<1> QED BY <1>1, <1>6, <1>7, <1>8 DEF GlobInv

LEMMA GlobStart == ASSUME GlobInv, G!Start PROVE GlobInv'
<1>1. /\ child' = G!Adopted(G!Matches) /\ up' = TRUE /\ stopping' = FALSE
      /\ UNCHANGED <<present, lives, written, mem, paused, told, retiring, ckpt, queue, stored,
                     db, ends, read, dropped>>
  BY DEF G!Start, G!world, G!disk, G!history
<1>2. /\ child' \in [Files -> [at : {"none", "read", "idle", "ok", "err"},
                               life : 0..MaxLives, pos : 0..MaxLines]]
      /\ \A f \in Files : Within(child[f], f)'
      /\ G!Running \subseteq G!Running'
  BY <1>1, Adoption
<1>3. G!TypeOK'
  BY <1>1, <1>2 DEF GlobInv, G!TypeOK
<1>4. \A f \in Files : Within(ckpt[f], f)'
  BY <1>1 DEF GlobInv, Within
<1>5. G!ReadIsKept'
  BY <1>1 DEF GlobInv, G!ReadIsKept, G!Somewhere
<1> QED BY <1>1, <1>2, <1>3, <1>4, <1>5 DEF GlobInv

LEMMA GlobCrash == ASSUME GlobInv, G!Crash PROVE GlobInv'
<1>1. /\ up' = FALSE /\ ends' = ends + 1 /\ ends < MaxEnds
      /\ dropped' = dropped \cup UNION {mem[f] : f \in Files}
      /\ child' = [f \in Files |-> G!NoChild] /\ mem' = [f \in Files |-> {}]
      /\ told' = {} /\ paused' = {} /\ retiring' = {} /\ stopping' = FALSE
      /\ UNCHANGED <<present, lives, written, ckpt, queue, stored, db, read>>
  BY DEF G!Crash, G!world, G!disk
<1>2. MaxLives \in Nat /\ MaxLines \in Nat /\ MaxEnds \in Nat
  BY AgentAssumption DEF G!GlobAssumption
<1>3. child' \in [Files -> [at : {"none", "read", "idle", "ok", "err"},
                            life : 0..MaxLives, pos : 0..MaxLines]]
  BY <1>1, <1>2 DEF G!NoChild
<1>4. mem' \in [Files -> SUBSET G!Line] /\ dropped' \subseteq G!Line /\ ends' \in 0..MaxEnds
  BY <1>1, <1>2 DEF GlobInv, G!TypeOK
<1>5. G!TypeOK'
  BY <1>1, <1>3, <1>4 DEF GlobInv, G!TypeOK
<1>6. \A g \in Files : Within(child[g], g)' /\ Within(ckpt[g], g)'
  BY <1>1 DEF GlobInv, Within, G!NoChild
<1>7. G!ReadIsKept'
  <2>1. \A g \in Files : mem[g] \cup queue[g] \subseteq mem'[g] \cup queue'[g] \cup dropped'
    BY <1>1
  <2> QED BY <1>1, <2>1, GlobKeeps DEF GlobInv
<1> QED BY <1>1, <1>4, <1>5, <1>6, <1>7 DEF GlobInv

LEMMA GlobEnds ==
  ASSUME GlobInv, G!Shutdown \/ G!Exit \/ G!DbFlip
  PROVE  GlobInv'
<1>1. /\ up' \in BOOLEAN /\ stopping' \in BOOLEAN /\ db' \in {"up", "down"}
      /\ told' \in {told, told \cup G!Running} /\ (ends' = ends \/ (ends' = ends + 1 /\ ends < MaxEnds))
      /\ UNCHANGED <<present, lives, written, child, mem, paused, retiring, ckpt, queue, stored,
                     read, dropped>>
  BY DEF GlobInv, G!TypeOK, G!Shutdown, G!Exit, G!DbFlip, G!world, G!sup, G!disk, G!history
<1>2. ends' \in 0..MaxEnds
  BY <1>1, AgentAssumption DEF GlobInv, G!TypeOK, G!GlobAssumption
<1>3. G!TypeOK'
  BY <1>1, <1>2 DEF GlobInv, G!TypeOK, G!Running
<1>4. \A g \in Files : Within(child[g], g)' /\ Within(ckpt[g], g)'
  BY <1>1 DEF GlobInv, Within
<1>5. G!ReadIsKept'
  BY <1>1 DEF GlobInv, G!ReadIsKept, G!Somewhere
<1> QED BY <1>1, <1>3, <1>4, <1>5 DEF GlobInv

\* The node's steps, which touch nothing of the agent's.
LEMMA GlobCreateDelete ==
  ASSUME GlobInv, NEW f \in Files, G!Create(f) \/ G!Delete(f)
  PROVE  GlobInv'
<1>1. UNCHANGED <<written, child, mem, paused, told, retiring, stopping, ckpt, queue, stored, db,
                  up, ends, read, dropped>>
  BY DEF G!Create, G!Delete, G!sup, G!disk, G!env, G!history
<1>2. present' \in [Files -> 0..MaxLives] /\ lives' \in [Files -> 0..MaxLives]
  <2>1. /\ MaxLives \in Nat /\ lives \in [Files -> 0..MaxLives]
        /\ present \in [Files -> 0..MaxLives]
    BY AgentAssumption DEF GlobInv, G!TypeOK, G!GlobAssumption
  <2>2. CASE G!Create(f)
    <3>1. lives[f] + 1 \in 0..MaxLives
      BY <2>1, <2>2 DEF G!Create
    <3>2. lives' = [lives EXCEPT ![f] = lives[f] + 1] /\ present' = [present EXCEPT ![f] = lives'[f]]
      BY <2>1, <2>2 DEF G!Create
    <3>3. lives'[f] = lives[f] + 1
      BY <2>1, <3>2
    <3> QED BY <2>1, <3>1, <3>2, <3>3
  <2>3. CASE G!Delete(f)
    BY <2>1, <2>3 DEF G!Delete
  <2> QED BY <2>2, <2>3
<1>3. G!TypeOK'
  BY <1>1, <1>2 DEF GlobInv, G!TypeOK, G!Running
<1>4. \A g \in Files : Within(child[g], g)' /\ Within(ckpt[g], g)'
  BY <1>1 DEF GlobInv, Within
<1>5. G!ReadIsKept'
  BY <1>1 DEF GlobInv, G!ReadIsKept, G!Somewhere
<1> QED BY <1>1, <1>3, <1>4, <1>5 DEF GlobInv

LEMMA GlobWrite == ASSUME GlobInv, NEW f \in Files, G!Write(f) PROVE GlobInv'
<1> DEFINE k == present[f]
<1>1. /\ written' = [written EXCEPT ![f][k] = @ + 1] /\ k # 0
      /\ UNCHANGED <<present, lives, child, mem, paused, told, retiring, stopping, ckpt, queue,
                     stored, db, up, ends, read, dropped>>
  BY DEF G!Write, G!sup, G!disk, G!env, G!history
<1>2. k \in G!Lives /\ MaxLines \in Nat /\ MaxLives \in Nat
  BY <1>1, AgentAssumption DEF GlobInv, G!TypeOK, G!Lives, G!GlobAssumption
<1>3. written[f][k] < MaxLines /\ written[f][k] \in 0..MaxLines
  <2>1. Cardinality(G!AllLines(f)) < MaxLines
    BY SameCardinality DEF G!Write
  <2>2. written[f][k] < MaxLines
    BY <1>2, <2>1, WrittenBelow
  <2> QED BY <1>2, <2>2 DEF GlobInv, G!TypeOK
<1>4. /\ written' \in [Files -> [G!Lives -> 0..MaxLines]]
      /\ \A g \in Files : \A j \in G!Lives : written[g][j] <= written'[g][j]
  BY <1>1, <1>2, <1>3 DEF GlobInv, G!TypeOK
<1>5. G!TypeOK'
  BY <1>1, <1>4 DEF GlobInv, G!TypeOK, G!Running
<1>6. \A g \in Files : Within(child[g], g)' /\ Within(ckpt[g], g)'
  <2> TAKE g \in Files
  <2>1. /\ child[g].life \in 0..MaxLives /\ ckpt[g].life \in 0..MaxLives
        /\ child[g].pos \in 0..MaxLines /\ ckpt[g].pos \in 0..MaxLines
        /\ Within(child[g], g) /\ Within(ckpt[g], g)
        /\ \A j \in G!Lives : written[g][j] \in 0..MaxLines /\ written'[g][j] \in 0..MaxLines
    BY <1>4 DEF GlobInv, G!TypeOK
  <2>2. /\ child[g].life # 0 => child[g].life \in G!Lives
        /\ ckpt[g].life # 0 => ckpt[g].life \in G!Lives
    BY <1>2, <2>1 DEF G!Lives
  <2>3. Within(child[g], g)'
    BY <1>1, <1>4, <2>1, <2>2 DEF Within
  <2>4. Within(ckpt[g], g)'
    BY <1>1, <1>4, <2>1, <2>2 DEF Within
  <2> QED BY <2>3, <2>4
<1>7. G!ReadIsKept'
  BY <1>1 DEF GlobInv, G!ReadIsKept, G!Somewhere
<1> QED BY <1>1, <1>5, <1>6, <1>7 DEF GlobInv

LEMMA GlobStutters == ASSUME GlobInv, UNCHANGED glob PROVE GlobInv'
<1>1. UNCHANGED <<present, lives, written, child, mem, paused, told, retiring, stopping, ckpt,
                  queue, stored, db, up, ends, read, dropped>>
  BY DEF glob
<1>2. G!TypeOK' /\ G!ReadIsKept'
  BY <1>1 DEF GlobInv, G!TypeOK, G!Running, G!ReadIsKept, G!Somewhere
<1> QED BY <1>1, <1>2 DEF GlobInv, Within

\* Every step of the supervisor, its children and the node.
LEMMA GlobNext == ASSUME GlobInv, G!Next PROVE GlobInv'
<1>1. CASE \E f \in Files : G!Pass(f)
  BY <1>1, GlobRead, GlobFollow, GlobIdle, GlobWake, GlobFinish DEF G!Pass
<1>2. CASE \E f \in Files : G!Settle(f) \/ G!DrainQueue(f) \/ G!Fails(f) \/ G!Join(f)
  BY <1>2, GlobSettle, GlobDrainQueue, GlobFails, GlobJoin
<1>3. CASE \E f \in Files : G!Create(f) \/ G!Write(f) \/ G!Delete(f)
  BY <1>3, GlobCreateDelete, GlobWrite
<1>4. CASE G!Scan \/ G!Rescan({})
  BY <1>4, GlobRescan DEF G!Scan
<1>5. CASE G!Shutdown \/ G!Exit \/ G!DbFlip
  BY <1>5, GlobEnds
<1>6. CASE G!Crash \/ G!Start
  BY <1>6, GlobCrash, GlobStart
<1> QED BY <1>1, <1>2, <1>3, <1>4, <1>5, <1>6 DEF G!Next

(***************************************************************************)
(* The coordinator                                                         *)
(***************************************************************************)

TaskType ==
  [at : {"setup", "tail", "ok", "err", "joined"}, told : BOOLEAN,
   path : Paths, rules : 0..MaxEdits, knobs : 0..MaxEdits, seen : 0..(MaxReloads + 1)]

\* Every task but one of a name has been joined; a new one is only spawned when
\* all have, and otherwise the name is in `readded'.
OneUnjoined ==
  \A n \in Names \ readded : \A j, k \in DOMAIN tasks[n] :
    tasks[n][j].at # "joined" /\ tasks[n][k].at # "joined" => j = k

\* The inductive invariant of the coordinator.
CoordInv ==
  /\ C!TypeOK
  /\ running \in [Names -> Nat] /\ tasks \in [Names -> Seq(TaskType)]
  /\ hup => gen < MaxReloads
  /\ OneUnjoined

\* At most one task that is not joined is at most one live task.
LEMMA OneLive == CoordInv => C!OneTask
<1> SUFFICES ASSUME CoordInv, NEW n \in Names \ readded
             PROVE  C!Cardinality(C!Live(n)) <= 1
  BY DEF C!OneTask
<1>1. \A j, k \in C!Live(n) : j = k
  BY DEF CoordInv, OneUnjoined, C!Live, C!Alive
<1>2. CASE C!Live(n) = {}
  BY <1>2, SameCardinality, FS_EmptySet
<1>3. CASE C!Live(n) # {}
  <2>1. PICK k : C!Live(n) = {k}
    BY <1>1, <1>3
  <2> QED BY <2>1, SameCardinality, FS_Singleton
<1> QED BY <1>2, <1>3

\* A task that is spawned has its type.
LEMMA TaskTyped ==
  ASSUME NEW f, f.path \in Paths, f.version \in 0..MaxEdits
  PROVE  C!Task(f) \in TaskType
  BY AgentAssumption DEF C!Task, TaskType, C!CoordinatorAssumption

\* A joined task has its type.
LEMMA GoneTyped == C!Gone \in TaskType /\ C!Gone.at = "joined"
<1>1. C!FirstPath \in Paths /\ 0 \in 0..MaxEdits
  BY AgentAssumption DEF C!FirstPath, C!CoordinatorAssumption
<1>2. C!Task([path |-> C!FirstPath, version |-> 0]) \in TaskType
  BY <1>1, TaskTyped
<1> QED BY <1>2 DEF C!Gone, TaskType

\* A function over 1..n is a sequence.
LEMMA FunctionIsSeq ==
  ASSUME NEW S, NEW n \in Nat, NEW s \in [1..n -> S]
  PROVE  s \in Seq(S) /\ Len(s) = n
  OBVIOUS

\* Telling a task to stop moves no task and spawns none.
LEMMA TellingTyped ==
  ASSUME NEW ts \in [Names -> Seq(TaskType)], NEW told_
  PROVE  /\ C!Telling(ts, told_) \in [Names -> Seq(TaskType)]
         /\ \A n \in Names : /\ DOMAIN C!Telling(ts, told_)[n] = DOMAIN ts[n]
                             /\ Len(C!Telling(ts, told_)[n]) = Len(ts[n])
                             /\ \A k \in DOMAIN ts[n] : C!Telling(ts, told_)[n][k].at = ts[n][k].at
<1> DEFINE t == C!Telling(ts, told_)
<1>1. ASSUME NEW n \in Names
      PROVE  /\ t[n] \in Seq(TaskType) /\ DOMAIN t[n] = DOMAIN ts[n] /\ Len(t[n]) = Len(ts[n])
             /\ \A k \in DOMAIN ts[n] : t[n][k].at = ts[n][k].at
  <2>1. ts[n] \in Seq(TaskType) /\ DOMAIN ts[n] = 1..Len(ts[n]) /\ Len(ts[n]) \in Nat
    BY <1>1, LenProperties
  <2>2. \A k \in DOMAIN ts[n] : ts[n][k] \in TaskType
    BY <2>1, ElementOfSeq
  <2>3. t[n] = [k \in DOMAIN ts[n] |-> IF <<n, k>> \in told_ THEN [ts[n][k] EXCEPT !.told = TRUE]
                                       ELSE ts[n][k]]
    BY <1>1 DEF C!Telling
  <2>4. \A k \in DOMAIN ts[n] : t[n][k] \in TaskType /\ t[n][k].at = ts[n][k].at
    <3> TAKE k \in DOMAIN ts[n]
    <3>1. ts[n][k] \in TaskType
      BY <2>2
    <3>2. [ts[n][k] EXCEPT !.told = TRUE] \in TaskType /\ [ts[n][k] EXCEPT !.told = TRUE].at = ts[n][k].at
      BY <3>1 DEF TaskType
    <3> QED BY <2>3, <3>1, <3>2
  <2>5. t[n] \in [1..Len(ts[n]) -> TaskType]
    BY <2>1, <2>3, <2>4
  <2> HIDE DEF t
  <2>6. t[n] \in Seq(TaskType) /\ Len(t[n]) = Len(ts[n])
    BY <2>1, <2>5, FunctionIsSeq
  <2> QED BY <2>1, <2>4, <2>5, <2>6
<1>2. t \in [Names -> Seq(TaskType)]
  <2>1. t = [n \in Names |-> t[n]]
    BY DEF C!Telling
  <2> HIDE DEF t
  <2> QED BY <1>1, <2>1
<1> QED BY <1>1, <1>2

\* Replacing one task leaves the others, and their number.
LEMMA OneReplaced ==
  ASSUME NEW ts \in [Names -> Seq(TaskType)], NEW n \in Names, NEW k \in DOMAIN ts[n],
         NEW t \in TaskType
  PROVE  LET new == [ts EXCEPT ![n][k] = t] IN
         /\ new \in [Names -> Seq(TaskType)]
         /\ \A m \in Names : /\ DOMAIN new[m] = DOMAIN ts[m] /\ Len(new[m]) = Len(ts[m])
                             /\ \A j \in DOMAIN ts[m] :
                                  new[m][j] = IF m = n /\ j = k THEN t ELSE ts[m][j]
<1> DEFINE s == [ts[n] EXCEPT ![k] = t]
           new == [ts EXCEPT ![n] = s]
<1>1. ts[n] \in Seq(TaskType)
  OBVIOUS
<1>2. /\ s \in Seq(TaskType) /\ Len(s) = Len(ts[n]) /\ DOMAIN s = DOMAIN ts[n]
      /\ \A j \in DOMAIN ts[n] : s[j] = IF j = k THEN t ELSE ts[n][j]
  BY <1>1, ExceptSeq
<1> HIDE DEF s
<1>3. new \in [Names -> Seq(TaskType)] /\ \A m \in Names : new[m] = IF m = n THEN s ELSE ts[m]
  BY <1>2
<1>4. new = [ts EXCEPT ![n][k] = t]
  BY DEF s
<1> HIDE DEF new
<1>5. \A m \in Names : /\ DOMAIN new[m] = DOMAIN ts[m] /\ Len(new[m]) = Len(ts[m])
                       /\ \A j \in DOMAIN ts[m] :
                            new[m][j] = IF m = n /\ j = k THEN t ELSE ts[m][j]
  BY <1>2, <1>3
<1> QED BY <1>3, <1>4, <1>5

LEMMA CoordInit == C!Init => CoordInv
<1> SUFFICES ASSUME C!Init PROVE CoordInv
  OBVIOUS
<1>1. C!FirstPath \in Paths /\ 0 \in 0..MaxEdits /\ 0 \in 0..(MaxReloads + 1) /\ MaxReloads \in Nat
  BY AgentAssumption DEF C!FirstPath, C!CoordinatorAssumption
<1>2. file \in [valid : BOOLEAN, names : SUBSET Names, path : Paths, version : 0..MaxEdits]
  BY <1>1 DEF C!Init
<1>3. C!Task(file) \in TaskType
  BY <1>2, TaskTyped
<1>4. /\ <<C!Task(file)>> \in Seq(TaskType) /\ Len(<<C!Task(file)>>) = 1
      /\ DOMAIN <<C!Task(file)>> = {1}
  <2> DEFINE t == C!Task(file)
  <2> HIDE DEF t
  <2>1. <<t>> \in Seq(TaskType) /\ Len(<<t>>) = 1 /\ DOMAIN <<t>> = {1}
    BY <1>3 DEF t
  <2> QED BY <2>1 DEF t
<1>5. /\ tasks \in [Names -> Seq(TaskType)] /\ running \in [Names -> Nat]
      /\ \A n \in Names : DOMAIN tasks[n] = {1} /\ Len(tasks[n]) = 1 /\ running[n] = 1
  BY <1>4 DEF C!Init
<1>6. \A n \in Names : \A k \in DOMAIN tasks[n] : tasks[n][k] \in TaskType
  BY <1>5, ElementOfSeq
<1>7. C!TypeOK
  <2>1. \A n \in Names : running[n] \in 0..Len(tasks[n])
    <3> TAKE n \in Names
    <3>1. running[n] = 1 /\ Len(tasks[n]) = 1
      BY <1>5
    <3> QED BY <3>1
  <2>2. gen \in 0..(MaxReloads + 1) /\ readded \subseteq Names
    BY <1>1 DEF C!Init
  <2> QED BY <1>2, <1>6, <2>1, <2>2 DEF C!Init, C!TypeOK, TaskType
<1>8. OneUnjoined
  BY <1>5 DEF OneUnjoined
<1> QED BY <1>5, <1>7, <1>8 DEF CoordInv, C!Init

\* What a step on the tasks has to show: their type follows from that of the
\* sequences, and no joined task comes back.
LEMMA TasksTyped ==
  ASSUME NEW ts \in [Names -> Seq(TaskType)]
  PROVE  \A n \in Names : \A k \in DOMAIN ts[n] : ts[n][k] \in TaskType
  BY ElementOfSeq, LenProperties

LEMMA UnjoinedKept ==
  ASSUME CoordInv, UNCHANGED readded,
         \A n \in Names : /\ DOMAIN tasks'[n] = DOMAIN tasks[n]
                          /\ \A k \in DOMAIN tasks[n] :
                               tasks'[n][k].at # "joined" => tasks[n][k].at # "joined"
  PROVE  OneUnjoined'
  BY DEF CoordInv, OneUnjoined

\* A task's own step: it alone changes, and it was not joined.
LEMMA TaskStep ==
  ASSUME CoordInv, NEW n \in Names, NEW k \in DOMAIN tasks[n], NEW t \in TaskType,
         tasks' = [tasks EXCEPT ![n][k] = t], tasks[n][k].at # "joined",
         UNCHANGED <<file, once, hup, running, gen, signalled, failed, loop, loaded, readded>>
  PROVE  CoordInv'
<1>1. /\ tasks' \in [Names -> Seq(TaskType)]
      /\ \A m \in Names : /\ DOMAIN tasks'[m] = DOMAIN tasks[m] /\ Len(tasks'[m]) = Len(tasks[m])
                          /\ \A j \in DOMAIN tasks[m] :
                               tasks'[m][j] = IF m = n /\ j = k THEN t ELSE tasks[m][j]
  BY OneReplaced DEF CoordInv
<1>2. \A m \in Names : \A j \in DOMAIN tasks'[m] : tasks'[m][j] \in TaskType
  BY <1>1, TasksTyped
<1>3. C!TypeOK'
  BY <1>1, <1>2 DEF CoordInv, C!TypeOK, TaskType
<1>4. OneUnjoined'
  BY <1>1, UnjoinedKept
<1> QED BY <1>1, <1>3, <1>4 DEF CoordInv

LEMMA CoordWork ==
  ASSUME CoordInv, NEW n \in Names, NEW k \in DOMAIN tasks[n],
         C!Setup(n, k) \/ C!Reload(n, k) \/ C!Stop(n, k) \/ C!Fails(n, k)
  PROVE  CoordInv'
<1>1. /\ tasks[n][k] \in TaskType /\ gen \in 0..(MaxReloads + 1)
      /\ file.version \in 0..MaxEdits
  BY TasksTyped DEF CoordInv, C!TypeOK
<1>2. UNCHANGED <<file, once, hup, running, gen, signalled, failed, loop, loaded, readded>>
  BY DEF C!Setup, C!Reload, C!Stop, C!Fails, C!Moves, C!coord, C!history
<1>3. CASE C!Setup(n, k)
  <2> DEFINE t == [tasks[n][k] EXCEPT !.at = "tail", !.seen = gen]
  <2>1. t \in TaskType /\ tasks' = [tasks EXCEPT ![n][k] = t] /\ tasks[n][k].at # "joined"
    BY <1>1, <1>3 DEF C!Setup, TaskType, CoordInv
  <2> QED BY <1>2, <2>1, TaskStep
<1>4. CASE C!Reload(n, k)
  <2> DEFINE t == [tasks[n][k] EXCEPT
                     !.seen = gen, !.knobs = IF file.valid THEN file.version ELSE @,
                     !.rules = IF file.valid /\ n \in file.names /\ file.path = tasks[n][k].path
                                 THEN file.version ELSE @]
  <2>1. t \in TaskType /\ tasks' = [tasks EXCEPT ![n][k] = t] /\ tasks[n][k].at # "joined"
    <3>1. tasks[n][k].at = "tail" /\ tasks' = [tasks EXCEPT ![n][k] = t]
      BY <1>4 DEF C!Reload
    <3>2. t \in TaskType
      BY <1>1 DEF TaskType
    <3> QED BY <3>1, <3>2
  <2> QED BY <1>2, <2>1, TaskStep
<1>5. CASE C!Stop(n, k)
  <2> DEFINE t == [tasks[n][k] EXCEPT !.at = "ok"]
  <2>1. t \in TaskType /\ tasks' = [tasks EXCEPT ![n][k] = t] /\ tasks[n][k].at # "joined"
    BY <1>1, <1>5 DEF C!Stop, C!Moves, TaskType, CoordInv
  <2> QED BY <1>2, <2>1, TaskStep
<1>6. CASE C!Fails(n, k)
  <2> DEFINE t == [tasks[n][k] EXCEPT !.at = "err"]
  <2>1. t \in TaskType /\ tasks' = [tasks EXCEPT ![n][k] = t] /\ tasks[n][k].at # "joined"
    BY <1>1, <1>6 DEF C!Fails, C!Moves, C!Alive, TaskType, CoordInv
  <2> QED BY <1>2, <2>1, TaskStep
<1> QED BY <1>3, <1>4, <1>5, <1>6

\* Removing sources and stopping tells their tasks; a source that is added gets
\* one task, after all its earlier ones were joined or else in `readded'.
LEMMA CoordReload == ASSUME CoordInv, C!ReloadSourceSet PROVE CoordInv'
<1>1. CASE ~file.valid
  <2>1. /\ hup' = FALSE
        /\ UNCHANGED <<tasks, running, gen, loaded, readded, file, once, signalled, failed, loop, late>>
    BY <1>1 DEF C!ReloadSourceSet
  <2>2. C!TypeOK' /\ OneUnjoined'
    BY <2>1 DEF CoordInv, C!TypeOK, OneUnjoined
  <2> QED BY <2>1, <2>2 DEF CoordInv
<1>2. CASE file.valid
  <2> DEFINE added == C!Added
             told_ == {<<n, running[n]>> : n \in C!Removed}
             ts    == C!Telling(tasks, told_)
             new   == C!Task(file)
  <2>1. /\ hup' = FALSE /\ hup /\ gen' = gen + 1 /\ loaded' = file.version
        /\ tasks' = C!Spawned(ts, added, file)
        /\ running' = [n \in Names |-> IF n \in added THEN Len(tasks[n]) + 1
                                       ELSE IF n \in C!Removed THEN 0 ELSE running[n]]
        /\ readded' = readded \cup {n \in added : running[n] = 0 /\ ~C!Joined(n)}
        /\ UNCHANGED <<file, once, signalled, failed, loop, late>>
    BY <1>2 DEF C!ReloadSourceSet
  <2>2. /\ file \in [valid : BOOLEAN, names : SUBSET Names, path : Paths, version : 0..MaxEdits]
        /\ new \in TaskType /\ added \subseteq Names /\ \A n \in added : running[n] = 0
    BY TaskTyped DEF CoordInv, C!TypeOK, C!Added
  <2>3. tasks \in [Names -> Seq(TaskType)] /\ running \in [Names -> Nat]
    BY DEF CoordInv
  <2>4. /\ ts \in [Names -> Seq(TaskType)]
        /\ \A n \in Names : /\ DOMAIN ts[n] = DOMAIN tasks[n] /\ Len(ts[n]) = Len(tasks[n])
                            /\ \A k \in DOMAIN tasks[n] : ts[n][k].at = tasks[n][k].at
    BY <2>3, TellingTyped
  <2> HIDE DEF ts, added, new
  <2>5. \A n \in Names : tasks'[n] = IF n \in added THEN Append(ts[n], new) ELSE ts[n]
    BY <2>1 DEF C!Spawned, new
  <2>6. ASSUME NEW n \in Names
        PROVE  /\ tasks'[n] \in Seq(TaskType) /\ Len(tasks[n]) \in Nat
               /\ DOMAIN tasks[n] = 1..Len(tasks[n])
               /\ n \in added => /\ Len(tasks'[n]) = Len(tasks[n]) + 1
                                 /\ DOMAIN tasks'[n] = DOMAIN tasks[n] \cup {Len(tasks[n]) + 1}
               /\ n \notin added => Len(tasks'[n]) = Len(tasks[n]) /\ DOMAIN tasks'[n] = DOMAIN tasks[n]
               /\ \A k \in DOMAIN tasks[n] : tasks'[n][k].at = tasks[n][k].at
    <3>1. /\ tasks[n] \in Seq(TaskType) /\ ts[n] \in Seq(TaskType)
          /\ Len(tasks[n]) \in Nat /\ DOMAIN tasks[n] = 1..Len(tasks[n])
          /\ DOMAIN ts[n] = DOMAIN tasks[n] /\ Len(ts[n]) = Len(tasks[n])
          /\ \A k \in DOMAIN tasks[n] : ts[n][k].at = tasks[n][k].at
      BY <2>3, <2>4, <2>6, LenProperties
    <3>2. CASE n \notin added
      BY <2>5, <2>6, <3>1, <3>2
    <3>3. CASE n \in added
      <4>1. tasks'[n] = Append(ts[n], new)
        BY <2>5, <2>6, <3>3
      <4>2. /\ tasks'[n] \in Seq(TaskType) /\ Len(tasks'[n]) = Len(tasks[n]) + 1
            /\ \A k \in 1..Len(tasks[n]) : tasks'[n][k] = ts[n][k]
        BY <2>2, <3>1, <4>1, AppendProperties
      <4>3. DOMAIN tasks'[n] = 1..(Len(tasks[n]) + 1)
        BY <4>2, LenProperties
      <4> QED BY <3>1, <3>3, <4>2, <4>3
    <3> QED BY <3>2, <3>3
  <2>7. tasks' \in [Names -> Seq(TaskType)]
    <3>1. tasks' = [n \in Names |-> tasks'[n]]
      BY <2>1 DEF C!Spawned
    <3> QED BY <2>6, <3>1
  <2>8. running' \in [Names -> Nat] /\ \A n \in Names : running'[n] \in 0..Len(tasks'[n])
    <3>1. \A n \in Names : running[n] \in 0..Len(tasks[n])
      BY DEF CoordInv, C!TypeOK
    <3>2. \A n \in Names : running'[n] = IF n \in added THEN Len(tasks[n]) + 1
                                        ELSE IF n \in C!Removed THEN 0 ELSE running[n]
      BY <2>1
    <3>3. \A n \in Names : running'[n] \in 0..Len(tasks'[n])
      BY <2>3, <2>6, <3>1, <3>2
    <3> QED BY <2>1, <2>3, <2>6, <3>3
  <2>9. gen' \in 0..(MaxReloads + 1) /\ readded' \subseteq Names
    BY <2>1, <2>2, AgentAssumption DEF CoordInv, C!TypeOK, C!CoordinatorAssumption
  <2>10. \A n \in Names : \A k \in DOMAIN tasks'[n] : tasks'[n][k] \in TaskType
    BY <2>7, TasksTyped
  <2>11. C!TypeOK'
    BY <2>1, <2>8, <2>9, <2>10 DEF CoordInv, C!TypeOK, TaskType
  <2>12. OneUnjoined'
    <3> SUFFICES ASSUME NEW n \in Names \ readded', NEW j \in DOMAIN tasks'[n],
                        NEW k \in DOMAIN tasks'[n],
                        tasks'[n][j].at # "joined", tasks'[n][k].at # "joined"
                 PROVE  j = k
      BY DEF OneUnjoined
    <3>1. n \in Names \ readded
      BY <2>1
    <3>2. CASE n \notin added
      BY <2>6, <3>1, <3>2 DEF CoordInv, OneUnjoined
    <3>3. CASE n \in added
      <4>1. \A i \in DOMAIN tasks[n] : tasks[n][i].at = "joined"
        BY <2>1, <2>2, <3>3 DEF C!Joined
      <4> QED BY <2>6, <3>1, <3>3, <4>1
    <3> QED BY <3>2, <3>3
  <2> QED BY <2>1, <2>7, <2>8, <2>11, <2>12 DEF CoordInv
<1> QED BY <1>1, <1>2

LEMMA CoordStop == ASSUME CoordInv, C!StopSignal PROVE CoordInv'
<1>1. /\ tasks' = C!Telling(tasks, C!Reachable) /\ signalled' = TRUE
      /\ UNCHANGED <<file, once, gen, hup, running, failed, loop, loaded, readded, late>>
  BY DEF C!StopSignal, C!history
<1>2. /\ tasks' \in [Names -> Seq(TaskType)]
      /\ \A n \in Names : /\ DOMAIN tasks'[n] = DOMAIN tasks[n] /\ Len(tasks'[n]) = Len(tasks[n])
                          /\ \A k \in DOMAIN tasks[n] : tasks'[n][k].at = tasks[n][k].at
  <2>1. tasks \in [Names -> Seq(TaskType)]
    BY DEF CoordInv
  <2> QED BY <1>1, <2>1, TellingTyped
<1>3. \A n \in Names : \A k \in DOMAIN tasks'[n] : tasks'[n][k] \in TaskType
  BY <1>2, TasksTyped
<1>4. C!TypeOK'
  BY <1>1, <1>2, <1>3 DEF CoordInv, C!TypeOK, TaskType
<1>5. OneUnjoined'
  BY <1>1, <1>2, UnjoinedKept
<1> QED BY <1>1, <1>2, <1>4, <1>5 DEF CoordInv

LEMMA CoordJoin ==
  ASSUME CoordInv, NEW n \in Names, NEW k \in DOMAIN tasks[n], C!Join(n, k)
  PROVE  CoordInv'
<1>1. PICK told_ :
        /\ tasks' = [C!Telling(tasks, told_) EXCEPT ![n][k] = C!Gone]
        /\ running' = [running EXCEPT ![n] = 0]
        /\ failed' \in BOOLEAN /\ signalled' \in BOOLEAN
        /\ UNCHANGED <<file, once, gen, hup, loop, loaded, readded, late>>
  BY DEF C!Join, C!history, CoordInv, C!TypeOK
<1> DEFINE ts == C!Telling(tasks, told_)
<1>2. /\ ts \in [Names -> Seq(TaskType)]
      /\ \A m \in Names : /\ DOMAIN ts[m] = DOMAIN tasks[m] /\ Len(ts[m]) = Len(tasks[m])
                          /\ \A j \in DOMAIN tasks[m] : ts[m][j].at = tasks[m][j].at
  BY TellingTyped DEF CoordInv
<1> HIDE DEF ts
<1>3. /\ tasks' \in [Names -> Seq(TaskType)]
      /\ \A m \in Names : /\ DOMAIN tasks'[m] = DOMAIN ts[m] /\ Len(tasks'[m]) = Len(ts[m])
                          /\ \A j \in DOMAIN ts[m] :
                               tasks'[m][j] = IF m = n /\ j = k THEN C!Gone ELSE ts[m][j]
  <2>1. tasks' = [ts EXCEPT ![n][k] = C!Gone]
    BY <1>1 DEF ts
  <2> QED BY <1>2, <2>1, GoneTyped, OneReplaced
<1>4. \A m \in Names : \A j \in DOMAIN tasks'[m] : tasks'[m][j] \in TaskType
  BY <1>3, TasksTyped
<1>5. running' \in [Names -> Nat] /\ \A m \in Names : running'[m] \in 0..Len(tasks'[m])
  <2>1. \A m \in Names : running[m] \in 0..Len(tasks[m]) /\ Len(tasks[m]) \in Nat
    BY LenProperties DEF CoordInv, C!TypeOK
  <2> QED BY <1>1, <1>2, <1>3, <2>1 DEF CoordInv
<1>6. C!TypeOK'
  BY <1>1, <1>4, <1>5 DEF CoordInv, C!TypeOK, TaskType
<1>7. OneUnjoined'
  BY <1>1, <1>2, <1>3, GoneTyped, UnjoinedKept
<1> QED BY <1>1, <1>3, <1>5, <1>6, <1>7 DEF CoordInv

\* Exit and the operator's steps leave the tasks alone.
LEMMA CoordOperator == ASSUME CoordInv, C!Exit \/ C!Edit \/ C!Hup PROVE CoordInv'
<1>1. /\ UNCHANGED <<tasks, running, gen, once, signalled, failed, loaded, readded, late>>
      /\ loop' \in BOOLEAN /\ hup' \in BOOLEAN /\ (hup' => gen < MaxReloads)
  <2>1. loop \in BOOLEAN /\ hup \in BOOLEAN /\ (hup => gen < MaxReloads)
    BY DEF CoordInv, C!TypeOK
  <2>2. CASE C!Exit
    BY <2>1, <2>2 DEF C!Exit, C!history
  <2>3. CASE C!Edit
    BY <2>1, <2>3 DEF C!Edit, C!coord, C!history
  <2>4. CASE C!Hup
    BY <2>1, <2>4 DEF C!Hup, C!history
  <2> QED BY <2>2, <2>3, <2>4
<1>2. file' \in [valid : BOOLEAN, names : SUBSET Names, path : Paths, version : 0..MaxEdits]
  <2>1. /\ file \in [valid : BOOLEAN, names : SUBSET Names, path : Paths, version : 0..MaxEdits]
        /\ MaxEdits \in Nat
    BY AgentAssumption DEF CoordInv, C!TypeOK, C!CoordinatorAssumption
  <2>2. CASE UNCHANGED file
    BY <2>1, <2>2
  <2>3. CASE C!Edit
    <3>1. file.version + 1 \in 0..MaxEdits
      BY <2>1, <2>3 DEF C!Edit
    <3> QED BY <2>1, <2>3, <3>1 DEF C!Edit
  <2> QED BY <2>2, <2>3 DEF C!Exit, C!Hup
<1>3. C!TypeOK'
  BY <1>1, <1>2 DEF CoordInv, C!TypeOK
<1>4. OneUnjoined'
  BY <1>1 DEF CoordInv, OneUnjoined
<1> QED BY <1>1, <1>3, <1>4 DEF CoordInv

LEMMA CoordStutters == ASSUME CoordInv, UNCHANGED coordinator PROVE CoordInv'
<1>1. C!TypeOK' /\ OneUnjoined'
  BY DEF CoordInv, coordinator, C!TypeOK, OneUnjoined
<1> QED BY <1>1 DEF CoordInv, coordinator

\* Every step of the coordinator, its tasks and the operator.
LEMMA CoordNext == ASSUME CoordInv, C!Next PROVE CoordInv'
<1>1. CASE \E n \in Names : \E k \in DOMAIN tasks[n] : C!Work(n, k) \/ C!Fails(n, k)
  BY <1>1, CoordWork, CoordJoin DEF C!Work
<1>2. CASE C!ReloadSourceSet \/ C!StopSignal
  BY <1>2, CoordReload, CoordStop
<1>3. CASE C!Exit \/ C!Edit \/ C!Hup
  BY <1>3, CoordOperator
<1> QED BY <1>1, <1>2, <1>3 DEF C!Next, C!Agent

(***************************************************************************)
(* The theorems                                                            *)
(***************************************************************************)

LEMMA Invariance == Spec => [](CoordInv /\ GlobInv)
<1>1. Init => CoordInv /\ GlobInv
  BY CoordInit, GlobInit DEF Init
<1>2. CoordInv /\ GlobInv /\ [Next]_vars => (CoordInv /\ GlobInv)'
  <2> SUFFICES ASSUME CoordInv, GlobInv, [Next]_vars PROVE CoordInv' /\ GlobInv'
    OBVIOUS
  <2>1. CASE CoordinatorStep(C!Next)
    BY <2>1, CoordNext, GlobStutters DEF CoordinatorStep
  <2>2. CASE GlobStep(G!Next)
    BY <2>2, GlobNext, CoordStutters DEF GlobStep
  <2>3. CASE UNCHANGED vars
    BY <2>3, CoordStutters, GlobStutters DEF vars
  <2> QED BY <2>1, <2>2, <2>3 DEF Next
<1> QED BY <1>1, <1>2, PTL DEF Spec

\* The state of both supervisors keeps its type (main.rs: run and
\* run_glob_source).
THEOREM TypeCorrect == Spec => []TypeOK
<1>1. CoordInv /\ GlobInv => TypeOK
  BY DEF CoordInv, GlobInv, TypeOK
<1> QED BY <1>1, Invariance, PTL

\* However reloads, failures, stops and joins interleave, a queue directory has
\* one task, except for a name added again before its task was joined
\* (main.rs, reload_source_set).
THEOREM OneTaskHolds == Spec => []OneTask
<1>1. CoordInv => OneTask
  BY OneLive DEF OneTask
<1> QED BY <1>1, Invariance, PTL

\* A line that a child of a glob source has read is in memory, queued or stored,
\* through retirement, replacement of files and outages; only a crash or a
\* failed child takes it out of memory (main.rs, run_glob_source).
THEOREM ReadIsKeptHolds == Spec => []ReadIsKept
<1>1. GlobInv => ReadIsKept
  BY DEF GlobInv, ReadIsKept
<1> QED BY <1>1, Invariance, PTL
=============================================================================
