--------------------------- MODULE ServicesProofs ---------------------------
(***************************************************************************)
(* Matched of Credential and ProbesBounded of Metrics, for every set of    *)
(* rotators, versions and mount points and every bound, over the           *)
(* composition MCServices.                                                 *)
(***************************************************************************)
EXTENDS MCServices, FiniteSetTheorems, SequenceTheorems, TLAPS

(***************************************************************************)
(* Credentials                                                             *)
(***************************************************************************)

Stamps == (0..MaxWrites) \X (0..MaxWrites)
Found == [cert : Versions \cup {0, Bad}, key : Versions \cup {0, Bad}]
ActorType ==
  [at : {"idle", "cert", "key", "gate", "token", "store"}, tok : Stamps, pair : Found]

\* What a task is about to store in the client was checked, or copied from the
\* identity in force.
StoresMatch ==
  \A a \in C!Actors : actor[a].at = "store" =>
    actor[a].pair \in C!Pairs /\ actor[a].pair.key = actor[a].pair.cert

\* The inductive invariant of the credentials.
CredInv ==
  /\ C!TypeOK /\ actor \in [C!Actors -> ActorType]
  /\ StoresMatch /\ C!Matched

\* The modification times that a look takes.
LEMMA StampTyped == ASSUME CredInv PROVE C!Stamp \in Stamps
<1>1. /\ disk["cert"] \in [v : Versions \cup {Bad}, time : 0..MaxWrites]
      /\ disk["key"] \in [v : Versions \cup {Bad}, time : 0..MaxWrites]
  BY DEF CredInv, C!TypeOK
<1> QED BY <1>1 DEF C!Stamp, Stamps

\* A pair that passes the checks can be presented.
LEMMA PassesMatches ==
  ASSUME NEW p \in Found, C!Passes(p)
  PROVE  p \in C!Pairs /\ p.key = p.cert
  BY DEF C!Passes, C!Usable, C!Pairs, Found

LEMMA CredInit == C!Init => CredInv
<1> SUFFICES ASSUME C!Init PROVE CredInv
  OBVIOUS
<1>1. 0 \in 0..MaxWrites /\ 1 \in Versions /\ MaxWrites \in Nat
  BY ServicesAssumption DEF C!CredentialAssumption
<1>2. actor \in [C!Actors -> ActorType] /\ \A a \in C!Actors : actor[a].at \in {"idle", "cert"}
  BY <1>1 DEF C!Init, C!Idle, C!NoPair, ActorType, Stamps, Found
<1>3. disk \in [{"cert", "key"} -> [v : Versions \cup {Bad}, time : 0..MaxWrites]]
  BY <1>1 DEF C!Init
<1>4. current \in C!Pairs /\ client \in C!Pairs
  BY <1>1 DEF C!Init, C!NoPair, C!Pairs
<1>5. /\ token \in (0..MaxWrites) \X (0..MaxWrites) /\ rotators \subseteq Rotators
      /\ writes \in 0..MaxWrites /\ expired \in Nat /\ booted \in BOOLEAN
      /\ healthy \in BOOLEAN /\ missed \in BOOLEAN /\ overtaken \in BOOLEAN
  BY <1>1 DEF C!Init
<1>6. C!TypeOK
  BY <1>2, <1>3, <1>4, <1>5 DEF C!TypeOK
<1> QED BY <1>2, <1>6 DEF CredInv, StoresMatch, C!Init, C!Matched, C!NoPair

\* A step of one task that changes nothing but where the task is.
LEMMA ActorStep ==
  ASSUME CredInv, NEW a \in C!Actors, NEW r \in ActorType, actor' = [actor EXCEPT ![a] = r],
         r.at = "store" => r.pair \in C!Pairs /\ r.pair.key = r.pair.cert
  PROVE  /\ actor' \in [C!Actors -> ActorType] /\ StoresMatch'
         /\ \A b \in C!Actors : actor'[b].at \in {"idle", "cert", "key", "gate", "token", "store"}
<1>1. actor' \in [C!Actors -> ActorType]
  BY DEF CredInv
<1>2. \A b \in C!Actors : actor'[b] = IF b = a THEN r ELSE actor[b]
  BY DEF CredInv
<1>3. StoresMatch'
  BY <1>2 DEF CredInv, StoresMatch, C!Actors, C!Pairs
<1>4. \A b \in C!Actors : actor'[b].at \in {"idle", "cert", "key", "gate", "token", "store"}
  BY <1>1 DEF ActorType
<1> QED BY <1>1, <1>3, <1>4

LEMMA CredReads ==
  ASSUME CredInv, NEW a \in C!Actors, C!ReadCert(a) \/ C!ReadKey(a) \/ C!Look(a)
  PROVE  CredInv'
<1>1. /\ actor[a] \in ActorType /\ C!Stamp \in Stamps
      /\ disk["cert"].v \in Versions \cup {Bad} /\ disk["key"].v \in Versions \cup {Bad}
  BY StampTyped DEF CredInv, C!TypeOK
<1>2. /\ UNCHANGED <<rotators, disk, writes, expired, booted, current, token, healthy, client,
                     missed, overtaken>>
  BY DEF C!ReadCert, C!ReadKey, C!Look, C!files, C!identity, C!history
<1>3. \E r \in ActorType : actor' = [actor EXCEPT ![a] = r] /\ r.at # "store"
  <2>1. CASE C!ReadCert(a)
    <3> DEFINE r == [actor[a] EXCEPT !.pair.cert = disk.cert.v, !.at = "key"]
    <3>1. r \in ActorType /\ r.at # "store"
      BY <1>1 DEF ActorType, Found
    <3>2. actor' = [actor EXCEPT ![a] = r]
      BY <2>1 DEF C!ReadCert, CredInv, ActorType, Found
    <3> QED BY <3>1, <3>2
  <2>2. CASE C!ReadKey(a)
    <3> DEFINE r == [actor[a] EXCEPT !.pair.key = disk.key.v, !.at = "gate"]
    <3>1. r \in ActorType /\ r.at # "store"
      BY <1>1 DEF ActorType, Found
    <3>2. actor' = [actor EXCEPT ![a] = r]
      BY <2>2 DEF C!ReadKey, CredInv, ActorType, Found
    <3> QED BY <3>1, <3>2
  <2>3. CASE C!Look(a)
    <3> DEFINE r == [C!Idle EXCEPT !.at = "cert", !.tok = C!Stamp]
    <3>1. r \in ActorType /\ r.at # "store"
      BY <1>1 DEF ActorType, Found, C!Idle, C!NoPair
    <3>2. actor' = [actor EXCEPT ![a] = r]
      BY <2>3 DEF C!Look
    <3> QED BY <3>1, <3>2
  <2> QED BY <2>1, <2>2, <2>3
<1>4. /\ actor' \in [C!Actors -> ActorType] /\ StoresMatch'
      /\ \A b \in C!Actors : actor'[b].at \in {"idle", "cert", "key", "gate", "token", "store"}
  BY <1>3, ActorStep
<1>5. C!TypeOK' /\ C!Matched'
  BY <1>2, <1>4 DEF CredInv, C!TypeOK, C!Matched
<1> QED BY <1>4, <1>5 DEF CredInv

\* Where a task comes to rest, and what it starts a look with.
LEMMA IdleTyped == C!Idle \in ActorType /\ C!Idle.at = "idle"
<1>1. MaxWrites \in Nat
  BY ServicesAssumption DEF C!CredentialAssumption
<1> QED BY <1>1 DEF C!Idle, C!NoPair, ActorType, Stamps, Found

\* The first load: the pair that passed is the one the client presents.
LEMMA CredBoot == ASSUME CredInv, C!Boot \/ C!BootRefused PROVE CredInv'
<1> DEFINE a == C!Pool
<1>1. a \in C!Actors /\ actor[a] \in ActorType /\ C!Stamp \in Stamps
  BY StampTyped DEF CredInv, C!Actors
<1>2. CASE C!Boot
  <2>1. /\ UNCHANGED <<rotators, disk, writes, expired, healthy, overtaken>>
        /\ current' = actor[a].pair /\ client' = actor[a].pair /\ token' = C!Stamp
        /\ booted' \in BOOLEAN /\ missed' \in BOOLEAN /\ C!Passes(actor[a].pair)
        /\ actor' = [actor EXCEPT ![a] = C!Idle]
    BY <1>2 DEF C!Boot, C!files
  <2>2. actor[a].pair \in C!Pairs /\ actor[a].pair.key = actor[a].pair.cert
    BY <1>1, <2>1, PassesMatches DEF ActorType
  <2>3. /\ actor' \in [C!Actors -> ActorType] /\ StoresMatch'
        /\ \A b \in C!Actors : actor'[b].at \in {"idle", "cert", "key", "gate", "token", "store"}
    BY <1>1, <2>1, IdleTyped, ActorStep
  <2>4. C!TypeOK' /\ C!Matched'
    BY <1>1, <2>1, <2>2, <2>3 DEF CredInv, C!TypeOK, C!Matched, Stamps
  <2> QED BY <2>3, <2>4 DEF CredInv
<1>3. CASE C!BootRefused
  <2> DEFINE r == [C!Idle EXCEPT !.at = "cert"]
  <2>1. /\ UNCHANGED <<rotators, disk, writes, expired, booted, current, token, healthy, client,
                       missed, overtaken>>
        /\ actor' = [actor EXCEPT ![a] = r]
    BY <1>3 DEF C!BootRefused, C!files, C!identity, C!history
  <2>2. r \in ActorType /\ r.at # "store"
    BY IdleTyped DEF ActorType
  <2>3. /\ actor' \in [C!Actors -> ActorType] /\ StoresMatch'
        /\ \A b \in C!Actors : actor'[b].at \in {"idle", "cert", "key", "gate", "token", "store"}
    <3> HIDE DEF r, a
    <3> QED BY <1>1, <2>1, <2>2, ActorStep
  <2>4. C!TypeOK' /\ C!Matched'
    BY <2>1, <2>3 DEF CredInv, C!TypeOK, C!Matched
  <2> QED BY <2>3, <2>4 DEF CredInv
<1> QED BY <1>2, <1>3

\* Refused or adopted, the token set, the client stored.
LEMMA CredReload ==
  ASSUME CredInv, NEW a \in C!Actors, C!Refuse(a) \/ C!Adopt(a) \/ C!SetToken(a) \/ C!Store(a)
  PROVE  CredInv'
<1>1. /\ actor[a] \in ActorType
      /\ actor[a].tok \in Stamps /\ actor[a].pair \in Found
  BY DEF CredInv, ActorType
<1>2. UNCHANGED <<rotators, disk, writes, expired, booted, missed>>
  BY DEF C!Refuse, C!Adopt, C!SetToken, C!Store, C!files, C!identity, C!history
<1>3. CASE C!Refuse(a)
  <2>1. /\ UNCHANGED <<current, token, client, overtaken>> /\ healthy' \in BOOLEAN
        /\ actor' = [actor EXCEPT ![a] = C!Idle]
    BY <1>3 DEF C!Refuse, C!history
  <2>2. /\ actor' \in [C!Actors -> ActorType] /\ StoresMatch'
        /\ \A b \in C!Actors : actor'[b].at \in {"idle", "cert", "key", "gate", "token", "store"}
    BY <2>1, IdleTyped, ActorStep
  <2>3. C!TypeOK' /\ C!Matched'
    BY <1>2, <2>1, <2>2 DEF CredInv, C!TypeOK, C!Matched
  <2> QED BY <2>2, <2>3 DEF CredInv
<1>4. CASE C!Adopt(a)
  <2> DEFINE r == [actor[a] EXCEPT !.at = "token"]
  <2>1. /\ UNCHANGED <<token, healthy, client>> /\ overtaken' \in BOOLEAN
        /\ current' = actor[a].pair /\ C!Passes(actor[a].pair)
    BY <1>4 DEF C!Adopt
  <2>2. actor' = [actor EXCEPT ![a] = r]
    BY <1>4 DEF C!Adopt, C!Moves, CredInv
  <2>3. r \in ActorType /\ r.at # "store"
    BY <1>1 DEF ActorType
  <2>4. /\ actor' \in [C!Actors -> ActorType] /\ StoresMatch'
        /\ \A b \in C!Actors : actor'[b].at \in {"idle", "cert", "key", "gate", "token", "store"}
    <3> HIDE DEF r
    <3> QED BY <2>2, <2>3, ActorStep
  <2>5. current' \in C!Pairs /\ current'.key = current'.cert
    BY <1>1, <2>1, PassesMatches
  <2>6. C!TypeOK' /\ C!Matched'
    BY <1>2, <2>1, <2>4, <2>5 DEF CredInv, C!TypeOK, C!Matched
  <2> QED BY <2>4, <2>6 DEF CredInv
<1>5. CASE C!SetToken(a)
  <2> DEFINE r == [actor[a] EXCEPT !.at = "store", !.pair = current]
  <2>1. /\ UNCHANGED <<current, client, overtaken>> /\ healthy' \in BOOLEAN
        /\ token' = actor[a].tok
    BY <1>5 DEF C!SetToken, C!history
  <2>2. actor' = [actor EXCEPT ![a] = r]
    BY <1>1, <1>5 DEF C!SetToken, CredInv, ActorType
  <2>3. current \in C!Pairs /\ current.key = current.cert /\ current \in Found
    BY DEF CredInv, C!TypeOK, C!Matched, C!Pairs, Found
  <2>4. r \in ActorType /\ r.pair = current
    BY <1>1, <2>3 DEF ActorType
  <2>5. /\ actor' \in [C!Actors -> ActorType] /\ StoresMatch'
        /\ \A b \in C!Actors : actor'[b].at \in {"idle", "cert", "key", "gate", "token", "store"}
    <3> HIDE DEF r
    <3> QED BY <2>2, <2>3, <2>4, ActorStep
  <2>6. C!TypeOK' /\ C!Matched'
    BY <1>1, <1>2, <2>1, <2>5 DEF CredInv, C!TypeOK, C!Matched, Stamps
  <2> QED BY <2>5, <2>6 DEF CredInv
<1>6. CASE C!Store(a)
  <2>1. /\ UNCHANGED <<current, token, healthy>> /\ overtaken' \in BOOLEAN
        /\ client' = actor[a].pair /\ actor[a].at = "store"
        /\ actor' = [actor EXCEPT ![a] = C!Idle]
    BY <1>6 DEF C!Store, C!identity, CredInv, C!TypeOK
  <2>2. /\ actor' \in [C!Actors -> ActorType] /\ StoresMatch'
        /\ \A b \in C!Actors : actor'[b].at \in {"idle", "cert", "key", "gate", "token", "store"}
    BY <2>1, IdleTyped, ActorStep
  <2>3. client' \in C!Pairs /\ client'.key = client'.cert
    BY <2>1 DEF CredInv, StoresMatch
  <2>4. C!TypeOK' /\ C!Matched'
    BY <1>2, <2>1, <2>2, <2>3 DEF CredInv, C!TypeOK, C!Matched
  <2> QED BY <2>2, <2>4 DEF CredInv
<1> QED BY <1>3, <1>4, <1>5, <1>6

\* The pool is rebuilt from the identity in force.
LEMMA CredRebuild == ASSUME CredInv, C!Rebuild PROVE CredInv'
<1> DEFINE a == C!Pool
           r == [C!Idle EXCEPT !.at = "store", !.pair = current]
<1>1. /\ UNCHANGED <<rotators, disk, writes, expired, booted, current, token, healthy, client,
                     missed, overtaken>>
      /\ actor' = [actor EXCEPT ![a] = r]
  BY DEF C!Rebuild, C!files, C!identity, C!history
<1>2. current \in C!Pairs /\ current.key = current.cert /\ current \in Found
  BY DEF CredInv, C!TypeOK, C!Matched, C!Pairs, Found
<1>3. r \in ActorType /\ r.pair = current /\ a \in C!Actors
  BY <1>2, IdleTyped DEF ActorType, C!Actors, C!Idle
<1>4. /\ actor' \in [C!Actors -> ActorType] /\ StoresMatch'
      /\ \A b \in C!Actors : actor'[b].at \in {"idle", "cert", "key", "gate", "token", "store"}
  <2> HIDE DEF r, a
  <2> QED BY <1>1, <1>2, <1>3, ActorStep
<1>5. C!TypeOK' /\ C!Matched'
  BY <1>1, <1>4 DEF CredInv, C!TypeOK, C!Matched
<1> QED BY <1>4, <1>5 DEF CredInv

\* Whoever writes the files, and the clock, touch no identity.
LEMMA CredFiles ==
  ASSUME CredInv, C!Write \/ C!Expire \/ UNCHANGED credential
  PROVE  CredInv'
<1>1. UNCHANGED <<rotators, booted, actor, current, token, healthy, client, missed, overtaken>>
  BY DEF C!Write, C!Expire, credential, C!identity, C!history
<1>2. /\ disk' \in [{"cert", "key"} -> [v : Versions \cup {Bad}, time : 0..MaxWrites]]
      /\ writes' \in 0..MaxWrites /\ expired' \in Nat
  <2>1. MaxWrites \in Nat
    BY ServicesAssumption DEF C!CredentialAssumption
  <2>2. CASE C!Write
    <3>1. writes' \in 0..MaxWrites /\ expired' = expired
      BY <2>1, <2>2 DEF C!Write, CredInv, C!TypeOK
    <3>2. PICK f \in {"cert", "key"}, v \in Versions \cup {Bad} :
            disk' = [disk EXCEPT ![f] = [v |-> v, time |-> writes']]
      BY <2>2 DEF C!Write
    <3> QED BY <3>1, <3>2 DEF CredInv, C!TypeOK
  <2>3. CASE C!Expire
    BY <2>3 DEF C!Expire, CredInv, C!TypeOK
  <2>4. CASE UNCHANGED credential
    BY <2>4 DEF credential, CredInv, C!TypeOK
  <2> QED BY <2>2, <2>3, <2>4
<1>3. C!TypeOK' /\ C!Matched'
  BY <1>1, <1>2 DEF CredInv, C!TypeOK, C!Matched
<1>4. StoresMatch' /\ actor' \in [C!Actors -> ActorType]
  BY <1>1 DEF CredInv, StoresMatch, C!Actors, C!Pairs
<1> QED BY <1>3, <1>4 DEF CredInv

LEMMA CredNext == ASSUME CredInv, C!Next \/ UNCHANGED credential PROVE CredInv'
<1>1. CASE UNCHANGED credential
  BY <1>1, CredFiles
<1>2. CASE C!Next
  <2>1. CASE C!Boot \/ C!BootRefused
    BY <2>1, CredBoot
  <2>2. CASE C!Rebuild
    BY <2>2, CredRebuild
  <2>3. CASE C!Write \/ C!Expire
    BY <2>3, CredFiles
  <2>4. ASSUME NEW a \in C!Actors, C!Task(a) PROVE CredInv'
    BY <2>4, CredReads, CredReload DEF C!Task
  <2> QED BY <1>2, <2>1, <2>2, <2>3, <2>4 DEF C!Next
<1> QED BY <1>1, <1>2

(***************************************************************************)
(* Host metrics                                                            *)
(***************************************************************************)

\* The probes of a path.  A mount has at most one thread, and the mount that is
\* there now has one only while the loop waits for it or the quarantine holds
\* it; mounts to come have none.  A mount that this tick did not enumerate, and
\* whose quarantine entry prune will therefore drop, has none either.
OneProbe(p) ==
  /\ mounted[p] <= mounts[p]
  /\ \A k \in M!Mounts : k > mounts[p] => threads[p][k] = 0
  /\ \A i \in 1..MaxMounts : threads[p][i] <= 1
  /\ mounted[p] # 0 /\ threads[p][mounted[p]] # 0 =>
       \/ held[p] = [mount |-> mounted[p], done |-> FALSE]
       \/ pc = "probe" /\ probing = M!Of(p, mounted[p])
  /\ pc # "wait" /\ p \notin present /\ mounted[p] # 0 => threads[p][mounted[p]] = 0

\* What the loop waits for runs, and nothing is held for its path.
Waiting ==
  pc = "probe" =>
    /\ probing.path \in Paths
    /\ threads[probing.path][probing.mount] > 0
    /\ held[probing.path].mount = 0

ThreadsTyped == threads \in [Paths -> [M!Mounts -> Nat]]

\* What is queued and being sent.
QueueInv ==
  /\ queue.segs \in Seq(SUBSET M!Sample)
  /\ drain = "pop" => queue.segs # <<>>

\* The inductive invariant of the metrics.
MetricsInv ==
  /\ M!TypeOK /\ ThreadsTyped /\ QueueInv
  /\ Waiting /\ \A p \in Paths : OneProbe(p)

LEMMA MountsTyped == MaxMounts \in Nat /\ 0 \in M!Mounts /\ 1 \in M!Mounts
  BY ServicesAssumption DEF M!MetricsAssumption, M!Mounts

LEMMA SampleTyped ==
  ASSUME NEW p \in Paths \cup {"host", "exec"}, NEW i \in M!Mounts
  PROVE  M!Of(p, i) \in M!Sample
  BY DEF M!Of, M!Sample

\* The type of the queue is that of its bodies.
LEMMA SegsTyped ==
  ASSUME queue.segs \in Seq(SUBSET M!Sample)
  PROVE  \A i \in DOMAIN queue.segs : queue.segs[i] \subseteq M!Sample
<1>1. \A i \in 1..Len(queue.segs) : queue.segs[i] \in SUBSET M!Sample
  BY ElementOfSeq
<1> QED BY <1>1, LenProperties

\* push adds a body or leaves the bodies alone.
LEMMA SegsPushed ==
  ASSUME NEW q, q.segs \in Seq(SUBSET M!Sample), NEW b \in SUBSET M!Sample, NEW s
  PROVE  /\ M!Pushed(q, b, s).segs \in Seq(SUBSET M!Sample)
         /\ q.segs # <<>> => M!Pushed(q, b, s).segs # <<>>
<1>1. Append(q.segs, b) \in Seq(SUBSET M!Sample) /\ Append(q.segs, b) # <<>>
  <2> DEFINE B == SUBSET M!Sample
             t == q.segs
  <2>1. t \in Seq(B) /\ b \in B
    OBVIOUS
  <2> HIDE DEF B, t
  <2>2. Append(t, b) \in Seq(B) /\ Append(t, b) # <<>>
    BY <2>1, AppendProperties, EmptySeq, LenProperties
  <2> QED BY <2>2 DEF B, t
<1>2. M!Pushed(q, b, s).segs \in {Append(q.segs, b), q.segs}
  BY DEF M!Pushed, M!Spooled, M!Paused
<1> QED BY <1>1, <1>2

LEMMA MetricsInit == M!Init => MetricsInv
<1> SUFFICES ASSUME M!Init PROVE MetricsInv
  OBVIOUS
<1>1. MaxMounts \in Nat /\ MaxMounts >= 1 /\ M!Mounts = 0..MaxMounts
  BY ServicesAssumption DEF M!MetricsAssumption, M!Mounts
<1>2. ThreadsTyped
  BY <1>1 DEF ThreadsTyped, M!Init
<1>3. QueueInv
  BY DEF QueueInv, M!Init, M!EmptyQueue
<1>4. \A p \in Paths : OneProbe(p)
  BY <1>1 DEF OneProbe, M!Init
<1>5. held \in [Paths -> [mount : M!Mounts, done : BOOLEAN]]
  BY <1>1 DEF M!Init, M!NoProbe
<1>6. probing \in M!Sample
  BY <1>1, SampleTyped DEF M!Init
<1>7. mounted \in [Paths -> M!Mounts] /\ mounts \in [Paths -> M!Mounts]
  BY <1>1 DEF M!Init
<1>8. deaths \in 0..MaxDeaths /\ runs \in 0..MaxRuns /\ restarts \in 0..MaxRestarts
  BY ServicesAssumption DEF M!MetricsAssumption, M!Init
<1>9. M!TypeOK
  BY <1>2, <1>3, <1>5, <1>6, <1>7, <1>8, SegsTyped DEF M!TypeOK, M!Init, ThreadsTyped, QueueInv
<1> QED BY <1>2, <1>3, <1>4, <1>9 DEF MetricsInv, Waiting, M!Init

\* Steps that start no probe and end none, and hold what they find held: the
\* commands, the drain, and what happens to a file system that stays mounted.
LEMMA MetricsAround ==
  ASSUME MetricsInv,
         \/ M!ExecRun \/ M!ExecEnds \/ M!Drain \/ M!Flips
         \/ (\E p \in Paths : M!Dies(p)) \/ (\E d \in dead : M!Recovers(d))
         \/ UNCHANGED metrics
  PROVE  MetricsInv'
<1>1. /\ UNCHANGED <<mounted, mounts, threads, held, pc, present, todo, probing, batch, restarts>>
  BY DEF M!ExecRun, M!ExecEnds, M!Drain, M!DrainSend, M!DrainPop, M!Flips, M!Dies, M!Recovers,
         metrics, M!host, M!gathering, M!shipping, M!env
<1>2. \/ /\ queue' \in {queue, M!Pushed(queue, {M!Of("exec", 0)}, space)}
         /\ UNCHANGED <<drain, shipped>>
      \/ M!Drain
  BY DEF M!ExecRun, M!ExecEnds, M!Flips, M!Dies, M!Recovers, M!Drain, M!DrainSend, M!DrainPop,
         metrics, M!host, M!shipping, M!env
<1>3. /\ exec' \in {"wait", "run"} /\ runs' \in 0..MaxRuns /\ db' \in {"up", "down"}
      /\ space' \in BOOLEAN
  <2>1. MaxRuns \in Nat
    BY ServicesAssumption DEF M!MetricsAssumption
  <2>2. runs \in 0..MaxRuns /\ exec \in {"wait", "run"} /\ db \in {"up", "down"} /\ space \in BOOLEAN
    BY DEF MetricsInv, M!TypeOK
  <2>3. exec' \in {"wait", "run"} /\ runs' \in 0..MaxRuns
    <3>1. CASE M!ExecRun
      BY <2>1, <2>2, <3>1 DEF M!ExecRun
    <3>2. CASE M!ExecEnds
      BY <2>2, <3>2 DEF M!ExecEnds
    <3>3. CASE ~M!ExecRun /\ ~M!ExecEnds
      <4>1. UNCHANGED <<exec, runs>>
        BY <3>3 DEF M!Drain, M!DrainSend, M!DrainPop, M!Flips, M!Dies, M!Recovers, metrics
      <4> QED BY <2>2, <4>1
    <3> QED BY <3>1, <3>2, <3>3
  <2>4. db' \in {"up", "down"} /\ space' \in BOOLEAN
    <3>1. CASE M!Flips
      BY <2>2, <3>1 DEF M!Flips
    <3>2. CASE ~M!Flips
      <4>1. UNCHANGED <<db, space>>
        BY <3>2 DEF M!ExecRun, M!ExecEnds, M!Drain, M!DrainSend, M!DrainPop, M!Dies, M!Recovers,
                    metrics, M!env
      <4> QED BY <2>2, <4>1
    <3> QED BY <3>1, <3>2
  <2> QED BY <2>3, <2>4
<1>4. dead' \subseteq Paths \X M!Mounts /\ deaths' \in 0..MaxDeaths
  <2>1. MaxDeaths \in Nat /\ deaths \in 0..MaxDeaths /\ dead \subseteq Paths \X M!Mounts
    BY ServicesAssumption DEF M!MetricsAssumption, MetricsInv, M!TypeOK
  <2>2. ASSUME NEW p \in Paths, M!Dies(p) PROVE dead' \subseteq Paths \X M!Mounts /\ deaths' \in 0..MaxDeaths
    <3>1. mounted[p] \in M!Mounts
      BY DEF MetricsInv, M!TypeOK
    <3> QED BY <2>1, <2>2, <3>1 DEF M!Dies
  <2> QED BY <2>1, <2>2
    DEF M!ExecRun, M!ExecEnds, M!Drain, M!DrainSend, M!DrainPop, M!Flips, M!Recovers, metrics, M!host
<1>5. QueueInv' /\ shipped' \subseteq M!Sample /\ drain' \in {"look", "pop"}
  <2>1. /\ QueueInv /\ shipped \subseteq M!Sample /\ drain \in {"look", "pop"}
    BY DEF MetricsInv, M!TypeOK
  <2>2. CASE /\ queue' \in {queue, M!Pushed(queue, {M!Of("exec", 0)}, space)}
             /\ UNCHANGED <<drain, shipped>>
    <3>1. {M!Of("exec", 0)} \in SUBSET M!Sample
      BY MountsTyped, SampleTyped
    <3> QED BY <2>1, <2>2, <3>1, SegsPushed DEF QueueInv
  <2>3. CASE M!DrainSend
    <3>1. Head(queue.segs) \in SUBSET M!Sample
      BY <2>1, <2>3, HeadTailProperties DEF M!DrainSend, QueueInv
    <3> QED BY <2>1, <2>3, <3>1 DEF M!DrainSend, QueueInv
  <2>4. CASE M!DrainPop
    <3>1. Tail(queue.segs) \in Seq(SUBSET M!Sample)
      BY <2>1, <2>4, HeadTailProperties DEF M!DrainPop, QueueInv
    <3> QED BY <2>1, <2>4, <3>1 DEF M!DrainPop, QueueInv, M!Popped, M!shipping
  <2> QED BY <1>2, <2>2, <2>3, <2>4 DEF M!Drain
<1>6. ThreadsTyped' /\ Waiting' /\ \A p \in Paths : OneProbe(p)'
  BY <1>1 DEF MetricsInv, ThreadsTyped, Waiting, OneProbe, M!Mounts, M!Of
<1>7. M!TypeOK'
  BY <1>1, <1>3, <1>4, <1>5, SegsTyped DEF MetricsInv, M!TypeOK, QueueInv
<1> QED BY <1>5, <1>6, <1>7 DEF MetricsInv

\* A mount comes or goes.  A new one has a number of its own, and no probe yet.
LEMMA MetricsMount ==
  ASSUME MetricsInv, NEW p \in Paths, M!Mount(p) \/ M!Unmount(p)
  PROVE  MetricsInv'
<1>1. /\ UNCHANGED <<dead, deaths, threads, held, pc, present, todo, probing, batch, exec, runs,
                     queue, drain, shipped, db, space, restarts>>
  BY DEF M!Mount, M!Unmount, M!gathering, M!shipping, M!env
<1>2. /\ MaxMounts \in Nat /\ M!Mounts = 0..MaxMounts
      /\ mounted \in [Paths -> 0..MaxMounts] /\ mounts \in [Paths -> 0..MaxMounts]
      /\ threads \in [Paths -> [0..MaxMounts -> Nat]]
  BY MountsTyped DEF MetricsInv, M!TypeOK, M!Mounts, ThreadsTyped
<1>3. /\ mounted' \in [Paths -> 0..MaxMounts] /\ mounts' \in [Paths -> 0..MaxMounts]
      /\ \A q \in Paths : q # p => mounted'[q] = mounted[q] /\ mounts'[q] = mounts[q]
      /\ \/ mounted'[p] = mounts[p] + 1 /\ mounts'[p] = mounts[p] + 1 /\ mounts[p] < MaxMounts
         \/ mounted'[p] = 0 /\ mounts'[p] = mounts[p]
  <2>1. CASE M!Mount(p)
    <3>1. /\ mounts' = [mounts EXCEPT ![p] = mounts[p] + 1]
          /\ mounted' = [mounted EXCEPT ![p] = mounts[p] + 1]
          /\ mounts[p] < MaxMounts /\ mounts[p] \in 0..MaxMounts
      BY <1>2, <2>1 DEF M!Mount
    <3>2. mounts[p] + 1 \in 0..MaxMounts
      BY <1>2, <3>1
    <3> QED BY <1>2, <3>1, <3>2
  <2>2. CASE M!Unmount(p)
    <3>1. mounted' = [mounted EXCEPT ![p] = 0] /\ mounts' = mounts /\ 0 \in 0..MaxMounts
      BY <1>2, <2>2 DEF M!Unmount
    <3> QED BY <1>2, <3>1
  <2> QED BY <2>1, <2>2
<1>4. \A q \in Paths : OneProbe(q)'
  <2>1. ASSUME NEW q \in Paths, q # p PROVE OneProbe(q)'
    BY <1>1, <1>2, <1>3, <2>1 DEF MetricsInv, OneProbe, M!Of
  <2>2. OneProbe(p)'
    <3>1. OneProbe(p) /\ mounts[p] \in Nat /\ mounted[p] \in Nat
      BY <1>2 DEF MetricsInv
    <3>2. CASE mounted'[p] = 0 /\ mounts'[p] = mounts[p]
      <4>1. threads' = threads
        BY <1>1
      <4>2. mounted'[p] <= mounts'[p]
        BY <3>1, <3>2
      <4>3. /\ \A k \in M!Mounts : k > mounts'[p] => threads'[p][k] = 0
            /\ \A i \in 1..MaxMounts : threads'[p][i] <= 1
        BY <3>1, <3>2, <4>1, Zenon DEF OneProbe
      <4> QED BY <3>2, <4>2, <4>3, Zenon DEF OneProbe, M!Mounts, M!Of
    <3>3. CASE mounted'[p] = mounts[p] + 1 /\ mounts'[p] = mounts[p] + 1 /\ mounts[p] < MaxMounts
      <4>1. threads' = threads /\ mounts[p] + 1 \in M!Mounts
        BY <1>1, <1>2, <3>1, <3>3
      <4>2. threads'[p][mounted'[p]] = 0
        BY <3>1, <3>3, <4>1 DEF OneProbe
      <4> QED BY <1>2, <3>1, <3>3, <4>1, <4>2 DEF OneProbe
    <3> QED BY <1>3, <3>2, <3>3
  <2> QED BY <2>1, <2>2
<1>5. M!TypeOK'
  BY <1>1, <1>2, <1>3 DEF MetricsInv, M!TypeOK
<1>6. ThreadsTyped' /\ QueueInv' /\ Waiting'
  BY <1>1, <1>2 DEF MetricsInv, ThreadsTyped, QueueInv, Waiting
<1> QED BY <1>4, <1>5, <1>6 DEF MetricsInv

\* A tick begins: what is not in mountinfo is not mounted.
LEMMA MetricsTickBegin == ASSUME MetricsInv, M!TickBegin PROVE MetricsInv'
<1>1. /\ UNCHANGED <<mounted, mounts, dead, deaths, threads, held, probing, exec, runs, queue,
                     drain, shipped, db, space, restarts>>
      /\ pc' = "gather" /\ present' = M!PathsNow /\ todo' = M!PathsNow
      /\ batch' = {M!Of("host", 0)}
  BY DEF M!TickBegin, M!host, M!shipping, M!env
<1>2. present' \subseteq Paths /\ \A p \in Paths : p \notin present' => mounted[p] = 0
  BY <1>1 DEF M!PathsNow
<1>3. batch' \subseteq M!Sample
  BY <1>1, MountsTyped, SampleTyped
<1>4. \A p \in Paths : OneProbe(p)'
  <2> SUFFICES ASSUME NEW p \in Paths PROVE OneProbe(p)'
    OBVIOUS
  <2>1. OneProbe(p) /\ pc = "wait"
    BY DEF MetricsInv, M!TickBegin
  <2> QED BY <1>1, <1>2, <2>1 DEF OneProbe, M!Of
<1>5. M!TypeOK'
  BY <1>1, <1>2, <1>3 DEF MetricsInv, M!TypeOK
<1>6. ThreadsTyped' /\ QueueInv' /\ Waiting'
  BY <1>1 DEF MetricsInv, ThreadsTyped, QueueInv, Waiting
<1> QED BY <1>4, <1>5, <1>6 DEF MetricsInv

\* A path that the quarantine holds: nothing is probed.
LEMMA MetricsQuarantined ==
  ASSUME MetricsInv, NEW p \in todo, M!Quarantined(p)
  PROVE  MetricsInv'
<1>1. /\ UNCHANGED <<mounted, mounts, dead, deaths, present, threads, pc, probing, exec, runs,
                     queue, drain, shipped, db, space, restarts>>
      /\ pc = "gather" /\ todo' = todo \ {p} /\ p \in Paths
  BY DEF M!Quarantined, M!host, M!shipping, M!env, MetricsInv, M!TypeOK
<1>2. held \in [Paths -> [mount : M!Mounts, done : BOOLEAN]]
  BY DEF MetricsInv, M!TypeOK
<1>3. \/ held' = held /\ batch' = batch
      \/ /\ held[p].done /\ held' = [held EXCEPT ![p] = M!NoProbe]
         /\ batch' = batch \cup {M!Of(p, held[p].mount)}
  BY DEF M!Quarantined
<1>4. batch' \subseteq M!Sample
  <2>1. M!Of(p, held[p].mount) \in M!Sample
    BY <1>1, <1>2, SampleTyped
  <2> QED BY <1>3, <2>1 DEF MetricsInv, M!TypeOK
<1>5. held' \in [Paths -> [mount : M!Mounts, done : BOOLEAN]]
  <2>1. M!NoProbe \in [mount : M!Mounts, done : BOOLEAN]
    BY MountsTyped DEF M!NoProbe
  <2> QED BY <1>2, <1>3, <2>1
<1>6. \A q \in Paths : held'[q] = held[q] \/ (q = p /\ held[p].done)
  BY <1>1, <1>2, <1>3
<1>7. \A q \in Paths : OneProbe(q)'
  <2> SUFFICES ASSUME NEW q \in Paths PROVE OneProbe(q)'
    OBVIOUS
  <2>1. OneProbe(q)
    BY DEF MetricsInv
  <2>2. held[q] = [mount |-> mounted[q], done |-> FALSE] => held'[q] = held[q]
    <3> SUFFICES ASSUME held[q] = [mount |-> mounted[q], done |-> FALSE]
                 PROVE  held'[q] = held[q]
      OBVIOUS
    <3>1. held[q].done = FALSE
      OBVIOUS
    <3>2. q # p \/ ~held[p].done
      BY <3>1
    <3> QED BY <1>6, <3>2
  <2> QED BY <1>1, <2>1, <2>2 DEF OneProbe, M!Of
<1>8. M!TypeOK'
  BY <1>1, <1>4, <1>5 DEF MetricsInv, M!TypeOK
<1>9. ThreadsTyped' /\ QueueInv' /\ Waiting'
  BY <1>1 DEF MetricsInv, ThreadsTyped, QueueInv, Waiting
<1> QED BY <1>7, <1>8, <1>9 DEF MetricsInv

\* A probe starts: nothing is held for the path, so its mount has no thread yet.
LEMMA MetricsProbe ==
  ASSUME MetricsInv, NEW p \in todo, M!Probe(p)
  PROVE  MetricsInv'
<1> DEFINE i == mounted[p]
<1>1. /\ UNCHANGED <<mounted, mounts, dead, deaths, present, held, batch, exec, runs,
                     queue, drain, shipped, db, space, restarts>>
      /\ pc = "gather" /\ pc' = "probe" /\ todo' = todo \ {p}
      /\ probing' = M!Of(p, i) /\ held[p] = M!NoProbe
      /\ threads' = [threads EXCEPT ![p][i] = threads[p][i] + 1]
  BY DEF M!Probe, M!host, M!shipping, M!env
<1>2. /\ MaxMounts \in Nat /\ M!Mounts = 0..MaxMounts /\ p \in Paths /\ p \in present
      /\ mounted \in [Paths -> 0..MaxMounts] /\ mounts \in [Paths -> 0..MaxMounts]
      /\ threads \in [Paths -> [0..MaxMounts -> Nat]]
  BY MountsTyped DEF MetricsInv, M!TypeOK, M!Mounts, ThreadsTyped
<1>3. /\ i \in 0..MaxMounts /\ OneProbe(p)
      /\ probing'.path = p /\ probing'.mount = i
      /\ held[p].mount = 0
  BY <1>1, <1>2 DEF MetricsInv, M!Of, M!NoProbe
<1>4. i # 0 => threads[p][i] = 0
  BY <1>1, <1>3 DEF OneProbe, M!NoProbe
<1>5. /\ threads' \in [Paths -> [0..MaxMounts -> Nat]]
      /\ \A q \in Paths : q # p => threads'[q] = threads[q]
      /\ \A k \in 0..MaxMounts : k # i => threads'[p][k] = threads[p][k]
      /\ threads'[p][i] = threads[p][i] + 1
  <2>1. threads[p] \in [0..MaxMounts -> Nat] /\ threads[p][i] + 1 \in Nat
    BY <1>2, <1>3
  <2>2. threads' = [threads EXCEPT ![p] = [threads[p] EXCEPT ![i] = threads[p][i] + 1]]
    BY <1>1
  <2> QED BY <1>2, <1>3, <2>1, <2>2
<1>6. \A q \in Paths : OneProbe(q)'
  <2>1. ASSUME NEW q \in Paths, q # p PROVE OneProbe(q)'
    <3>1. OneProbe(q)
      BY DEF MetricsInv
    <3> QED BY <1>1, <1>5, <2>1, <3>1 DEF OneProbe, M!Mounts
  <2>2. OneProbe(p)'
    BY <1>1, <1>2, <1>3, <1>4, <1>5 DEF OneProbe, M!Mounts
  <2> QED BY <2>1, <2>2
<1>7. probing' \in M!Sample
  BY <1>1, <1>2, <1>3, SampleTyped
<1>8. M!TypeOK'
  BY <1>1, <1>2, <1>5, <1>7 DEF MetricsInv, M!TypeOK
<1>9. Waiting'
  BY <1>1, <1>2, <1>3, <1>5 DEF Waiting
<1>10. ThreadsTyped' /\ QueueInv'
  BY <1>1, <1>2, <1>5 DEF MetricsInv, ThreadsTyped, QueueInv, M!Mounts
<1> QED BY <1>6, <1>8, <1>9, <1>10 DEF MetricsInv

\* A thread ends: the one the loop waits for, or one that was held or forgotten.
LEMMA ThreadEnds ==
  ASSUME MetricsInv, NEW p \in Paths, NEW i \in M!Mounts, threads[p][i] > 0,
         threads' = [threads EXCEPT ![p][i] = threads[p][i] - 1],
         held' \in [Paths -> [mount : M!Mounts, done : BOOLEAN]],
         \A q \in Paths : q # p => held'[q] = held[q],
         held'[p] = held[p] \/ held[p] = [mount |-> i, done |-> FALSE],
         pc' # "wait" => pc # "wait",
         pc = "probe" => (probing = M!Of(p, i) \/ pc' = "probe"),
         UNCHANGED <<mounted, mounts, present, probing>>
  PROVE  ThreadsTyped' /\ \A q \in Paths : OneProbe(q)'
<1>1. /\ MaxMounts \in Nat /\ M!Mounts = 0..MaxMounts
      /\ mounted \in [Paths -> 0..MaxMounts] /\ mounts \in [Paths -> 0..MaxMounts]
      /\ threads \in [Paths -> [0..MaxMounts -> Nat]]
  BY MountsTyped DEF MetricsInv, M!TypeOK, M!Mounts, ThreadsTyped
<1>2. /\ threads' \in [Paths -> [0..MaxMounts -> Nat]]
      /\ \A q \in Paths : q # p => threads'[q] = threads[q]
      /\ \A k \in 0..MaxMounts : k # i => threads'[p][k] = threads[p][k]
      /\ threads'[p][i] = threads[p][i] - 1 /\ threads[p][i] \in Nat
  BY <1>1
<1>3. \A q \in Paths : OneProbe(q)'
  <2>1. ASSUME NEW q \in Paths, q # p PROVE OneProbe(q)'
    <3>1. OneProbe(q) /\ held'[q] = held[q] /\ threads'[q] = threads[q]
      BY <1>2, <2>1 DEF MetricsInv
    <3>2. pc = "probe" /\ probing = M!Of(q, mounted[q]) => pc' = "probe"
      BY <2>1 DEF M!Of
    <3> QED BY <3>1, <3>2 DEF OneProbe, M!Mounts, M!Of
  <2>2. OneProbe(p)'
    <3>1. OneProbe(p) /\ mounted[p] \in 0..MaxMounts /\ mounts[p] \in 0..MaxMounts
      BY <1>1 DEF MetricsInv
    <3>2. \A k \in 0..MaxMounts : threads'[p][k] <= threads[p][k] /\ threads[p][k] \in Nat
                                  /\ threads'[p][k] \in Nat
      BY <1>1, <1>2
    <3>3. ASSUME mounted[p] # 0, threads'[p][mounted[p]] # 0
          PROVE  \/ held'[p] = [mount |-> mounted[p], done |-> FALSE]
                 \/ pc' = "probe" /\ probing = M!Of(p, mounted[p])
      <4>1. mounted[p] # i
        <5>1. i \in 1..MaxMounts => threads[p][i] <= 1
          BY <3>1 DEF OneProbe
        <5> QED BY <1>1, <1>2, <3>3, <5>1
      <4>2. threads[p][mounted[p]] # 0
        BY <1>1, <1>2, <3>1, <3>3, <4>1
      <4>3. \/ held[p] = [mount |-> mounted[p], done |-> FALSE]
            \/ pc = "probe" /\ probing = M!Of(p, mounted[p])
        BY <3>1, <3>3, <4>2 DEF OneProbe
      <4>4. CASE held[p] = [mount |-> mounted[p], done |-> FALSE]
        <5>1. held[p].mount = mounted[p]
          BY <4>4
        <5>2. held[p] # [mount |-> i, done |-> FALSE]
          BY <4>1, <5>1
        <5> QED BY <4>4, <5>2
      <4>5. CASE pc = "probe" /\ probing = M!Of(p, mounted[p])
        <5>1. probing # M!Of(p, i)
          BY <4>1, <4>5 DEF M!Of
        <5> QED BY <4>5, <5>1
      <4> QED BY <4>3, <4>4, <4>5
    <3>4. /\ mounted[p] <= mounts[p]
          /\ \A k \in M!Mounts : k > mounts[p] => threads'[p][k] = 0
          /\ \A k \in 1..MaxMounts : threads'[p][k] <= 1
      <4>1. ASSUME NEW k \in M!Mounts, k > mounts[p] PROVE threads'[p][k] = 0
        <5>1. threads[p][k] = 0 /\ k \in 0..MaxMounts
          BY <1>1, <3>1, <4>1 DEF OneProbe
        <5> QED BY <3>2, <5>1
      <4>2. ASSUME NEW k \in 1..MaxMounts PROVE threads'[p][k] <= 1
        <5>1. threads[p][k] <= 1 /\ k \in 0..MaxMounts
          BY <1>1, <3>1 DEF OneProbe
        <5> QED BY <3>2, <5>1
      <4> QED BY <3>1, <4>1, <4>2 DEF OneProbe
    <3>5. pc' # "wait" /\ p \notin present /\ mounted[p] # 0 => threads'[p][mounted[p]] = 0
      BY <1>1, <3>1, <3>2 DEF OneProbe
    <3> QED BY <3>3, <3>4, <3>5 DEF OneProbe, M!Mounts, M!Of
  <2> QED BY <2>1, <2>2
<1> QED BY <1>1, <1>2, <1>3 DEF ThreadsTyped, M!Mounts

\* The probe answers, times out, or one that was left returns.
LEMMA MetricsAnswers == ASSUME MetricsInv, M!Answers PROVE MetricsInv'
<1> DEFINE p == probing.path
           i == probing.mount
<1>1. /\ UNCHANGED <<mounted, mounts, dead, deaths, present, held, todo, probing, exec, runs,
                     queue, drain, shipped, db, space, restarts>>
      /\ pc = "probe" /\ pc' = "gather" /\ batch' = batch \cup {probing}
      /\ threads' = [threads EXCEPT ![p][i] = threads[p][i] - 1]
  BY DEF M!Answers, M!host, M!shipping, M!env
<1>2. p \in Paths /\ i \in M!Mounts /\ threads[p][i] > 0 /\ probing = M!Of(p, i)
  BY <1>1 DEF MetricsInv, M!TypeOK, M!Sample, Waiting, M!Of
<1>3. held' \in [Paths -> [mount : M!Mounts, done : BOOLEAN]]
  BY <1>1 DEF MetricsInv, M!TypeOK
<1>4. ThreadsTyped' /\ \A q \in Paths : OneProbe(q)'
  <2> HIDE DEF p, i
  <2> QED BY <1>1, <1>2, <1>3, ThreadEnds
<1>5. batch' \subseteq M!Sample
  BY <1>1 DEF MetricsInv, M!TypeOK
<1>6. M!TypeOK'
  BY <1>1, <1>4, <1>5 DEF MetricsInv, M!TypeOK, ThreadsTyped
<1>7. QueueInv' /\ Waiting'
  BY <1>1 DEF MetricsInv, QueueInv, Waiting
<1> QED BY <1>4, <1>6, <1>7 DEF MetricsInv

LEMMA MetricsTimesOut == ASSUME MetricsInv, M!TimesOut PROVE MetricsInv'
<1> DEFINE p == probing.path
           i == probing.mount
           r == [mount |-> i, done |-> FALSE]
<1>1. /\ UNCHANGED <<mounted, mounts, dead, deaths, threads, present, todo, probing, batch, exec,
                     runs, queue, drain, shipped, db, space, restarts>>
      /\ pc = "probe" /\ pc' = "gather" /\ held' = [held EXCEPT ![p] = r]
  BY DEF M!TimesOut, M!host, M!shipping, M!env
<1>2. p \in Paths /\ i \in M!Mounts /\ held[p].mount = 0 /\ probing = M!Of(p, i)
  BY <1>1 DEF MetricsInv, M!TypeOK, M!Sample, Waiting, M!Of
<1>3. /\ held' \in [Paths -> [mount : M!Mounts, done : BOOLEAN]]
      /\ held'[p] = r /\ \A q \in Paths : q # p => held'[q] = held[q]
  BY <1>1, <1>2 DEF MetricsInv, M!TypeOK
<1>4. \A q \in Paths : OneProbe(q)'
  <2> SUFFICES ASSUME NEW q \in Paths PROVE OneProbe(q)'
    OBVIOUS
  <2>1. OneProbe(q)
    BY DEF MetricsInv
  <2>2. CASE q # p
    <3>1. probing # M!Of(q, mounted[q])
      BY <2>2 DEF M!Of
    <3> QED BY <1>1, <1>3, <2>1, <2>2, <3>1 DEF OneProbe, M!Mounts
  <2>3. CASE q = p
    <3>1. ASSUME mounted[p] # 0, threads[p][mounted[p]] # 0 PROVE i = mounted[p]
      <4>1. held[p] # [mount |-> mounted[p], done |-> FALSE]
        BY <1>2, <3>1
      <4>2. probing = M!Of(p, mounted[p])
        BY <2>1, <2>3, <3>1, <4>1 DEF OneProbe
      <4> QED BY <4>2 DEF M!Of
    <3> QED BY <1>1, <1>3, <2>1, <2>3, <3>1 DEF OneProbe, M!Mounts
  <2> QED BY <2>2, <2>3
<1>5. M!TypeOK'
  BY <1>1, <1>3 DEF MetricsInv, M!TypeOK
<1>6. ThreadsTyped' /\ QueueInv' /\ Waiting'
  BY <1>1 DEF MetricsInv, ThreadsTyped, QueueInv, Waiting
<1> QED BY <1>4, <1>5, <1>6 DEF MetricsInv

LEMMA MetricsReturns ==
  ASSUME MetricsInv, NEW p \in Paths, NEW i \in M!Mounts, M!Returns(p, i)
  PROVE  MetricsInv'
<1>1. /\ UNCHANGED <<mounted, mounts, dead, deaths, pc, present, todo, probing, batch, exec, runs,
                     queue, drain, shipped, db, space, restarts>>
      /\ threads[p][i] > 0 /\ (pc = "probe" => probing # M!Of(p, i))
      /\ threads' = [threads EXCEPT ![p][i] = threads[p][i] - 1]
  BY DEF M!Returns, M!host, M!gathering, M!shipping, M!env
<1>2. \/ held' = held
      \/ held[p] = [mount |-> i, done |-> FALSE] /\ held' = [held EXCEPT ![p].done = TRUE]
  BY DEF M!Returns
<1>3. held \in [Paths -> [mount : M!Mounts, done : BOOLEAN]]
  BY DEF MetricsInv, M!TypeOK
<1>4. /\ held' \in [Paths -> [mount : M!Mounts, done : BOOLEAN]]
      /\ \A q \in Paths : q # p => held'[q] = held[q]
      /\ held'[p] = held[p] \/ held[p] = [mount |-> i, done |-> FALSE]
      /\ \A q \in Paths : held'[q].mount = held[q].mount
  <2>1. CASE held' = held
    BY <1>3, <2>1
  <2>2. CASE /\ held[p] = [mount |-> i, done |-> FALSE]
             /\ held' = [held EXCEPT ![p].done = TRUE]
    <3>1. held[p] \in [mount : M!Mounts, done : BOOLEAN]
      BY <1>3
    <3>2. [held[p] EXCEPT !.done = TRUE] \in [mount : M!Mounts, done : BOOLEAN]
          /\ [held[p] EXCEPT !.done = TRUE].mount = held[p].mount
      BY <3>1
    <3>3. held' = [held EXCEPT ![p] = [held[p] EXCEPT !.done = TRUE]]
      BY <2>2
    <3> QED BY <1>3, <2>2, <3>2, <3>3
  <2> QED BY <1>2, <2>1, <2>2
<1>5. ThreadsTyped' /\ \A q \in Paths : OneProbe(q)'
  BY <1>1, <1>4, ThreadEnds
<1>6. Waiting'
  <2> SUFFICES ASSUME pc = "probe" PROVE Waiting'
    BY <1>1 DEF Waiting
  <2> DEFINE q == probing.path
             j == probing.mount
  <2>1. /\ q \in Paths /\ j \in M!Mounts /\ threads[q][j] > 0 /\ held[q].mount = 0
        /\ probing = M!Of(q, j)
    BY DEF MetricsInv, M!TypeOK, M!Sample, Waiting, M!Of
  <2>2. q # p \/ j # i
    BY <1>1, <2>1
  <2>3. threads \in [Paths -> [M!Mounts -> Nat]]
    BY DEF MetricsInv, ThreadsTyped
  <2>4. threads'[q][j] = threads[q][j]
    <3> HIDE DEF q, j
    <3> QED BY <1>1, <2>1, <2>2, <2>3
  <2> QED BY <1>1, <1>4, <2>1, <2>4 DEF Waiting
<1>7. M!TypeOK'
  BY <1>1, <1>4, <1>5 DEF MetricsInv, M!TypeOK, ThreadsTyped
<1>8. QueueInv'
  BY <1>1 DEF MetricsInv, QueueInv
<1> QED BY <1>5, <1>6, <1>7, <1>8 DEF MetricsInv

\* A tick ends: what prune forgets had no thread to account for.
LEMMA MetricsTickEnd == ASSUME MetricsInv, M!TickEnd PROVE MetricsInv'
<1>1. /\ UNCHANGED <<mounted, mounts, dead, deaths, threads, todo, probing, exec, runs,
                     drain, shipped, db, space, restarts>>
      /\ pc = "gather" /\ pc' = "wait" /\ todo = {} /\ present' = {} /\ batch' = {}
      /\ held' = [p \in Paths |-> IF p \in present THEN held[p] ELSE M!NoProbe]
      /\ queue' = M!Pushed(queue, batch, space)
  BY DEF M!TickEnd, M!host, M!shipping, M!env
<1>2. M!NoProbe \in [mount : M!Mounts, done : BOOLEAN]
  BY MountsTyped DEF M!NoProbe
<1>3. held' \in [Paths -> [mount : M!Mounts, done : BOOLEAN]]
  BY <1>1, <1>2 DEF MetricsInv, M!TypeOK
<1>4. \A p \in Paths : OneProbe(p)'
  <2> SUFFICES ASSUME NEW p \in Paths PROVE OneProbe(p)'
    OBVIOUS
  <2>1. OneProbe(p)
    BY DEF MetricsInv
  <2>2. held'[p] = IF p \in present THEN held[p] ELSE M!NoProbe
    BY <1>1
  <2> QED BY <1>1, <2>1, <2>2 DEF OneProbe, M!Mounts, M!Of
<1>5. QueueInv'
  BY <1>1, SegsPushed DEF MetricsInv, M!TypeOK, QueueInv
<1>6. M!TypeOK'
  BY <1>1, <1>3, <1>5, SegsTyped DEF MetricsInv, M!TypeOK, QueueInv
<1>7. ThreadsTyped' /\ Waiting'
  BY <1>1 DEF MetricsInv, ThreadsTyped, Waiting
<1> QED BY <1>4, <1>5, <1>6, <1>7 DEF MetricsInv

\* A restart ends every thread, and the queue is found again on disk.
LEMMA MetricsRestart == ASSUME MetricsInv, M!Restart PROVE MetricsInv'
<1>1. /\ UNCHANGED <<mounted, mounts, dead, deaths, probing, runs, shipped, db, space>>
      /\ threads' = [p \in Paths |-> [k \in M!Mounts |-> 0]]
      /\ held' = [p \in Paths |-> M!NoProbe]
      /\ pc' = "wait" /\ present' = {} /\ todo' = {} /\ batch' = {} /\ exec' = "wait"
      /\ drain' = "look" /\ queue' = M!Opened(queue)
      /\ restarts < MaxRestarts /\ restarts' = restarts + 1
  BY DEF M!Restart, M!host
<1>2. held' \in [Paths -> [mount : M!Mounts, done : BOOLEAN]]
  BY <1>1, MountsTyped DEF M!NoProbe
<1>3. ThreadsTyped' /\ Waiting'
  BY <1>1 DEF ThreadsTyped, Waiting
<1>4. \A p \in Paths : OneProbe(p)'
  <2> SUFFICES ASSUME NEW p \in Paths PROVE OneProbe(p)'
    OBVIOUS
  <2>1. /\ OneProbe(p) /\ mounted[p] \in 0..MaxMounts
    BY DEF MetricsInv, M!TypeOK, M!Mounts
  <2>2. \A k \in M!Mounts : threads'[p][k] = 0
    BY <1>1
  <2> QED BY <1>1, <2>1, <2>2, MountsTyped DEF OneProbe, M!Mounts
<1>5. QueueInv'
  BY <1>1 DEF MetricsInv, QueueInv, M!Opened, M!Paused
<1>6. restarts' \in 0..MaxRestarts
  BY <1>1, ServicesAssumption DEF MetricsInv, M!TypeOK, M!MetricsAssumption
<1>7. M!TypeOK'
  BY <1>1, <1>2, <1>3, <1>5, <1>6, SegsTyped DEF MetricsInv, M!TypeOK, QueueInv, ThreadsTyped
<1> QED BY <1>3, <1>4, <1>5, <1>7 DEF MetricsInv

LEMMA MetricsNext == ASSUME MetricsInv, M!Next \/ UNCHANGED metrics PROVE MetricsInv'
<1>1. CASE UNCHANGED metrics
  BY <1>1, MetricsAround
<1>2. CASE M!Next
  <2>1. CASE M!Tick
    BY <2>1, MetricsTickBegin, MetricsQuarantined, MetricsProbe, MetricsAnswers,
       MetricsTimesOut, MetricsTickEnd
    DEF M!Tick, M!Gather
  <2>2. CASE M!ExecRun \/ M!ExecEnds \/ M!Drain \/ M!Flips
    BY <2>2, MetricsAround
  <2>3. CASE M!Restart
    BY <2>3, MetricsRestart
  <2>4. ASSUME NEW p \in Paths, M!Mount(p) \/ M!Unmount(p) \/ M!Dies(p) PROVE MetricsInv'
    BY <2>4, MetricsMount, MetricsAround
  <2>5. ASSUME NEW p \in Paths, NEW i \in M!Mounts, M!Returns(p, i) PROVE MetricsInv'
    BY <2>5, MetricsReturns
  <2>6. ASSUME NEW d \in dead, M!Recovers(d) PROVE MetricsInv'
    BY <2>6, MetricsAround
  <2> QED BY <1>2, <2>1, <2>2, <2>3, <2>4, <2>5, <2>6 DEF M!Next
<1> QED BY <1>1, <1>2

(***************************************************************************)
(* The composition                                                         *)
(***************************************************************************)

LEMMA Invariance == Spec => [](CredInv /\ MetricsInv)
<1>1. Init => CredInv /\ MetricsInv
  BY CredInit, MetricsInit DEF Init
<1>2. CredInv /\ MetricsInv /\ [Next]_vars => (CredInv /\ MetricsInv)'
  <2> SUFFICES ASSUME CredInv, MetricsInv, [Next]_vars PROVE (CredInv /\ MetricsInv)'
    OBVIOUS
  <2>1. CASE MetricsStep(M!Next)
    BY <2>1, MetricsNext, CredNext DEF MetricsStep
  <2>2. CASE CredentialStep(C!Next)
    BY <2>2, MetricsNext, CredNext DEF CredentialStep
  <2>3. CASE UNCHANGED vars
    BY <2>3, MetricsNext, CredNext DEF vars
  <2> QED BY <2>1, <2>2, <2>3 DEF Next
<1> QED BY <1>1, <1>2, PTL DEF Spec

\* TypeOK: every variable of the collector and of the identity keeps its type,
\* a thread is never accounted for twice, and pop never meets an empty queue.
THEOREM TypeCorrect == Spec => []TypeOK
<1>1. CredInv /\ MetricsInv => TypeOK
  BY DEF CredInv, MetricsInv, TypeOK
<1> QED BY <1>1, Invariance, PTL

\* MatchedHolds: the client presents a certificate with its own key, however
\* the two files are replaced while any number of tasks look at them
\* (load_pair, rotate_credentials and rebuild_transport).
THEOREM MatchedHolds == Spec => []Matched
<1>1. CredInv => Matched
  BY DEF CredInv, Matched
<1> QED BY <1>1, Invariance, PTL

\* ProbesBoundedHolds: a mount that does not answer costs one thread, through
\* unmounts, remounts and the pruning of the quarantine (DeadMounts::check,
\* hold and prune).
THEOREM ProbesBoundedHolds == Spec => []ProbesBounded
<1>1. MetricsInv => ProbesBounded
  BY DEF MetricsInv, OneProbe, ProbesBounded, M!ProbesBounded
<1> QED BY <1>1, Invariance, PTL
=============================================================================
