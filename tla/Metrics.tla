------------------------------- MODULE Metrics -------------------------------
(***************************************************************************)
(* The host-metrics collector, metrics.rs and metrics/exec.rs on Linux:    *)
(* the sampling loop with its quarantine of mounts whose statvfs does not  *)
(* return, one task per [[metrics.exec]], and the drain, around one queue. *)
(*                                                                         *)
(* Abstractions.  A file system is a path and the number of the mount      *)
(* there; a sample says which one it measured.  The other collectors never *)
(* block and are one sample of their own.  Values, tags and the time of a  *)
(* tick are left out.                                                      *)
(***************************************************************************)
EXTENDS QueueOps

CONSTANTS
  Paths,       \* mount points
  MaxMounts,   \* mounts ever made at a path (bound)
  MaxDeaths,   \* how many times a mount stops answering (bound)
  MaxRuns,     \* runs of exec commands (bound)
  MaxRestarts  \* how many times the process may be restarted (bound)

MetricsAssumption ==
  MaxMounts \in Nat \ {0} /\ MaxDeaths \in Nat /\ MaxRuns \in Nat /\ MaxRestarts \in Nat

VARIABLES
  mounted,   \* the mount now at a path, numbered from 1; 0 is none
  mounts,    \* how many there have been
  dead,      \* mounts whose statvfs does not return
  deaths,
  threads,   \* blocked probe threads, per mount
  held,      \* DeadMounts::pending: the probe held for a path
  pc, present, todo, probing,   \* the tick: the paths in mountinfo, those left, the probe
  batch,     \* samples of the tick
  exec, runs,   \* an exec task, and its runs so far
  queue,     \* the queue; queue.segs is on disk
  drain,     \* where the drain task is
  shipped,   \* samples of the last batch it shipped
  db, space, restarts

host      == <<mounted, mounts, dead, deaths>>
gathering == <<pc, present, todo, probing, batch>>
shipping  == <<drain, shipped>>
env       == <<db, space, restarts>>
metrics   == <<host, threads, held, gathering, exec, runs, queue, shipping, env>>

Mounts == 0..MaxMounts
NoProbe == [mount |-> 0, done |-> FALSE]
Sample == [path : Paths \cup {"host", "exec"}, mount : Mounts]
Of(p, i) == [path |-> p, mount |-> i]
PathsNow == {p \in Paths : mounted[p] # 0}
-----------------------------------------------------------------------------
Init ==
  /\ mounted = [p \in Paths |-> 1] /\ mounts = [p \in Paths |-> 1] /\ dead = {} /\ deaths = 0
  /\ threads = [p \in Paths |-> [i \in Mounts |-> 0]] /\ held = [p \in Paths |-> NoProbe]
  /\ pc = "wait" /\ present = {} /\ todo = {} /\ probing = Of("host", 0) /\ batch = {}
  /\ exec = "wait" /\ runs = 0 /\ queue = EmptyQueue
  /\ drain = "look" /\ shipped = {} /\ db = "up" /\ space = TRUE /\ restarts = 0

\* The interval: everything that does not block, and gather_disks_linux as far
\* as reading mountinfo.
TickBegin ==
  /\ pc = "wait" /\ pc' = "gather"
  /\ present' = PathsNow /\ todo' = present' /\ batch' = {Of("host", 0)}
  /\ UNCHANGED <<host, threads, held, probing, exec, runs, queue, shipping, env>>

\* Mutant: a quarantined mount is probed again on every tick.
ProbeAnyway(p) ==
  /\ pc = "gather" /\ todo' = todo \ {p}
  /\ pc' = "probe" /\ probing' = Of(p, mounted[p])
  /\ threads' = [threads EXCEPT ![p][mounted[p]] = @ + 1]
  /\ UNCHANGED <<host, present, held, batch, exec, runs, queue, shipping, env>>

\* DeadMounts::check: StillDead and Recovered.
Quarantined(p) ==
  /\ pc = "gather" /\ held[p] # NoProbe /\ todo' = todo \ {p}
  /\ IF held[p].done
       THEN held' = [held EXCEPT ![p] = NoProbe] /\ batch' = batch \cup {Of(p, held[p].mount)}
       ELSE UNCHANGED <<held, batch>>
  /\ UNCHANGED <<host, present, threads, pc, probing, exec, runs, queue, shipping, env>>

\* Fresh: statvfs of the path goes to a thread of its own.  It measures what is
\* there by now, the underlying file system (mount 0) when nothing is.
Probe(p) ==
  /\ pc = "gather" /\ held[p] = NoProbe /\ todo' = todo \ {p}
  /\ pc' = "probe" /\ probing' = Of(p, mounted[p])
  /\ threads' = [threads EXCEPT ![p][mounted[p]] = @ + 1]
  /\ UNCHANGED <<host, present, held, batch, exec, runs, queue, shipping, env>>

Gather == \E p \in todo : Quarantined(p) \/ Probe(p)

Answers ==
  /\ pc = "probe" /\ pc' = "gather"
  /\ <<probing.path, probing.mount>> \notin dead
  /\ threads' = [threads EXCEPT ![probing.path][probing.mount] = @ - 1]
  /\ batch' = batch \cup {probing}
  /\ UNCHANGED <<host, present, held, todo, probing, exec, runs, queue, shipping, env>>

\* Mutant: the loop waits for the probe, however long it takes.
NoTimeout == Answers

\* PER_MOUNT_TIMEOUT: hold.  A slow file system is dead for a while.
TimesOut ==
  /\ pc = "probe" /\ pc' = "gather"
  /\ <<probing.path, probing.mount>> \in dead
  /\ held' = [held EXCEPT ![probing.path] = [mount |-> probing.mount, done |-> FALSE]]
  /\ UNCHANGED <<host, present, threads, todo, probing, batch, exec, runs, queue, shipping, env>>

\* A held or forgotten statvfs returns.
Returns(p, i) ==
  /\ threads[p][i] > 0 /\ <<p, i>> \notin dead
  /\ pc = "probe" => probing # Of(p, i)
  /\ threads' = [threads EXCEPT ![p][i] = @ - 1]
  /\ held' = IF held[p] = [mount |-> i, done |-> FALSE] THEN [held EXCEPT ![p].done = TRUE] ELSE held
  /\ UNCHANGED <<host, gathering, exec, runs, queue, shipping, env>>

\* prune, by the mounts of this tick's enumeration, and the push; a batch that
\* is refused is dropped.
TickEnd ==
  /\ pc = "gather" /\ todo = {} /\ pc' = "wait"
  /\ held' = [p \in Paths |-> IF p \in present THEN held[p] ELSE NoProbe]
  /\ queue' = Pushed(queue, batch, space)
  /\ present' = {} /\ batch' = {}
  /\ UNCHANGED <<host, threads, todo, probing, exec, runs, shipping, env>>

\* run_exec: the command is spawned; it exits with 0, or it fails, exits with
\* another status or is killed with its group at the timeout.
ExecRun ==
  /\ exec = "wait" /\ exec' = "run" /\ runs < MaxRuns /\ runs' = runs + 1
  /\ UNCHANGED <<host, threads, held, gathering, queue, shipping, env>>

ExecEnds ==
  /\ exec = "run" /\ exec' = "wait"
  /\ queue' \in {queue, Pushed(queue, {Of("exec", 0)}, space)}
  /\ UNCHANGED <<host, threads, held, gathering, runs, shipping, env>>

\* drain, as in otlp.rs: look at the front, send it without the lock, pop it.
DrainSend ==
  /\ drain = "look" /\ queue.segs # <<>> /\ db = "up"
  /\ drain' = "pop" /\ shipped' = Head(queue.segs)
  /\ UNCHANGED <<host, threads, held, gathering, exec, runs, queue, env>>

DrainPop ==
  /\ drain = "pop" /\ drain' = "look" /\ queue' = Popped(queue)
  /\ UNCHANGED <<host, threads, held, gathering, exec, runs, shipped, env>>

\* The process ends, and its threads with it, and is started again.
Restart ==
  /\ restarts < MaxRestarts /\ restarts' = restarts + 1
  /\ threads' = [p \in Paths |-> [i \in Mounts |-> 0]] /\ held' = [p \in Paths |-> NoProbe]
  /\ pc' = "wait" /\ present' = {} /\ todo' = {} /\ batch' = {} /\ exec' = "wait" /\ drain' = "look"
  /\ queue' = Opened(queue)
  /\ UNCHANGED <<host, probing, runs, shipped, db, space>>
-----------------------------------------------------------------------------
(* The host *)

Mount(p) ==
  /\ mounted[p] = 0 /\ mounts[p] < MaxMounts
  /\ mounts' = [mounts EXCEPT ![p] = @ + 1] /\ mounted' = [mounted EXCEPT ![p] = mounts'[p]]
  /\ UNCHANGED <<dead, deaths, threads, held, gathering, exec, runs, queue, shipping, env>>

\* A mount that does not answer can be unmounted too (lazily).
Unmount(p) ==
  /\ mounted[p] # 0 /\ mounted' = [mounted EXCEPT ![p] = 0]
  /\ UNCHANGED <<mounts, dead, deaths, threads, held, gathering, exec, runs, queue, shipping, env>>

Dies(p) ==
  /\ mounted[p] # 0 /\ <<p, mounted[p]>> \notin dead /\ deaths < MaxDeaths
  /\ deaths' = deaths + 1 /\ dead' = dead \cup {<<p, mounted[p]>>}
  /\ UNCHANGED <<mounted, mounts, threads, held, gathering, exec, runs, queue, shipping, env>>

Recovers(d) ==
  /\ dead' = dead \ {d}
  /\ UNCHANGED <<mounted, mounts, deaths, threads, held, gathering, exec, runs, queue, shipping, env>>

Flips ==
  /\ \/ db' = (IF db = "up" THEN "down" ELSE "up") /\ UNCHANGED space
     \/ space' = ~space /\ UNCHANGED db
  /\ UNCHANGED <<host, threads, held, gathering, exec, runs, queue, shipping, restarts>>

Tick == TickBegin \/ Gather \/ Answers \/ TimesOut \/ TickEnd
Drain == DrainSend \/ DrainPop

Next ==
  \/ Tick \/ ExecRun \/ ExecEnds \/ Drain \/ Restart \/ Flips
  \/ \E p \in Paths : Mount(p) \/ Unmount(p) \/ Dies(p) \/ \E i \in Mounts : Returns(p, i)
  \/ \E d \in dead : Recovers(d)

\* The interval fires, a probe answers or times out, and the drain is a loop
\* without an end; a statvfs returns once its file system answers.
Fairness ==
  /\ WF_metrics(Tick) /\ WF_metrics(Drain)
  /\ \A p \in Paths : \A i \in Mounts : WF_metrics(Returns(p, i))

Spec == Init /\ [][Next]_metrics /\ Fairness
-----------------------------------------------------------------------------
TypeOK ==
  /\ mounted \in [Paths -> Mounts] /\ mounts \in [Paths -> Mounts]
  /\ dead \subseteq Paths \X Mounts /\ deaths \in 0..MaxDeaths
  /\ \A p \in Paths : threads[p] \in [Mounts -> Nat]
  /\ held \in [Paths -> [mount : Mounts, done : BOOLEAN]]
  /\ pc \in {"wait", "gather", "probe"} /\ todo \subseteq present /\ present \subseteq Paths
  /\ probing \in Sample /\ batch \subseteq Sample /\ shipped \subseteq Sample
  /\ exec \in {"wait", "run"} /\ runs \in 0..MaxRuns /\ drain \in {"look", "pop"}
  /\ \A i \in DOMAIN queue.segs : queue.segs[i] \subseteq Sample
  /\ db \in {"up", "down"} /\ space \in BOOLEAN /\ restarts \in 0..MaxRestarts

\* ProbesBounded: a mount that does not answer costs one blocked thread,
\* however many ticks pass ("exactly one thread per dead mount, ever",
\* metrics.rs:770).
ProbesBounded == \A p \in Paths : \A i \in 1..MaxMounts : threads[p][i] <= 1

\* The probe held for a path is of an earlier mount, which does not answer.
Masked(p) ==
  held[p].mount \notin {0, mounted[p]} /\ <<p, held[p].mount>> \in dead

\* RecoveredReports: a mount that stays and answers is reported again and again
\* once the database stays up, whatever other mounts do and whether it was dead
\* before; except while a probe of an earlier mount is held for its path.
RecoveredReports ==
  (<>[](db = "up" /\ space))
    => \A p \in Paths : \A i \in 1..MaxMounts :
         <>[](mounted[p] = i /\ <<p, i>> \notin dead) => []<>(Of(p, i) \in shipped \/ Masked(p))
=============================================================================
