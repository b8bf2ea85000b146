----------------------------- MODULE Coordinator -----------------------------
(***************************************************************************)
(* main.rs: the coordinator that keeps one task per [[source]], and the    *)
(* reloads.  On SIGHUP the coordinator reads the file, stops and starts    *)
(* tasks, and bumps a generation; every task that sees the new generation  *)
(* reads the file again, by itself and later, and swaps its rules.         *)
(*                                                                         *)
(* A task ends when its shutdown channel says so or when the channel's     *)
(* sender, which lives in `running', is dropped: changed() fails and ends  *)
(* the shutdown future like a stop.                                        *)
(*                                                                         *)
(* Abstractions.  What a task does with its source is Pipeline.tla or      *)
(* GlobSource.tla: here it sets up, tails, drains and returns.  Of a       *)
(* config file only what a reload looks at is kept: whether it loads, the  *)
(* sources' names, where the sources point (their identity) and a version  *)
(* that stands for rules and output knobs.                                 *)
(***************************************************************************)
EXTENDS Naturals, Sequences, FiniteSets

CONSTANTS
  Names,      \* source names
  Globs,      \* those whose path has a wildcard
  Paths,      \* what the sources' paths may be set to
  MaxEdits,   \* edits of the config file (bound)
  MaxReloads  \* reloads that are accepted (bound)

CoordinatorAssumption ==
  Globs \subseteq Names /\ Paths # {} /\ MaxEdits \in Nat /\ MaxReloads \in Nat

VARIABLES
  file,      \* the config file
  once,      \* --once
  hup,       \* reload_notify holds a permit
  running,   \* which task of a name has its sender in `running'; 0 is none
  tasks,     \* the tasks of a name, in the order they were spawned
  gen,       \* reload_gen
  signalled, \* the coordinator is stopping every source
  failed,    \* first_err is Some
  up,        \* the coordinator's loop has not ended
  loaded,    \* history: the version the last accepted reload, or the start, read
  readded,   \* history: names spawned while an earlier task of theirs was not joined
  late       \* history: tasks that took their generation after it had moved

coord   == <<hup, running, signalled, failed, up>>
history == <<loaded, readded, late>>
vars    == <<file, once, tasks, gen, coord, history>>

Task(f) ==
  [at |-> "setup", told |-> FALSE, path |-> f.path, rules |-> f.version,
   knobs |-> f.version, seen |-> 0]
FirstPath == CHOOSE p \in Paths : TRUE
Gone == [Task([path |-> FirstPath, version |-> 0]) EXCEPT !.at = "joined"]
Alive(t) == t.at \in {"setup", "tail"}
Joined(n) == \A k \in DOMAIN tasks[n] : tasks[n][k].at = "joined"
Live(n) == {k \in DOMAIN tasks[n] : Alive(tasks[n][k])}
-----------------------------------------------------------------------------
(* A task: run_file_source, or run_glob_source for a wildcard *)

Moves(n, k, at) == tasks' = [tasks EXCEPT ![n][k].at = at]

\* The set-up copies the rules from the config it was given; the generation it
\* compares with is read last, just before the loop (main.rs:762).
Setup(n, k) ==
  /\ tasks[n][k].at = "setup"
  /\ tasks' = [tasks EXCEPT ![n][k].at = "tail", ![n][k].seen = gen]
  /\ late' = IF tasks[n][k].rules = loaded THEN late ELSE late \cup {<<n, k>>}
  /\ UNCHANGED <<file, once, gen, coord, loaded, readded>>

\* Mutant: the generation is not remembered, and the first reload is the last.
ReloadOnce(n, k) ==
  /\ tasks[n][k].at = "tail" /\ n \notin Globs /\ tasks[n][k].seen = 0 /\ gen # 0
  /\ tasks' = [tasks EXCEPT ![n][k].seen = gen,
                            ![n][k].knobs = IF file.valid THEN file.version ELSE @,
                            ![n][k].rules = IF file.valid THEN file.version ELSE @]
  /\ late' = late \ {<<n, k>>}
  /\ UNCHANGED <<file, once, gen, coord, loaded, readded>>

\* reload_config and apply_reload.  A file that does not load leaves the task as
\* it was.  The knobs are taken from any file that loads, the rules from one
\* that still has this source with the path it was spawned with.
Reload(n, k) ==
  LET t == tasks[n][k] IN
  /\ t.at = "tail" /\ n \notin Globs /\ t.seen # gen
  /\ tasks' = [tasks EXCEPT
       ![n][k].seen = gen,
       ![n][k].knobs = IF file.valid THEN file.version ELSE @,
       ![n][k].rules = IF file.valid /\ n \in file.names /\ file.path = t.path
                         THEN file.version ELSE @]
  /\ late' = late \ {<<n, k>>}
  /\ UNCHANGED <<file, once, gen, coord, loaded, readded>>

\* The loop ends, since it was told to or --once came to the end of the file,
\* and the drain after it; all of that is one step, of any length.
Stop(n, k) ==
  /\ tasks[n][k].at = "tail" /\ (tasks[n][k].told \/ once)
  /\ Moves(n, k, "ok")
  /\ UNCHANGED <<file, once, gen, coord, history>>

\* Set-up, the loop and the drain return an error through `?'.
Fails(n, k) ==
  /\ Alive(tasks[n][k]) /\ Moves(n, k, "err")
  /\ UNCHANGED <<file, once, gen, coord, history>>
-----------------------------------------------------------------------------
(* The coordinator *)

\* tx.send(true) to every sender in `told'; dropping a sender has the same effect.
Telling(ts, told) ==
  [n \in Names |-> [k \in DOMAIN ts[n] |->
     IF <<n, k>> \in told THEN [ts[n][k] EXCEPT !.told = TRUE] ELSE ts[n][k]]]
Reachable == {<<n, running[n]>> : n \in {n \in Names : running[n] # 0}}
Spawned(ts, added, f) ==
  [n \in Names |-> IF n \in added THEN Append(ts[n], Task(f)) ELSE ts[n]]

\* The loop over cfg.sources before the coordinator starts.
Init ==
  /\ file = [valid |-> TRUE, names |-> Names, path |-> FirstPath, version |-> 0]
  /\ once \in BOOLEAN
  /\ hup = FALSE /\ running = [n \in Names |-> 1]
  /\ tasks = [n \in Names |-> <<Task(file)>>]
  /\ gen = 0 /\ signalled = FALSE /\ failed = FALSE /\ up = TRUE
  /\ loaded = 0 /\ readded = {} /\ late = {}

\* Mutant: a source whose version changed is started again, the old task not stopped.
AddedAnew == {n \in file.names : running[n] = 0 \/ file.version # loaded}

\* The diff of diff_source_set: by name, against `running'.
Removed == {n \in Names : running[n] # 0} \ file.names
Added   == {n \in file.names : running[n] = 0}

\* reload_source_set.  Removing a sender from `running' tells its task to stop.
ReloadSourceSet ==
  /\ up /\ hup /\ ~signalled
  /\ hup' = FALSE
  /\ IF file.valid
       THEN LET added == Added removed == Removed IN
            /\ tasks' = Spawned(Telling(tasks, {<<n, running[n]>> : n \in removed}), added, file)
            /\ running' = [n \in Names |-> IF n \in added THEN Len(tasks[n]) + 1
                                           ELSE IF n \in removed THEN 0 ELSE running[n]]
            /\ gen' = gen + 1
            /\ loaded' = file.version
            /\ readded' = readded \cup {n \in added : running[n] = 0 /\ ~Joined(n)}
       ELSE UNCHANGED <<tasks, running, gen, loaded, readded>>
  /\ UNCHANGED <<file, once, signalled, failed, up, late>>

\* Mutant: SIGTERM only notes that the agent is stopping.
StopNoted ==
  /\ up /\ ~signalled /\ signalled' = TRUE
  /\ UNCHANGED <<file, once, gen, tasks, hup, running, failed, up, history>>

\* SIGTERM or ctrl-c.
StopSignal ==
  /\ up /\ ~signalled /\ signalled' = TRUE
  /\ tasks' = Telling(tasks, Reachable)
  /\ UNCHANGED <<file, once, gen, hup, running, failed, up, history>>

\* join_next.  The sender is looked up by name: if the name has been spawned
\* again it is the new task's sender that goes.  A failure stops every source.
Join(n, k) ==
  LET err == tasks[n][k].at = "err"
      own == IF running[n] = 0 THEN {} ELSE {<<n, running[n]>>}
  IN
  /\ up /\ tasks[n][k].at \in {"ok", "err"}
  /\ running' = [running EXCEPT ![n] = 0]
  /\ tasks' = [Telling(tasks, IF err THEN Reachable ELSE own) EXCEPT ![n][k] = Gone]
  /\ failed' = (failed \/ err) /\ signalled' = (signalled \/ err)
  /\ UNCHANGED <<file, once, gen, hup, up, history>>

\* join_next with no task left: main returns, with first_err when there is one.
Exit ==
  /\ up /\ (\A n \in Names : Joined(n))
  /\ up' = FALSE
  /\ UNCHANGED <<file, once, gen, tasks, hup, running, signalled, failed, history>>
-----------------------------------------------------------------------------
(* The operator *)

\* Not while the agent is stopping, when nothing comes of it, nor under a --once
\* run, which is over soon.
Edit ==
  /\ up /\ ~signalled /\ ~once /\ file.version < MaxEdits
  /\ \/ file' \in [valid : {TRUE}, names : SUBSET Names, path : Paths, version : {file.version + 1}]
     \/ file' = [file EXCEPT !.valid = FALSE, !.version = @ + 1]
  /\ UNCHANGED <<once, gen, tasks, coord, history>>

\* A permit that is already there absorbs the signal.
Hup ==
  /\ up /\ ~signalled /\ gen < MaxReloads /\ ~hup /\ hup' = TRUE
  /\ UNCHANGED <<file, once, gen, tasks, running, signalled, failed, up, history>>

Work(n, k) == Setup(n, k) \/ Reload(n, k) \/ Stop(n, k) \/ Join(n, k)
Agent == ReloadSourceSet \/ Exit \/ \E n \in Names : \E k \in DOMAIN tasks[n] : Work(n, k)

Next ==
  \/ Agent \/ StopSignal \/ Edit \/ Hup
  \/ \E n \in Names : \E k \in DOMAIN tasks[n] : Fails(n, k)

\* tokio polls what is ready; a drain ends, since it gives up on the first
\* failed send.  Work is finite between two events from outside, so one weak
\* fairness condition covers every task.
Spec == Init /\ [][Next]_vars /\ WF_vars(Agent)
-----------------------------------------------------------------------------
TypeOK ==
  /\ file \in [valid : BOOLEAN, names : SUBSET Names, path : Paths, version : 0..MaxEdits]
  /\ once \in BOOLEAN /\ hup \in BOOLEAN /\ signalled \in BOOLEAN /\ failed \in BOOLEAN
  /\ up \in BOOLEAN /\ gen \in 0..(MaxReloads + 1)
  /\ \A n \in Names :
       /\ running[n] \in 0..Len(tasks[n])
       /\ \A k \in DOMAIN tasks[n] : tasks[n][k] \in
            [at : {"setup", "tail", "ok", "err", "joined"}, told : BOOLEAN,
             path : Paths, rules : 0..MaxEdits, knobs : 0..MaxEdits, seen : 0..(MaxReloads + 1)]
  /\ readded \subseteq Names

\* OneTask: no two live tasks share a checkpoint, a queue directory and a
\* dead-letter file, however reloads, failures and drains interleave; except
\* for a name that was removed and added again before its task was joined.
OneTask == \A n \in Names \ readded : Cardinality(Live(n)) <= 1

\* StopEnds: once a stop signal or a failed source has put the agent into
\* stopping, it ends: no task is out of reach of the signal.
StopEnds == signalled ~> ~up

\* The agent follows a config file that stays as the last reload read it.
Steady == up /\ ~signalled /\ ~once /\ ~hup /\ file.version = loaded

\* Task k of n runs what the file says.
Current(n, k) ==
  LET t == tasks[n][k] IN
  /\ t.at = "tail" /\ ~t.told
  /\ \/ n \in Globs \/ <<n, k>> \in late
     \/ t.knobs = file.version /\ (t.path = file.path => t.rules = file.version)

Tailed(n) == running[n] # 0 /\ Current(n, running[n])

\* ReloadConverges: a config file that stays as it is after the reload that
\* read it is what the agent ends up running: a task with this file's rules for
\* every source in it, and none for the others.  Except for names added again
\* before their old task was joined, for the rules of globs, which are never
\* reloaded, and for a task still setting up when the generation moved.
ReloadConverges ==
  <>[]Steady => <>[](\A n \in Names \ readded :
                       IF n \in file.names THEN Tailed(n) ELSE Live(n) = {})

\* ConfiguredIsTailed: the part of it that the operator counts on, that every
\* source of the file is tailed (README.md:362).
ConfiguredIsTailed ==
  <>[]Steady => <>[](\A n \in file.names : \E k \in Live(n) : ~tasks[n][k].told)
=============================================================================
