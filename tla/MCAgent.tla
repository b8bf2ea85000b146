------------------------------- MODULE MCAgent -------------------------------
(***************************************************************************)
(* The two supervisors of the agent, checked side by side: the coordinator *)
(* of its sources and a glob source's scan of its children.  They share no *)
(* state; one of them, chosen at the start, takes the steps of a behaviour. *)
(***************************************************************************)
EXTENDS Integers, Sequences, FiniteSets

CONSTANTS
  (* Coordinator *) Names, Globs, Paths, MaxEdits, MaxReloads,
  (* GlobSource *)  Files, MaxLives, MaxLines, MaxEnds

VARIABLES
  part,
  (* Coordinator *) file, once, hup, running, tasks, gen, signalled, failed, loop, loaded,
                    readded, late,
  (* GlobSource *)  present, lives, written, child, mem, told, paused, retiring, stopping,
                    ckpt, queue, stored, db, up, ends, read, dropped

C == INSTANCE Coordinator WITH up <- loop
G == INSTANCE GlobSource

ASSUME AgentAssumption == C!CoordinatorAssumption /\ G!GlobAssumption

coordinator == <<file, once, hup, running, tasks, gen, signalled, failed, loop, loaded,
                 readded, late>>
glob        == <<present, lives, written, child, mem, told, paused, retiring, stopping,
                 ckpt, queue, stored, db, up, ends, read, dropped>>
vars        == <<part, coordinator, glob>>

CoordinatorStep(A) == part = "coordinator" /\ A /\ UNCHANGED <<part, glob>>
GlobStep(A)        == part = "glob"        /\ A /\ UNCHANGED <<part, coordinator>>

\* A part that takes no step starts in one of its initial states.
Init ==
  /\ part \in {"coordinator", "glob"}
  /\ C!Init /\ (part # "coordinator" => ~once)
  /\ G!Init

Next == CoordinatorStep(C!Next) \/ GlobStep(G!Next)

\* The fairness of the two modules, for the part that runs.
Fairness ==
  /\ WF_vars(CoordinatorStep(C!Agent))
  /\ \A f \in Files :
       /\ WF_vars(GlobStep(G!Pass(f))) /\ WF_vars(GlobStep(G!Settle(f)))
       /\ WF_vars(GlobStep(G!DrainQueue(f))) /\ WF_vars(GlobStep(G!Join(f)))
  /\ WF_vars(GlobStep(G!Scan)) /\ WF_vars(GlobStep(G!Exit)) /\ WF_vars(GlobStep(G!Start))

Spec == Init /\ [][Next]_vars /\ Fairness
-----------------------------------------------------------------------------
\* TypeOK: every variable of the two parts keeps its type.
TypeOK == C!TypeOK /\ G!TypeOK

\* OneTask: a queue directory is used by one task, unless a reload adds a source
\* back before its old task has ended (main.rs, reload_source_set).
OneTask == C!OneTask

\* StopEnds: a stop signal ends every task and the agent (main.rs, run).
StopEnds == C!StopEnds

\* ReloadConverges: a running task comes to follow the file (main.rs, apply_reload).
ReloadConverges == part = "coordinator" => C!ReloadConverges

\* ReadIsKept: what a child has read is delivered, queued or read again
\* (main.rs, run_glob_source).
ReadIsKept == G!ReadIsKept

\* AllTailed: every file that matches is tailed (main.rs, run_glob_source).
AllTailed == part = "glob" => G!AllTailed
=============================================================================
