----------------------------- MODULE GlobSource -----------------------------
(***************************************************************************)
(* run_glob_source (main.rs): the supervisor that tails every file a       *)
(* pattern matches, adopts the ones that appear, and drains and retires    *)
(* the tail of a file that vanished.  Files come and go under it, a        *)
(* deleted file lives on for the child that holds it open, and the same    *)
(* name may come back with another file behind it.                         *)
(*                                                                         *)
(* Abstractions.  A child is a file tail reduced to what Pipeline.tla      *)
(* promises of it: a line it has read is in memory until one step settles  *)
(* the lines in memory, into the database or the queue, and saves the      *)
(* checkpoint behind them.  Of the pass over the file the model keeps that *)
(* a stop is only looked for after a pass that read nothing.               *)
(***************************************************************************)
EXTENDS Naturals, FiniteSets

CONSTANTS
  Files,        \* what the pattern may match: one path is one stream id
  MaxLives,     \* how many files a path names, one after the other (bound)
  MaxLines,     \* lines ever written under a path (bound)
  MaxEnds       \* crashes, stops and failures of the agent (bound)

GlobAssumption ==
  MaxLives \in Nat /\ MaxLines \in Nat /\ MaxEnds \in Nat

VARIABLES
  present,  \* the file now behind a path, numbered from 1; 0 is none
  lives,    \* how many there have been
  written,  \* lines written to it
  child,    \* the task of a path, with the file it has open and where it is
  mem,      \* lines a child has read and not settled
  told,     \* paths whose sender has said stop
  paused,   \* paths whose queue is full
  retiring, \* children stopped because their file vanished
  stopping, \* stopping, set by the stop signal and by a child that failed
  ckpt,     \* on disk: file and position, per path; NoMark is no checkpoint
  queue,    \* on disk: undelivered lines, per path
  stored,   \* lines durable in the database
  db, up, ends,
  read,     \* history: lines some child has read
  dropped   \* history: lines in memory when the process or the child ended

world   == <<present, lives, written>>
disk    == <<ckpt, queue, stored>>
sup     == <<told, retiring, stopping>>
env     == <<db, up, ends>>
history == <<read, dropped>>
vars    == <<world, child, mem, paused, sup, disk, env, history>>

Lives == 1..MaxLives
Line == [path : Files, life : Lives, n : 1..MaxLines]
LinesOf(f, i, from) == {[path |-> f, life |-> i, n |-> n] : n \in from+1..written[f][i]}
AllLines(f) == UNION {LinesOf(f, i, 0) : i \in Lives}
NoChild == [at |-> "none", life |-> 0, pos |-> 0]
NoMark == [life |-> 0, pos |-> 0]
Running == {f \in Files : child[f].at # "none"}
-----------------------------------------------------------------------------
(* A child *)

\* Tailer::resume: at the checkpoint when it is of the file that is there, at the
\* start of any other file; with no file there yet when there is none.
Resumed(f) ==
  [at |-> "read", life |-> present[f],
   pos |-> IF ckpt[f].life = present[f] /\ present[f] # 0 THEN ckpt[f].pos ELSE 0]

AtEnd(f) == child[f].life = 0 \/ child[f].pos = written[f][child[f].life]

Read(f) ==
  /\ child[f].at = "read" /\ f \notin paused /\ ~AtEnd(f)
  /\ child' = [child EXCEPT ![f].pos = @ + 1]
  /\ LET line == [path |-> f, life |-> child[f].life, n |-> child'[f].pos] IN
       mem' = [mem EXCEPT ![f] = @ \cup {line}] /\ read' = read \cup {line}
  /\ UNCHANGED <<world, paused, sup, disk, env, dropped>>

\* The end of a file that has been replaced, or that was not there: on to the
\* one that is.
Follow(f) ==
  /\ child[f].at = "read" /\ f \notin paused /\ AtEnd(f) /\ present[f] \notin {0, child[f].life}
  /\ child' = [child EXCEPT ![f] = [at |-> "read", life |-> present[f], pos |-> 0]]
  /\ UNCHANGED <<world, mem, paused, sup, disk, env, history>>

\* Lines in memory reach the database or the queue, and the checkpoint follows.
\* A queue that is full pauses the child.
Settle(f) ==
  /\ child[f].at \in {"read", "idle"} /\ mem[f] # {}
  /\ \/ db = "up" /\ stored' = stored \cup mem[f] /\ UNCHANGED <<queue, paused>>
     \/ /\ db = "down" /\ queue' = [queue EXCEPT ![f] = @ \cup mem[f]]
        /\ paused' \in {paused, paused \cup {f}}
        /\ UNCHANGED stored
  /\ mem' = [mem EXCEPT ![f] = {}]
  /\ ckpt' = [ckpt EXCEPT ![f] = [life |-> child[f].life, pos |-> child[f].pos]]
  /\ UNCHANGED <<world, child, sup, env, history>>

DrainQueue(f) ==
  /\ child[f].at \in {"read", "idle"} /\ queue[f] # {} /\ db = "up"
  /\ stored' = stored \cup queue[f]
  /\ queue' = [queue EXCEPT ![f] = {}] /\ paused' = paused \ {f}
  /\ UNCHANGED <<world, child, mem, sup, ckpt, env, history>>

\* A pass that read nothing: on to the select between the sleep and the stop.
Idle(f) ==
  /\ child[f].at = "read" /\ (f \in paused \/ (AtEnd(f) /\ present[f] \in {0, child[f].life}))
  /\ child' = [child EXCEPT ![f].at = "idle"]
  /\ UNCHANGED <<world, mem, paused, sup, disk, env, history>>

Wake(f) ==
  /\ child[f].at = "idle" /\ f \notin told
  /\ child' = [child EXCEPT ![f].at = "read"]
  /\ UNCHANGED <<world, mem, paused, sup, disk, env, history>>

\* The stop: flush, checkpoint_now, drain_queue, and the return.  The file is
\* not looked at again.
Finish(f) ==
  LET left == mem[f] \cup queue[f] IN
  /\ child[f].at = "idle" /\ f \in told
  /\ \/ /\ db = "up" /\ stored' = stored \cup left /\ queue' = [queue EXCEPT ![f] = {}]
     \/ /\ db = "down" /\ queue' = [queue EXCEPT ![f] = left] /\ UNCHANGED stored
  /\ mem' = [mem EXCEPT ![f] = {}]
  /\ ckpt' = [ckpt EXCEPT ![f] = [life |-> child[f].life, pos |-> child[f].pos]]
  /\ child' = [child EXCEPT ![f].at = "ok"]
  /\ UNCHANGED <<world, paused, sup, env, read, dropped>>

Fails(f) ==
  /\ ends < MaxEnds /\ child[f].at \in {"read", "idle"}
  /\ child' = [child EXCEPT ![f].at = "err"] /\ mem' = [mem EXCEPT ![f] = {}]
  /\ dropped' = dropped \cup mem[f] /\ ends' = ends + 1
  /\ UNCHANGED <<world, paused, sup, disk, db, up, read>>

Pass(f) == Read(f) \/ Follow(f) \/ Idle(f) \/ Wake(f) \/ Finish(f)
-----------------------------------------------------------------------------
(* The supervisor *)

Matches == {f \in Files : present[f] # 0}

Adopted(found) ==
  [f \in Files |-> IF f \in found /\ f \notin Running THEN Resumed(f) ELSE child[f]]

Init ==
  /\ present = [f \in Files |-> 0] /\ lives = [f \in Files |-> 0]
  /\ written = [f \in Files |-> [i \in Lives |-> 0]]
  /\ child = [f \in Files |-> NoChild] /\ mem = [f \in Files |-> {}]
  /\ told = {} /\ paused = {} /\ retiring = {} /\ stopping = FALSE
  /\ ckpt = [f \in Files |-> NoMark] /\ queue = [f \in Files |-> {}] /\ stored = {}
  /\ db = "up" /\ up = TRUE /\ ends = 0
  /\ read = {} /\ dropped = {}

\* Every five seconds.  A directory that cannot be read matches nothing.
Rescan(found) ==
  /\ up /\ ~stopping
  /\ LET gone == (Running \ found) \ retiring IN
       told' = told \cup gone /\ retiring' = retiring \cup gone
  /\ child' = Adopted(found)
  /\ UNCHANGED <<world, mem, paused, stopping, disk, env, history>>

\* Mutant: the state of a departed container goes, whatever its queue holds.
RetiredAll(f) == ckpt' = [ckpt EXCEPT ![f] = NoMark] /\ queue' = [queue EXCEPT ![f] = {}]

\* retire_stream_state.  The queue's directory goes only when it is empty, which
\* nothing can be seen by.
Retired(f) == ckpt' = [ckpt EXCEPT ![f] = NoMark] /\ UNCHANGED queue

\* Mutant: a child that ends stays in `running', and its path is never adopted again.
JoinKeeps(f) ==
  /\ up /\ child[f].at = "ok" /\ f \in retiring
  /\ Retired(f) /\ retiring' = retiring \ {f}
  /\ UNCHANGED <<world, child, mem, told, paused, stopping, stored, env, history>>

\* Mutant: the mark of a retired child outlives it.
JoinStaysRetiring(f) ==
  /\ up /\ child[f].at = "ok"
  /\ child' = [child EXCEPT ![f] = NoChild] /\ paused' = paused \ {f} /\ told' = told \ {f}
  /\ IF f \in retiring THEN Retired(f) ELSE UNCHANGED <<ckpt, queue>>
  /\ UNCHANGED <<world, mem, retiring, stopping, stored, env, history>>

Join(f) ==
  /\ up /\ child[f].at \in {"ok", "err"}
  /\ child' = [child EXCEPT ![f] = NoChild]
  /\ retiring' = retiring \ {f} /\ paused' = paused \ {f}
  /\ IF child[f].at = "ok"
       THEN /\ IF f \in retiring THEN Retired(f) ELSE UNCHANGED <<ckpt, queue>>
            /\ told' = told \ {f} /\ UNCHANGED stopping
       ELSE /\ told' = Running \ {f} /\ stopping' = TRUE
            /\ UNCHANGED <<ckpt, queue>>
  /\ UNCHANGED <<world, mem, stored, env, history>>

Shutdown ==
  /\ up /\ ~stopping /\ ends < MaxEnds /\ ends' = ends + 1
  /\ stopping' = TRUE /\ told' = told \cup Running
  /\ UNCHANGED <<world, child, mem, paused, retiring, disk, db, up, history>>

\* The supervisor returns, and the agent ends with it.
Exit ==
  /\ up /\ stopping /\ Running = {} /\ up' = FALSE
  /\ UNCHANGED <<world, child, mem, paused, sup, disk, db, ends, history>>

Crash ==
  /\ up /\ ends < MaxEnds /\ up' = FALSE /\ ends' = ends + 1
  /\ dropped' = dropped \cup UNION {mem[f] : f \in Files}
  /\ child' = [f \in Files |-> NoChild] /\ mem' = [f \in Files |-> {}]
  /\ told' = {} /\ paused' = {} /\ retiring' = {} /\ stopping' = FALSE
  /\ UNCHANGED <<world, disk, db, read>>

\* The service manager starts the agent again; the first matches are adopted.
Start ==
  /\ ~up /\ up' = TRUE
  /\ stopping' = FALSE
  /\ child' = Adopted(Matches)
  /\ UNCHANGED <<world, mem, paused, told, retiring, disk, db, ends, history>>

Scan == Rescan(Matches)
-----------------------------------------------------------------------------
(* The node: containers start, log and go *)

Create(f) ==
  /\ present[f] = 0 /\ lives[f] < MaxLives
  /\ lives' = [lives EXCEPT ![f] = @ + 1] /\ present' = [present EXCEPT ![f] = lives'[f]]
  /\ UNCHANGED <<written, child, mem, paused, sup, disk, env, history>>

Write(f) ==
  /\ present[f] # 0 /\ Cardinality(AllLines(f)) < MaxLines
  /\ written' = [written EXCEPT ![f][present[f]] = @ + 1]
  /\ UNCHANGED <<present, lives, child, mem, paused, sup, disk, env, history>>

Delete(f) ==
  /\ present[f] # 0 /\ present' = [present EXCEPT ![f] = 0]
  /\ UNCHANGED <<lives, written, child, mem, paused, sup, disk, env, history>>

DbFlip ==
  /\ db' = IF db = "up" THEN "down" ELSE "up"
  /\ UNCHANGED <<world, child, mem, paused, sup, disk, up, ends, history>>

Next ==
  \/ Scan \/ Rescan({}) \/ Shutdown \/ Exit \/ Crash \/ Start \/ DbFlip
  \/ \E f \in Files : Pass(f) \/ Settle(f) \/ DrainQueue(f) \/ Fails(f) \/ Join(f)
                     \/ Create(f) \/ Write(f) \/ Delete(f)

\* The rescan timer and the children's tasks are polled by tokio; every pass of
\* a child drains its queue and flushes what is 500 ms old; the service manager
\* restarts the agent.
Fairness ==
  /\ \A f \in Files : WF_vars(Pass(f)) /\ WF_vars(Settle(f)) /\ WF_vars(DrainQueue(f)) /\ WF_vars(Join(f))
  /\ WF_vars(Scan) /\ WF_vars(Exit) /\ WF_vars(Start)

Spec == Init /\ [][Next]_vars /\ Fairness
-----------------------------------------------------------------------------
TypeOK ==
  /\ present \in [Files -> 0..MaxLives] /\ lives \in [Files -> 0..MaxLives]
  /\ written \in [Files -> [Lives -> 0..MaxLines]]
  /\ child \in [Files -> [at : {"none", "read", "idle", "ok", "err"},
                          life : 0..MaxLives, pos : 0..MaxLines]]
  /\ ckpt \in [Files -> [life : 0..MaxLives, pos : 0..MaxLines]]
  /\ \A f \in Files : mem[f] \subseteq Line /\ queue[f] \subseteq Line
  /\ told \subseteq Running /\ retiring \subseteq told /\ paused \subseteq Running
  /\ stopping \in BOOLEAN /\ stored \subseteq Line
  /\ db \in {"up", "down"} /\ up \in BOOLEAN /\ ends \in 0..MaxEnds
  /\ read \subseteq Line /\ dropped \subseteq Line

Somewhere == stored \cup UNION {mem[f] \cup queue[f] : f \in Files}

\* ReadIsKept: a line that a child has read is in memory, in the queue's
\* directory or stored, through outages, vanishing files and the removal of a
\* departed container's state; only the end of the process or a failure of the
\* child takes it out of memory.
ReadIsKept == read \subseteq Somewhere \cup dropped

\* AllTailed: a file that stays is tailed to its end, although its name was
\* another file's before, its child was ending when it came back, or an
\* unreadable directory made it look gone for a while.
AllTailed ==
  (<>[](db = "up"))
    => \A f \in Files : \A i \in Lives :
         (<>[](present[f] = i)) => <>[](LinesOf(f, i, 0) \subseteq stored)
=============================================================================
