------------------------------- MODULE LogFile -------------------------------
(***************************************************************************)
(* logfile.rs: the rotating file of the agent's own log.  A line is        *)
(* written, with the rotation and the pruning before it when they are due, *)
(* under one mutex; the rename and the open of a rotation may each fail,   *)
(* and the agent may be restarted at any time.                             *)
(*                                                                         *)
(* Abstractions.  A line is its number, a file the numbers of its lines    *)
(* and its size.  A rotated file is named by the second it was rotated in  *)
(* and a counter; names sort as strings, which for a one-digit counter is  *)
(* by second, then counter.  The clock does not go back.                   *)
(***************************************************************************)
EXTENDS Naturals, FiniteSets, FiniteSetsExt

CONSTANTS
  Limit,       \* rotate_size
  Every,       \* rotate_every, in seconds
  Keeps,       \* what keep may be; MaxLog, more than there can be, stands for None
  Lengths,     \* lengths of a line
  MaxLog,      \* lines ever logged (bound)
  MaxSecond,   \* seconds that pass (bound)
  MaxStarts    \* restarts (bound)

LogFileAssumption ==
  /\ Limit \in Nat /\ Every \in Nat \ {0} /\ Keeps \subseteq 0..MaxLog
  /\ MaxLog \in 0..9 /\ MaxSecond \in Nat /\ MaxStarts \in Nat
  /\ Lengths \subseteq Nat \ {0}

VARIABLES
  keep,
  live,     \* the file at the configured path
  rotated,  \* the rotated files, by name
  held,     \* the rotated file the descriptor was left on; NoName is the live one
  written, opened, now,
  lines, starts,
  pruned,   \* history: lines in files that prune has deleted
  named,    \* history: names that rotated files have had
  reused,   \* history: one of them was given twice
  excused   \* history: a rotation of the live file was due and failed

history == <<pruned, named, reused, excused>>
logfile == <<keep, live, rotated, held, written, opened, now, lines, starts, history>>

Names == (0..MaxSecond) \X (0..MaxLog)
NoName == <<MaxSecond + 1, 0>>
Empty == [ids |-> {}, size |-> 0]
Plus(f, len) == [ids |-> f.ids \cup {lines + 1}, size |-> f.size + len]
Put(fs, name, f) == [x \in DOMAIN fs \cup {name} |-> IF x = name THEN f ELSE fs[x]]
Lines(fs) == UNION {fs[x].ids : x \in DOMAIN fs}
-----------------------------------------------------------------------------
Init ==
  /\ keep \in Keeps
  /\ live = Empty /\ rotated = [x \in {} |-> Empty] /\ held = NoName
  /\ written = 0 /\ opened = 0 /\ now = 0 /\ lines = 0 /\ starts = 0
  /\ pruned = {} /\ named = {} /\ reused = FALSE /\ excused = FALSE

\* should_rotate
Due(len) == written > 0 /\ (written + len > Limit \/ now - opened >= Every)

\* Mutant: a rotated file is named by the second alone.
Stamp == <<now, 0>>

\* The first of agent.log.<second>, agent.log.<second>.1, ... that is not there.
Target == <<now, Min({n \in 0..MaxLog : <<now, n>> \notin DOMAIN rotated})>>

Sorted(a, b) == a[1] < b[1] \/ (a[1] = b[1] /\ a[2] < b[2])

\* prune: those with keep names or more after them go.
Excess(names) == {x \in names : Cardinality({y \in names : Sorted(x, y)}) >= keep}

\* write_line, when no rotation is due or flush or rename failed.  When the path
\* has nothing behind it rename always fails.
WriteLine(len) ==
  /\ lines < MaxLog /\ lines' = lines + 1
  /\ IF held = NoName
       THEN live' = Plus(live, len) /\ UNCHANGED rotated
       ELSE rotated' = Put(rotated, held, Plus(rotated[held], len)) /\ UNCHANGED live
  /\ written' = written + len
  /\ excused' = (excused \/ Due(len))
  /\ UNCHANGED <<keep, held, opened, now, starts, pruned, named, reused>>

\* rotate, prune, and the line in the new file.
RotateThenWrite(len) ==
  /\ lines < MaxLog /\ lines' = lines + 1
  /\ held = NoName /\ Due(len)
  /\ LET files == Put(rotated, Target, live)
         gone == Excess(DOMAIN files)
     IN
     /\ rotated' = [x \in DOMAIN files \ gone |-> files[x]]
     /\ pruned' = pruned \cup UNION {files[x].ids : x \in gone}
  /\ live' = Plus(Empty, len)
  /\ written' = len /\ opened' = now
  /\ named' = named \cup {Target} /\ reused' = (reused \/ Target \in named)
  /\ excused' = FALSE
  /\ UNCHANGED <<keep, held, now, starts>>

\* The file was renamed and no new one could be opened: the line, and all that
\* follow, go to the renamed file.
RotateHalf(len) ==
  /\ lines < MaxLog /\ lines' = lines + 1
  /\ held = NoName /\ Due(len)
  /\ rotated' = Put(rotated, Target, Plus(live, len)) /\ held' = Target
  /\ live' = Empty
  /\ written' = written + len
  /\ named' = named \cup {Target} /\ reused' = (reused \/ Target \in named)
  /\ excused' = FALSE
  /\ UNCHANGED <<keep, opened, now, starts, pruned>>

\* The agent is started again: RotatingLog::open.
Open ==
  /\ starts < MaxStarts /\ starts' = starts + 1
  /\ held' = NoName /\ written' = live.size /\ opened' = now
  /\ UNCHANGED <<keep, live, rotated, now, lines, history>>

Tick ==
  /\ now < MaxSecond /\ now' = now + 1
  /\ UNCHANGED <<keep, live, rotated, held, written, opened, lines, starts, history>>

Next ==
  \/ Open \/ Tick
  \/ \E len \in Lengths : WriteLine(len) \/ RotateThenWrite(len) \/ RotateHalf(len)

Spec == Init /\ [][Next]_logfile
-----------------------------------------------------------------------------
TypeOK ==
  /\ keep \in Keeps
  /\ DOMAIN rotated \subseteq Names /\ held \in DOMAIN rotated \cup {NoName}
  /\ \A f \in {live} \cup {rotated[x] : x \in DOMAIN rotated} :
       f.ids \subseteq 1..MaxLog /\ f.size \in Nat
  /\ written \in Nat /\ opened \in 0..MaxSecond /\ now \in 0..MaxSecond
  /\ lines \in 0..MaxLog /\ starts \in 0..MaxStarts
  /\ pruned \subseteq 1..MaxLog /\ named \subseteq Names
  /\ reused \in BOOLEAN /\ excused \in BOOLEAN

\* OldestGo: only prune makes a line go away (a rotated file is never renamed
\* over, however many fall into a second), and what it deletes is older than what is
\* left; except that a name which pruning freed may be given again in the same
\* second and then sorts before files that are older.
OldestGo ==
  /\ 1..lines = live.ids \cup Lines(rotated) \cup pruned
  /\ reused \/ \A i \in pruned : \A j \in live.ids \cup Lines(rotated) : i < j

\* SizeBounded: a log file of more than one line is within rotate_size, over
\* restarts too; unless its rotation failed.
SizeBounded ==
  live.size <= Limit \/ Cardinality(live.ids) <= 1 \/ excused

\* LogSound: rotation bounds the file and loses nothing but the oldest.
LogSound == OldestGo /\ SizeBounded
=============================================================================
