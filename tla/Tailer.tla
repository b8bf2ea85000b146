------------------------------- MODULE Tailer -------------------------------
(***************************************************************************)
(* Following one log file through rotation, crates/tributary/src/tail.rs:  *)
(* Tailer::resume, next_line, drain_pending, check_rotation and marks,     *)
(* against a writer, a rotation tool and restarts of the agent.            *)
(*                                                                         *)
(* A file is an inode: a sequence of line numbers, and perhaps the first   *)
(* half of a line its writer has not finished.  Lines are numbered in the  *)
(* order they are written, over all files.  Offsets and lengths count      *)
(* lines, a half line being one more unit of length: the code only         *)
(* compares an offset with a length, reads whole lines, and clamps.        *)
(*                                                                         *)
(* next_line is modelled in its system calls, so that a rotation may fall  *)
(* between any two of them.  resume is one step.  A new file gets a new    *)
(* inode number: reuse of a number is outside the model.                   *)
(***************************************************************************)
EXTENDS Naturals, Sequences, FiniteSets, SequencesExt

CONSTANTS
  MaxFiles,      \* bound: the inodes 1..MaxFiles the writer may create
  NLines,        \* bound: lines written
  MaxRestarts,   \* bound: kills of the agent
  MaxTruncates,  \* bound: copy-and-truncate rotations
  LateWrites,    \* may the writer keep a file open once its successor exists?
  DownAnyTime,   \* may the agent be down while a rotation is under way, or only
                 \* while a writer that closes its file first rotates?
  FastRotation   \* may a file be rotated away before the agent has seen and
                 \* recorded the rotation before?

TailerAssumption ==
  /\ {MaxFiles, NLines, MaxRestarts, MaxTruncates} \subseteq Nat
  /\ {LateWrites, DownAnyTime, FastRotation} \subseteq BOOLEAN

VARIABLES
  lines,      \* inode -> the complete lines it holds
  half,       \* the inode that ends in half a line, or 0
  live,       \* the inode at the configured path, or 0
  siblings,   \* inodes under a sibling name: app.log.1, app.log.2, ...
  writer,     \* the inode the writer has open, or 0
  created,    \* inodes created so far
  written,    \* lines completed so far
  truncates,  \* truncations so far
  pc,         \* the step of next_line that comes next, or "down"
  draining,   \* Tailer::draining
  current,    \* Tailer::current
  read,       \* the lines returned by next_line in this life
  marks,      \* the checkpoint's file marks
  covered,    \* lines that were read before the checkpoint was saved
  lost,       \* lines in files that resume counted in files_lost
  restarts    \* kills so far

files    == <<lines, half, live, siblings, writer, created, written, truncates>>
handles  == <<draining, current>>
recorded == <<marks, covered>>
vars == <<files, pc, handles, read, recorded, lost, restarts>>

NoFile == [ino |-> 0, off |-> 0]

Size(ino) == Len(lines[ino]) + (IF half = ino THEN 1 ELSE 0)

Inos(hs) == {hs[i].ino : i \in DOMAIN hs}

Init ==
  /\ lines = [ino \in 1..MaxFiles |-> <<>>] /\ half = 0
  /\ live = 0 /\ siblings = {} /\ writer = 0
  /\ created = 0 /\ written = 0 /\ truncates = 0
  /\ pc = "down" /\ draining = <<>> /\ current = NoFile /\ read = <<>>
  /\ marks = <<>> /\ covered = {} /\ lost = {} /\ restarts = 0

-----------------------------------------------------------------------------
(* The writer and the rotation tool.                                       *)

\* A truncated file does not grow back to the tailer's offset unseen.
Noticeable(len) ==
  current.ino = writer /\ Size(writer) < current.off => len < current.off

WriteHalf ==
  /\ writer # 0 /\ half = 0 /\ written < NLines
  /\ Noticeable(Size(writer) + 1)
  /\ half' = writer
  /\ UNCHANGED <<lines, live, siblings, writer, created, written, truncates>>

WriteRest ==
  /\ half # 0
  /\ half' = 0
  /\ written' = written + 1
  /\ lines' = [lines EXCEPT ![half] = Append(@, written + 1)]
  /\ UNCHANGED <<live, siblings, writer, created, truncates>>

Rename ==
  /\ live # 0 /\ created < MaxFiles
  /\ pc # "down" \/ writer = 0 \/ DownAnyTime
  /\ \/ /\ live \in Inos(marks)
        /\ pc = "down" \/ (current.ino = live /\ current.off <= Size(live))
     \/ FastRotation /\ marks # <<>>
  /\ siblings' = siblings \cup {live}
  /\ live' = 0
  /\ UNCHANGED <<lines, half, writer, created, written, truncates>>

Create ==
  /\ live = 0 /\ created < MaxFiles
  /\ writer = 0 \/ LateWrites
  /\ created' = created + 1
  /\ live' = created + 1
  /\ UNCHANGED <<lines, half, siblings, writer, written, truncates>>

\* The writer never leaves a line in two files.
Close ==
  /\ writer # 0 /\ half = 0
  /\ writer' = 0
  /\ UNCHANGED <<lines, half, live, siblings, created, written, truncates>>

Reopen ==
  /\ writer = 0 /\ live # 0
  /\ writer' = live
  /\ UNCHANGED <<lines, half, live, siblings, created, written, truncates>>

\* Lines cut before they are read and safe are only in the copy: a tool that
\* truncates ahead of the agent loses them whatever the agent does.
Truncate ==
  /\ truncates < MaxTruncates
  /\ pc # "down" \/ DownAnyTime
  /\ live # 0 /\ writer = live /\ half = 0 /\ lines[live] # <<>>
  /\ Range(lines[live]) \subseteq covered
  /\ lines' = [lines EXCEPT ![live] = <<>>]
  /\ truncates' = truncates + 1
  /\ UNCHANGED <<half, live, siblings, writer, created, written>>

Delete ==
  /\ \E ino \in siblings \ {writer} : siblings' = siblings \ {ino}
  /\ UNCHANGED <<lines, half, live, writer, created, written, truncates>>

World ==
  /\ WriteHalf \/ WriteRest \/ Rename \/ Create \/ Close \/ Reopen
       \/ Truncate \/ Delete
  /\ UNCHANGED <<pc, handles, read, recorded, lost, restarts>>

-----------------------------------------------------------------------------
(* Tailer::resume.                                                         *)

\* find_inode over sibling_paths.
Found(m) == m.ino = live \/ m.ino \in siblings

\* Open::at, which clamps the offset to the file's length.
At(ino, off) == [ino |-> ino, off |-> IF off > Size(ino) THEN Size(ino) ELSE off]

\* What follows a mark in its file: what is lost when the file is gone.
After(m) == {lines[m.ino][k] : k \in (m.off + 1)..Len(lines[m.ino])}

\* The elements of a sequence at some of its positions, in order.
Picked(hs, at) ==
  LET pos == CHOOSE p \in [1..Cardinality(at) -> at] :
               \A i, j \in 1..Cardinality(at) : i < j => p[i] < p[j]
  IN  [i \in 1..Cardinality(at) |-> hs[pos[i]]]

\* The live file is continued where a mark on it says, the first if there are several.
Resume ==
  /\ pc = "down"
  /\ LET opened == [i \in DOMAIN marks |-> At(marks[i].ino, marks[i].off)]
         found  == {i \in DOMAIN marks : Found(marks[i])}
         known  == {i \in found : marks[i].ino = live}
         others == IF known = {} THEN found ELSE found \ {Min(known)}
     IN  /\ draining' = Picked(opened, others)
         /\ current' = IF live = 0 THEN NoFile
                       ELSE IF known = {} THEN At(live, 0) ELSE opened[Min(known)]
  /\ lost' = lost \cup UNION {After(m) : m \in {x \in Range(marks) : ~Found(x)}}
  /\ pc' = "drain"
  /\ UNCHANGED <<files, read, recorded, restarts>>

-----------------------------------------------------------------------------
(* Tailer::next_line.                                                      *)

\* Open::next_line has a complete line at the offset.
HasLine(h) == h.ino # 0 /\ h.off < Len(lines[h.ino])

Advanced(h) == [h EXCEPT !.off = @ + 1]

Returns(h) == read' = Append(read, lines[h.ino][h.off + 1])

\* drain_pending, called before and again after check_rotation.
DrainLine ==
  /\ pc \in {"drain", "drain_again"}
  /\ draining # <<>> /\ HasLine(Head(draining))
  /\ Returns(Head(draining))
  /\ draining' = <<Advanced(Head(draining))>> \o Tail(draining)
  /\ pc' = "drain"
  /\ UNCHANGED current

\* No complete line is left: the file is done with, half a line included.
DrainDrop ==
  /\ pc \in {"drain", "drain_again"}
  /\ draining # <<>> /\ ~HasLine(Head(draining))
  /\ draining' = Tail(draining)
  /\ UNCHANGED <<pc, current, read>>

DrainEnd ==
  /\ pc \in {"drain", "drain_again"} /\ draining = <<>>
  /\ pc' = IF pc = "drain" THEN "rotation" ELSE "live"
  /\ UNCHANGED <<handles, read>>

\* check_rotation: still the same file, or renamed and not yet recreated.
Unrotated ==
  /\ pc = "rotation" /\ current # NoFile
  /\ current.off <= Size(current.ino) /\ live \in {0, current.ino}
  /\ pc' = "drain_again"
  /\ UNCHANGED <<handles, read>>

Truncated ==
  /\ pc = "rotation" /\ current # NoFile
  /\ current.off > Size(current.ino)
  /\ current' = NoFile
  /\ pc' = "open"
  /\ UNCHANGED <<draining, read>>

\* Mutant: the old file is dropped instead of drained.
RotatedDropped ==
  /\ pc = "rotation" /\ current # NoFile
  /\ current.off <= Size(current.ino) /\ live \notin {0, current.ino}
  /\ current' = NoFile
  /\ pc' = "open"
  /\ UNCHANGED <<draining, read>>

\* Another inode sits at the path: the old file is drained first.
Rotated ==
  /\ pc = "rotation" /\ current # NoFile
  /\ current.off <= Size(current.ino) /\ live \notin {0, current.ino}
  /\ draining' = IF current.off < Size(current.ino)
                 THEN Append(draining, current) ELSE draining
  /\ current' = NoFile
  /\ pc' = "open"
  /\ UNCHANGED read

\* Mutant: a path that was missing once is never looked at again.
OpenLiveOnce ==
  /\ pc = "open" \/ (pc = "rotation" /\ current = NoFile)
  /\ current' = IF live = 0 \/ pc = "rotation" THEN NoFile ELSE At(live, 0)
  /\ pc' = "drain_again"
  /\ UNCHANGED <<draining, read>>

\* Mutant: the new file is read without draining again.
OpenLiveFirst ==
  /\ pc = "open" \/ (pc = "rotation" /\ current = NoFile)
  /\ current' = IF live = 0 THEN NoFile ELSE At(live, 0)
  /\ pc' = "live"
  /\ UNCHANGED <<draining, read>>

\* Open::at(path, 0).ok(): whatever is at the path by now, if anything.
OpenLive ==
  /\ pc = "open" \/ (pc = "rotation" /\ current = NoFile)
  /\ current' = IF live = 0 THEN NoFile ELSE At(live, 0)
  /\ pc' = "drain_again"
  /\ UNCHANGED <<draining, read>>

LiveLine ==
  /\ pc = "live" /\ HasLine(current)
  /\ Returns(current)
  /\ current' = Advanced(current)
  /\ pc' = "drain"
  /\ UNCHANGED draining

\* Nothing available right now: the loop sleeps and calls again.
LiveNone ==
  /\ pc = "live" /\ ~HasLine(current)
  /\ pc' = "drain"
  /\ UNCHANGED <<handles, read>>

NextLine ==
  /\ DrainLine \/ DrainDrop \/ DrainEnd \/ Unrotated \/ Truncated \/ Rotated
       \/ OpenLive \/ LiveLine \/ LiveNone
  /\ UNCHANGED <<files, recorded, lost, restarts>>

\* save_checkpoint, between two calls of next_line: Tailer::marks.  That the
\* lines read by then are safe is Pipeline's CheckpointCovered.
Save ==
  /\ pc = "drain"
  /\ marks' = draining \o (IF current = NoFile THEN <<>> ELSE <<current>>)
  /\ covered' = covered \cup Range(read)
  /\ UNCHANGED <<files, pc, handles, read, lost, restarts>>

\* No rotation is under way: no truncation the checkpoint does not know of, and
\* no writer on a file that has left the path.
Quiet ==
  /\ \A m \in Range(marks) : \A k \in 1..m.off :
       k \in DOMAIN lines[m.ino] /\ lines[m.ino][k] \in covered
  /\ writer \in {0, live}

Kill ==
  /\ pc # "down" /\ restarts < MaxRestarts
  /\ Quiet \/ DownAnyTime
  /\ restarts' = restarts + 1
  /\ pc' = "down" /\ draining' = <<>> /\ current' = NoFile /\ read' = <<>>
  /\ UNCHANGED <<files, recorded, lost>>

Next == World \/ Resume \/ NextLine \/ Save \/ Kill

Spec == Init /\ [][Next]_vars

-----------------------------------------------------------------------------
\* The variables have their types, and no file is open twice: two handles on
\* one inode would return its lines twice.
TypeOK ==
  /\ DOMAIN lines = 1..MaxFiles
  /\ \A ino \in 1..MaxFiles : Range(lines[ino]) \subseteq 1..written
  /\ {half, live, writer} \subseteq 0..MaxFiles
  /\ siblings \subseteq 1..MaxFiles
  /\ created \in 0..MaxFiles /\ written \in 0..NLines
  /\ pc \in {"down", "drain", "rotation", "open", "drain_again", "live"}
  /\ IsInjective([i \in DOMAIN draining |-> draining[i].ino])
  /\ Inos(draining) \subseteq (1..MaxFiles) \ {current.ino}
  /\ Range(read) \cup covered \cup lost \subseteq 1..written

\* The lines the agent has read, less those it forgot when it was killed.
Seen == covered \cup Range(read)

\* The handle will return line n, if the agent is not killed.  An offset past
\* the end is a truncation check_rotation has still to find.
Reaches(h, n) ==
  /\ h.ino # 0
  /\ \E k \in DOMAIN lines[h.ino] :
       lines[h.ino][k] = n /\ (k > h.off \/ h.off > Size(h.ino))

\* Line n is in front of the agent: in a file it has open or will open, or,
\* while it is down, behind a mark resume will find or will count as lost.
Ahead(n) ==
  IF pc = "down"
  THEN \/ \E m \in Range(marks) : n \in After(At(m.ino, m.off))
       \/ live # 0 /\ live \notin Inos(marks) /\ n \in Range(lines[live])
  ELSE \/ \E h \in Range(draining) \cup {current} : Reaches(h, n)
       \/ live \notin {0, current.ino} \cup Inos(draining)
            /\ n \in Range(lines[live])

\* Every complete line in the log has been read, is still in front of the
\* agent, or was in a file that resume counted as lost: rotation and restarts,
\* whichever system calls of next_line they fall between, skip nothing in
\* silence (tail.rs: "so nothing is left behind").
NothingLeftBehind == \A n \in 1..written : n \in Seen \cup lost \/ Ahead(n)

\* next_line returns the lines of one life in the order they were written and
\* none twice, across rotations: the old file's tail before the new file's
\* first line.  The stamper's sequence numbers rest on it.
InOrder == \A i, j \in DOMAIN read : i < j => read[i] < read[j]

FairSpec == Spec /\ WF_vars(Resume) /\ WF_vars(NextLine)

\* Every complete line is eventually read or counted in a lost file: no
\* sequence of rotations leaves the tailer waiting on a file that has ended.
AllRead == \A n \in 1..NLines : n <= written ~> n \in Seen \cup lost
=============================================================================
