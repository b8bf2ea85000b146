------------------------------- MODULE MCFiles -------------------------------
(***************************************************************************)
(* The two parts of the agent that hang on the order of file-system calls, *)
(* checked side by side: the tailer and the disk queue.  They share no     *)
(* state (Pipeline.tla is what joins them), so what holds of each alone    *)
(* holds of both together; one of them, chosen at the start, takes the     *)
(* steps of a behaviour.                                                   *)
(***************************************************************************)
EXTENDS QueueOps

CONSTANTS
  (* Tailer *)    MaxFiles, NLines, MaxRestarts, MaxTruncates,
  (* DiskQueue *) Bodies, MaxSeq

VARIABLES
  part,
  (* Tailer *)    lines, half, live, siblings, writer, created, written, truncates, pc,
                  draining, current, read, marks, covered, lost, restarts,
  (* DiskQueue *) lp, tmp, step, call, segments, bytes, nextSeq, full

\* The writer and the rotation tool as the tailer expects them.
T == INSTANCE Tailer WITH
       LateWrites <- FALSE, DownAnyTime <- FALSE, FastRotation <- FALSE

Q == INSTANCE DiskQueue WITH pc <- step

ASSUME FilesAssumption == T!TailerAssumption /\ Q!DiskQueueAssumption

tailer == <<lines, half, live, siblings, writer, created, written, truncates, pc, draining,
            current, read, marks, covered, lost, restarts>>
queue  == <<lp, tmp, step, call, segments, bytes, nextSeq, full>>
vars   == <<part, tailer, queue>>

TailerStep(A) == part = "tailer" /\ A /\ UNCHANGED <<part, queue>>
QueueStep(A)  == part = "queue"  /\ A /\ UNCHANGED <<part, tailer>>

\* Both start in their only initial state.
Init == part \in {"tailer", "queue"} /\ T!Init /\ Q!Init

Next == TailerStep(T!Next) \/ QueueStep(Q!Next)

\* The fairness of the tailer, which the loop calls on every pass.
Fairness == WF_vars(TailerStep(T!Resume)) /\ WF_vars(TailerStep(T!NextLine))

Spec == Init /\ [][Next]_vars /\ Fairness
-----------------------------------------------------------------------------
\* TypeOK: every variable of the two parts keeps its type, no file is open
\* twice and no segment is torn (tail.rs, queue.rs).
TypeOK == T!TypeOK /\ Q!TypeOK

\* NothingLeftBehind: no complete line is skipped in silence (tail.rs).
NothingLeftBehind == T!NothingLeftBehind

\* InOrder: lines are returned in the order they were written (tail.rs).
InOrder == T!InOrder

\* AllRead: every complete line is eventually read or counted (tail.rs).
AllRead == T!AllRead

\* ImplementsAtomicQueue: the files and counters implement the atomic queue
\* that Pipeline uses (queue.rs).
ImplementsAtomicQueue == Q!ImplementsAtomicQueue
=============================================================================
