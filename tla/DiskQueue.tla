----------------------------- MODULE DiskQueue -----------------------------
(***************************************************************************)
(* The disk queue, crates/tributary/src/queue.rs, in its file-system       *)
(* steps: a segment is written to a .tmp file, renamed to NNN.lp and then  *)
(* counted in memory; a pop removes the file and then forgets it.  The     *)
(* process may be killed between any two of these steps, and open adopts   *)
(* whatever the directory then holds.                                      *)
(*                                                                         *)
(* A body is the set of its records and its length their number, as in     *)
(* QueueOps.  The disk has space for a write or it has not, write by       *)
(* write.  An I/O error other than ENOSPC ends the source: it is a Kill.   *)
(***************************************************************************)
EXTENDS Naturals, Sequences, FiniteSets, FiniteSetsExt

CONSTANTS
  MaxBytes,  \* queue_max_bytes, the soft cap
  Bodies,    \* the batches the callers may spool
  MaxSeq     \* bound: the largest sequence number a run may assign

DiskQueueAssumption ==
  MaxBytes \in Nat /\ MaxSeq \in Nat /\ \A b \in Bodies : IsFiniteSet(b)

VARIABLES
  lp,        \* on disk: sequence number -> body, the NNN.lp files
  tmp,       \* on disk: sequence numbers with an NNN.tmp file
  pc,        \* which step of a call comes next
  call,      \* the spool in progress: its body, and is it forced?
  segments,  \* Queue::segments, the deque of files in memory
  bytes,     \* Queue::bytes
  nextSeq,   \* Queue::next_seq
  full       \* Queue::full

disk == <<lp, tmp>>
mem  == <<segments, bytes, nextSeq, full>>
vars == <<disk, pc, call, mem>>

NoCall == [body |-> {}, forced |-> FALSE]

Without(f, k) == [n \in DOMAIN f \ {k} |-> f[n]]

With(f, k, v) == [n \in DOMAIN f \cup {k} |-> IF n = k THEN v ELSE f[n]]

\* The segment files in name order: twelve digits, so in number order.
InOrder(seqs) ==
  CHOOSE s \in [1..Cardinality(seqs) -> seqs] :
    \A i, j \in 1..Cardinality(seqs) : i < j => s[i] < s[j]

\* The records of the files, each with its file, are as many as the bytes the
\* scan of open adds up.
Records(files) == UNION {{n} \X files[n] : n \in DOMAIN files}

SizeOf(files) == Cardinality(Records(files))

Init ==
  /\ lp = [n \in {} |-> {}] /\ tmp = {}
  /\ pc = "down" /\ call = NoCall
  /\ segments = <<>> /\ bytes = 0 /\ nextSeq = 0 /\ full = FALSE

\* Queue::open: adopt the .lp files, sweep the .tmp files.
Open ==
  /\ pc = "down"
  /\ segments' = InOrder(DOMAIN lp)
  /\ bytes' = SizeOf(lp)
  /\ nextSeq' = IF DOMAIN lp = {} THEN 0 ELSE Max(DOMAIN lp) + 1
  /\ full' = FALSE
  /\ tmp' = {}
  /\ pc' = "ready"
  /\ UNCHANGED <<lp, call>>
-----------------------------------------------------------------------------
(* push and push_forced *)

\* push over the cap: refused, and reading pauses.
PushRefused ==
  /\ pc = "ready"
  /\ \E body \in Bodies : bytes + Cardinality(body) > MaxBytes
  /\ full' = TRUE
  /\ UNCHANGED <<disk, pc, call, segments, bytes, nextSeq>>

\* Mutant: the segment is written in place, under its final name.
SpoolWriteInPlace ==
  /\ pc = "ready" /\ nextSeq <= MaxSeq
  /\ \E body \in Bodies, forced \in BOOLEAN :
       /\ forced \/ bytes + Cardinality(body) <= MaxBytes
       /\ call' = [body |-> body, forced |-> forced]
  /\ lp' = With(lp, nextSeq, {})
  /\ pc' = "written"
  /\ UNCHANGED <<tmp, mem>>

\* push below the cap, or push_forced: spool creates and writes the .tmp file.
SpoolWrite ==
  /\ pc = "ready" /\ nextSeq <= MaxSeq
  /\ \E body \in Bodies, forced \in BOOLEAN :
       /\ forced \/ bytes + Cardinality(body) <= MaxBytes
       /\ call' = [body |-> body, forced |-> forced]
  /\ tmp' = tmp \cup {nextSeq}
  /\ pc' = "written"
  /\ UNCHANGED <<lp, mem>>

\* ENOSPC, from the write or from the rename: our own partial file is removed
\* and the caller keeps the bytes.
SpoolFails ==
  /\ pc = "written"
  /\ tmp' = tmp \ {nextSeq}
  /\ full' = TRUE
  /\ pc' = "ready" /\ call' = NoCall
  /\ UNCHANGED <<lp, segments, bytes, nextSeq>>

\* Mutant: a cut-short file is renamed all the same.
SpoolRenameTorn ==
  /\ pc = "written"
  /\ lp' = With(lp, nextSeq, {})
  /\ tmp' = tmp \ {nextSeq}
  /\ pc' = "renamed"
  /\ UNCHANGED <<call, mem>>

\* The rename: from here on the segment is real.
SpoolRename ==
  /\ pc = "written"
  /\ lp' = With(lp, nextSeq, call.body)
  /\ tmp' = tmp \ {nextSeq}
  /\ pc' = "renamed"
  /\ UNCHANGED <<call, mem>>

SpoolCount ==
  /\ pc = "renamed"
  /\ nextSeq' = nextSeq + 1
  /\ bytes' = bytes + Cardinality(call.body)
  /\ segments' = Append(segments, nextSeq)
  /\ full' = (full \/ call.forced)
  /\ pc' = "ready" /\ call' = NoCall
  /\ UNCHANGED disk
-----------------------------------------------------------------------------
(* pop of the front segment, once it shipped *)

PopRemove ==
  /\ pc = "ready" /\ segments # <<>> /\ Head(segments) \in DOMAIN lp
  /\ call' = [body |-> lp[Head(segments)], forced |-> FALSE]
  /\ lp' = Without(lp, Head(segments))
  /\ pc' = "removed"
  /\ UNCHANGED <<tmp, mem>>

\* bytes after the removal of the call's body: saturating_sub.
Left == IF Cardinality(call.body) <= bytes THEN bytes - Cardinality(call.body) ELSE 0

PopCount ==
  /\ pc = "removed"
  /\ segments' = Tail(segments)
  /\ bytes' = Left
  /\ full' = (full /\ Left * 2 > MaxBytes)
  /\ pc' = "ready" /\ call' = NoCall
  /\ UNCHANGED <<disk, nextSeq>>

\* The process ends, wherever it is.
Kill ==
  /\ pc # "down"
  /\ pc' = "down" /\ call' = NoCall
  /\ segments' = <<>> /\ bytes' = 0 /\ nextSeq' = 0 /\ full' = FALSE
  /\ UNCHANGED disk

Next == Open \/ PushRefused \/ SpoolWrite \/ SpoolFails \/ SpoolRename \/ SpoolCount
        \/ PopRemove \/ PopCount \/ Kill

Spec == Init /\ [][Next]_vars
-----------------------------------------------------------------------------
(* Correctness *)

\* Every variable has its type; every .lp file holds a body some call spooled,
\* whole: the rename publishes what write_segment wrote.
TypeOK ==
  /\ DOMAIN lp \subseteq 0..MaxSeq /\ \A n \in DOMAIN lp : lp[n] \in Bodies
  /\ tmp \subseteq 0..MaxSeq
  /\ pc \in {"down", "ready", "written", "renamed", "removed"}
  /\ segments \in Seq(0..MaxSeq) /\ bytes \in Nat /\ nextSeq \in 0..(MaxSeq + 1)
  /\ full \in BOOLEAN

(***************************************************************************)
(* Refinement.  A spool takes effect at the rename, a pop at the removal.  *)
(***************************************************************************)

Queued == [i \in 1..Cardinality(DOMAIN lp) |-> lp[InOrder(DOMAIN lp)[i]]]

AbsFull ==
  CASE pc = "renamed" -> full \/ call.forced
    [] pc = "removed" -> full /\ Left * 2 > MaxBytes
    [] OTHER -> full

Abs == INSTANCE AtomicQueue WITH q <- [segs |-> Queued, bytes |-> SizeOf(lp), full |-> AbsFull]

\* Every step of the files and the counters is a step of the atomic queue, or
\* none: no crash loses, tears, duplicates or reorders a queued segment.
ImplementsAtomicQueue == Abs!Spec
=============================================================================
