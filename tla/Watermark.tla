------------------------------ MODULE Watermark ------------------------------
(***************************************************************************)
(* The completeness claim of a source: the estimator (watermark.rs), where *)
(* the tail loop feeds it (build, flush, write_watermark of main.rs) and   *)
(* what becomes of the batches it makes claims about.                      *)
(*                                                                         *)
(* Abstractions.  A line is its number; its source time is drawn when it   *)
(* is read.  The window, the samples that make an estimate trusted and the *)
(* quantile are parameters here, 4096, 256 and 999/1000 in the code.  What *)
(* a batch that failed goes through is Pipeline.tla; here it is queued     *)
(* until it is shipped.                                                    *)
(***************************************************************************)
EXTENDS Integers, Sequences, FiniteSets, SequencesExt, FiniteSetsExt

CONSTANTS
  Times,           \* source times
  Floor, Ceiling,  \* watermark_floor_ms, watermark_ceiling_ms
  Window,          \* WINDOW
  MinSamples,      \* MIN_SAMPLES
  Num, Den,        \* QUANTILE is Num / Den
  NLines,          \* lines read by a process (bound)
  MaxStarts        \* restarts (bound)

WatermarkAssumption ==
  /\ Times \subseteq Nat /\ Floor \in Nat /\ Ceiling \in Nat /\ Floor <= Ceiling
  /\ Window \in Nat \ {0} /\ MinSamples \in 1..Window /\ Num \in 0..Den /\ Den \in Nat \ {0}
  /\ NLines \in Nat /\ MaxStarts \in Nat

VARIABLES
  ts,         \* source times of the lines this process has observed
  batch,      \* lines of the batch being built
  inflight,   \* lines spawned and not landed, with those in the queue
  stored,     \* lines durable in the database
  samples,    \* Watermark::samples
  max,        \* max_ts_seen; -1 is none
  lateness,   \* lateness_ns
  published,  \* published_ns; None is i64::MIN
  counted,    \* history: lines counted in violations
  saved,      \* on disk: the checkpoint's lateness_ns
  row,        \* in the database: the last claim written; None is none
  starts

lines     == <<ts, batch, inflight, stored>>
watermark == <<samples, max, lateness, published, counted>>
claim     == <<lines, watermark, saved, row, starts>>

None == -1000
\* Mutant: watermark_ceiling_ms is not applied.
ClampAtFloor(x) == IF x < Floor THEN Floor ELSE x
Clamp(x) == IF x < Floor THEN Floor ELSE IF x > Ceiling THEN Ceiling ELSE x
-----------------------------------------------------------------------------
\* Watermark::new, with restore when the checkpoint has an estimate.
Resumed(l) == IF l = None THEN Ceiling ELSE Clamp(l)

Init ==
  /\ ts = <<>> /\ batch = {} /\ inflight = {} /\ stored = {}
  /\ samples = <<>> /\ max = -1 /\ lateness = Ceiling /\ published = None /\ counted = {}
  /\ saved = None /\ row = None /\ starts = 0

\* Mutant: the allowance is granted to the claim twice.
LateTwice(t) == published # None /\ t < published - lateness

\* observe's last check.
Violates(t) == published # None /\ t < published

\* build for a line that the filters keep: observe.  Lines that are dropped are
\* never observed, and are left out.
Read(t) ==
  /\ Len(ts) < NLines /\ ts' = Append(ts, t)
  /\ batch' = batch \cup {Len(ts')}
  /\ samples' = IF max = -1 THEN samples
                ELSE Append(IF Len(samples) = Window THEN Tail(samples) ELSE samples,
                            IF t < max THEN max - t ELSE 0)
  /\ max' = IF t > max THEN t ELSE max
  /\ counted' = counted \cup (IF Violates(t) THEN {Len(ts')} ELSE {})
  /\ UNCHANGED <<inflight, stored, lateness, published, saved, row, starts>>

\* round((n - 1) * quantile), counted from 0
Rank(n) == (2 * (n - 1) * Num + Den) \div (2 * Den)

\* sort_unstable: p is the order it puts the elements of s in.
Sorts(s, p) ==
  /\ \A u \in DOMAIN s : \E i \in DOMAIN s : p[i] = u
  /\ \A i, j \in DOMAIN s : i < j => s[p[i]] <= s[p[j]]

Sorted(s) ==
  LET p == CHOOSE p \in [DOMAIN s -> DOMAIN s] : Sorts(s, p) IN [i \in DOMAIN s |-> s[p[i]]]

\* estimate
Estimate ==
  IF Len(samples) < MinSamples THEN Ceiling
  ELSE Clamp(Sorted(samples)[Rank(Len(samples)) + 1])

\* flush: the batch is spawned, and the claim advances past it.
Flush ==
  /\ batch # {} /\ batch' = {} /\ inflight' = inflight \cup batch
  /\ lateness' = Estimate
  /\ LET candidate == Max({ts[i] : i \in batch}) - lateness' IN
       published' = IF published = None \/ candidate > published THEN candidate ELSE published
  /\ UNCHANGED <<ts, stored, samples, max, counted, saved, row, starts>>

\* A batch, or what of it the queue had to take, comes to the database.
Land ==
  \E some \in SUBSET inflight \ {{}} :
    /\ inflight' = inflight \ some /\ stored' = stored \cup some
    /\ UNCHANGED <<ts, batch, watermark, saved, row, starts>>

\* save_checkpoint, of which the model keeps the estimate.
Checkpoint ==
  /\ saved # lateness /\ saved' = lateness
  /\ UNCHANGED <<lines, watermark, row, starts>>

\* write_watermark; when the send fails the claim is not made.
Publish ==
  /\ published # None /\ row # published /\ row' = published
  /\ UNCHANGED <<lines, watermark, saved, starts>>

\* The source ends, and is started again where its checkpoint says.
Restart ==
  /\ starts < MaxStarts /\ starts' = starts + 1
  /\ ts' = <<>> /\ batch' = {} /\ inflight' = {} /\ stored' = {}
  /\ samples' = <<>> /\ max' = -1 /\ published' = None /\ counted' = {}
  /\ lateness' = Resumed(saved)
  /\ UNCHANGED <<saved, row>>

Next == (\E t \in Times : Read(t)) \/ Flush \/ Land \/ Checkpoint \/ Publish \/ Restart

Spec == Init /\ [][Next]_claim
-----------------------------------------------------------------------------
TypeOK ==
  /\ ts \in Seq(Times) /\ Len(ts) <= NLines
  /\ batch \subseteq DOMAIN ts /\ inflight \subseteq DOMAIN ts /\ stored \subseteq DOMAIN ts
  /\ samples \in Seq(Nat) /\ Len(samples) <= Window
  /\ max \in Times \cup {-1} /\ lateness \in Floor..Ceiling
  /\ published \in Int /\ saved \in Int /\ row \in Int
  /\ counted \subseteq DOMAIN ts /\ starts \in 0..MaxStarts

\* ClaimedOrCounted: a line this process has read below its published watermark
\* is in the database or on its way there, or it is counted as a violation: the
\* claim never covers a line that has not left the batch and hides nothing
\* that came late.
ClaimedOrCounted ==
  \A i \in DOMAIN ts : published # None /\ ts[i] < published => i \in inflight \cup stored \cup counted

\* AllowanceCovers: an allowance below the ceiling that was drawn from the window
\* leaves no more than the share above the quantile of the window later than
\* it; whatever the samples were, in whatever order they came.
AllowanceCovers ==
  Estimate < Ceiling =>
    2 * Den * Cardinality({i \in DOMAIN samples : samples[i] > Estimate})
      <= 2 * (Den - Num) * (Len(samples) - 1) + Den

\* ClaimSound: the claim is no more than what was handed on, and its allowance
\* no less than what the stream showed.
ClaimSound == ClaimedOrCounted /\ AllowanceCovers
=============================================================================
