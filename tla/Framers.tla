------------------------------- MODULE Framers -------------------------------
(***************************************************************************)
(* The three framers behind main.rs's enum Framer: the multiline joiner    *)
(* (multiline.rs) and the docker and CRI reassemblers (docker.rs, cri.rs). *)
(* Each is offered the lines of a file in order and releases records; the  *)
(* tail loop may at any time ask for what has timed out, and drains the    *)
(* framer when it ends.                                                    *)
(*                                                                         *)
(* Abstractions.  A line is its number; Marks has what the framer looks at *)
(* of it, drawn when it is offered.  A record is the sequence of its lines *)
(* (the time of the first is the record's).  A timeout may have passed     *)
(* whenever the loop asks.                                                 *)
(***************************************************************************)
EXTENDS Naturals, Sequences, FiniteSets, SequencesExt

CONSTANTS
  MaxLines, MaxBytes,  \* the caps; MaxLines is the joiner's only
  Lengths,             \* lengths of a line
  NLines               \* lines offered (bound)

FramersAssumption ==
  MaxLines \in Nat \ {0} /\ MaxBytes \in Nat \ {0} /\ NLines \in Nat /\ Lengths \subseteq Nat

Streams == {"out", "err"}

\* A line as the framers see it: one that does not parse, or a line of a stream
\* that starts a record (multiline) or closes a message (docker's newline, CRI's F).
Marks == [stream : Streams, edge : BOOLEAN, len : Lengths, valid : BOOLEAN]

VARIABLES
  kind,     \* "multiline", "docker", "cri" or "none": joining disabled
  offered,  \* the lines offered so far
  held,     \* buf, streams: the lines held for a stream
  records,  \* the records released
  refused   \* lines push returned an error for

framer == <<kind, offered, held, records, refused>>

\* What a line is buffered under: the joiner knows no streams.
Key(m) == IF kind \in {"docker", "cri"} THEN m.stream ELSE "out"

\* Bytes a framer of kind k counts for the lines s of file f: the joiner adds the
\* newline that joins them.
Bytes(k, f, s) ==
  FoldFunction(LAMBDA a, b : a + b, IF k = "multiline" THEN Len(s) ELSE 0,
               [j \in DOMAIN s |-> f[s[j]].len])

\* Is s at a cap?
Over(k, f, s) == (k = "multiline" /\ Len(s) >= MaxLines) \/ Bytes(k, f, s) >= MaxBytes
-----------------------------------------------------------------------------
Init ==
  /\ kind \in {"multiline", "docker", "cri", "none"}
  /\ offered = <<>> /\ held = [s \in Streams |-> <<>>]
  /\ records = <<>> /\ refused = {}

Release(s) == records' = Append(records, s)

\* Joiner::push with joining disabled.
PushThrough(i) == Release(<<i>>) /\ UNCHANGED <<held, refused>>

\* Mutant: a line that is too long by itself is lost when it also ends a record.
JoinOne(i, m) ==
  LET open == held["out"]
      next == IF m.edge THEN <<i>> ELSE Append(open, i)
      done == m.edge /\ open # <<>>
  IN
  /\ IF done \/ Over(kind, offered', next) THEN Release(IF done THEN open ELSE next) ELSE UNCHANGED records
  /\ held' = [held EXCEPT !["out"] = IF Over(kind, offered', next) THEN <<>> ELSE next]
  /\ UNCHANGED refused

\* Joiner::push.  A start line closes the record before it.  When the line that
\* did so is over a cap by itself it is kept, since only one record can be
\* returned.
PushJoin(i, m) ==
  LET open == held["out"]
      next == IF m.edge THEN <<i>> ELSE Append(open, i)
      done == m.edge /\ open # <<>>
  IN
  /\ IF done \/ Over(kind, offered', next) THEN Release(IF done THEN open ELSE next) ELSE UNCHANGED records
  /\ held' = [held EXCEPT !["out"] = IF Over(kind, offered', next) /\ ~done THEN <<>> ELSE next]
  /\ UNCHANGED refused

\* A chunk m of its stream: the one that closes a message, or goes over the cap,
\* takes the buffer with it.
Chunk(i, m) ==
  LET next == Append(held[Key(m)], i) IN
  IF m.edge \/ Over(kind, offered', next)
    THEN Release(next) /\ held' = [held EXCEPT ![Key(m)] = <<>>] /\ UNCHANGED refused
    ELSE held' = [held EXCEPT ![Key(m)] = next] /\ UNCHANGED <<records, refused>>

Refuse(i) == refused' = refused \cup {i} /\ UNCHANGED <<held, records>>

\* docker.rs: a chunk closes a message when its log ends with a newline; a line
\* that is no json object with log, stream and time is refused.
PushDocker(i, m) == IF m.valid THEN Chunk(i, m) ELSE Refuse(i)

\* cri.rs: the F tag closes; a line without a time, one of the two streams and a
\* tag F or P is refused.
PushCri(i, m) == IF m.valid THEN Chunk(i, m) ELSE Refuse(i)

\* Framer::push
Push(m) ==
  /\ Len(offered) < NLines /\ offered' = Append(offered, m)
  /\ kind \in {"multiline", "none"} => m.valid /\ m.stream = "out"
  /\ CASE kind = "none"      -> PushThrough(Len(offered'))
       [] kind = "multiline" -> PushJoin(Len(offered'), m)
       [] kind = "docker"    -> PushDocker(Len(offered'), m)
       [] kind = "cri"       -> PushCri(Len(offered'), m)
  /\ UNCHANGED kind

\* Framer::expire, and drain, which is called until there is nothing left: each
\* call releases what one buffer holds.
Expire(s) ==
  /\ held[s] # <<>> /\ Release(held[s])
  /\ held' = [held EXCEPT ![s] = <<>>]
  /\ UNCHANGED <<kind, offered, refused>>

Next == (\E m \in Marks : Push(m)) \/ (\E s \in Streams : Expire(s))

Spec == Init /\ [][Next]_framer
-----------------------------------------------------------------------------
Lines == DOMAIN offered

TypeOK ==
  /\ kind \in {"multiline", "docker", "cri", "none"}
  /\ offered \in Seq(Marks) /\ Len(offered) <= NLines
  /\ held \in [Streams -> Seq(Lines)] /\ records \in Seq(Seq(Lines)) /\ refused \subseteq Lines

\* The records, one after the other, and then what is held of stream s.
Out(s) == Append(records, held[s])

\* LinesKept: of every stream, that is its lines in their order, but for those
\* refused: caps, timeouts and the two records one line may complete lose
\* nothing, repeat nothing and swap nothing.  has_pending tells the caller of
\* every line that is still held.
LinesKept ==
  /\ \A i \in Lines : LET out == Out(Key(offered[i])) IN
       i \in refused <=> \A r \in DOMAIN out : i \notin Range(out[r])
  /\ \A s \in Streams : \A i \in Range(held[s]) : Key(offered[i]) = s
  /\ \A s \in Streams : \A q, r \in DOMAIN Out(s) :
       \A j \in DOMAIN Out(s)[q], k \in DOMAIN Out(s)[r] :
         LET a == Out(s)[q][j]  b == Out(s)[r][k] IN
         Key(offered[a]) = s /\ Key(offered[b]) = s /\ (q < r \/ (q = r /\ j < k)) => a < b

\* OneMessage: a record has lines of one message only, however chunks of the
\* two streams interleave and wherever a cap or a timeout cut: of one stream,
\* and with a start line only at its head (or a closing chunk only at its end).
OneMessage ==
  \A r \in DOMAIN records : \A j \in DOMAIN records[r] :
    LET m == offered[records[r][j]] IN
    CASE kind = "multiline" -> m.edge => j = 1
      [] kind = "none"      -> Len(records[r]) = 1
      [] OTHER -> m.stream = offered[records[r][1]].stream /\ (m.edge => j = Len(records[r]))

\* HeldIsBounded: an unterminated record does not pin memory: a buffer of more
\* than one line is below the caps.
HeldIsBounded ==
  \A s \in Streams : Len(held[s]) > 1 => ~Over(kind, offered, held[s])

\* FramingSound: all of it, which is what Pipeline.tla takes for granted of the
\* lines a framer holds and releases.
FramingSound == LinesKept /\ OneMessage /\ HeldIsBounded
=============================================================================
