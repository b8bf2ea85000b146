----------------------------- MODULE Credential -----------------------------
(***************************************************************************)
(* The client certificate of a shipper: the rotating identity              *)
(* (credential.rs) and the client built from it (ship.rs).  Every file     *)
(* source that shares the shipper looks for a renewed pair on its own      *)
(* clock, and a pool rebuild may be under way at the same time; nothing    *)
(* but the single stores is atomic.  The shippers of the OTLP receiver,    *)
(* the metrics collector and the journal sources have nobody who looks.    *)
(*                                                                         *)
(* Abstractions.  A certificate and a key match when they carry the same   *)
(* version.  A file's modification time is the number of the write that    *)
(* made it.  Bad stands for a file that is missing, torn or no PEM.        *)
(***************************************************************************)
EXTENDS Naturals

CONSTANTS
  Rotators,   \* tasks that may share the shipper
  Versions,   \* versions of the pair, 1 upwards; the first is there at the start
  Bad,
  MaxWrites   \* writes to the two files (bound)

CredentialAssumption == Versions \subseteq Nat \ {0} /\ 1 \in Versions /\ MaxWrites \in Nat

VARIABLES
  rotators,  \* the tasks that share this shipper
  disk,      \* the two files: version and modification time
  writes,    \* writes so far
  expired,   \* certificates up to this version have expired
  booted,    \* Shipper::new has returned
  actor,     \* where every task is, and what it has read
  current,   \* RotatingIdentity::current
  token,     \* RotatingIdentity::token: the two modification times
  healthy,   \* last_reload_ok
  client,    \* the identity the live client presents
  missed,    \* history: the files changed between the first load and its token
  overtaken  \* history: a store put an older identity in place of a newer one

files    == <<disk, writes, expired>>
identity == <<current, token, healthy>>
history  == <<missed, overtaken>>
vars     == <<rotators, files, booted, actor, identity, client, history>>

Pool == "pool"                \* the task that rebuilds the connection pool
Actors == Rotators \cup {Pool}
NoPair == [cert |-> 0, key |-> 0]
Idle == [at |-> "idle", tok |-> <<0, 0>>, pair |-> NoPair]
Stamp == <<disk.cert.time, disk.key.time>>
Usable(p) == p.cert # Bad /\ p.cert > expired
Moves(a, at) == actor' = [actor EXCEPT ![a].at = at]
-----------------------------------------------------------------------------
Init ==
  /\ rotators \in SUBSET Rotators
  /\ disk = [cert |-> [v |-> 1, time |-> 0], key |-> [v |-> 1, time |-> 0]]
  /\ writes = 0 /\ expired = 0 /\ booted = FALSE
  /\ actor = [a \in Actors |-> IF a = Pool THEN [Idle EXCEPT !.at = "cert"] ELSE Idle]
  /\ current = NoPair /\ token = <<0, 0>> /\ healthy = TRUE /\ client = NoPair
  /\ missed = FALSE /\ overtaken = FALSE

\* load_pair: the certificate, then the key.
ReadCert(a) ==
  /\ actor[a].at = "cert"
  /\ actor' = [actor EXCEPT ![a].pair.cert = disk.cert.v, ![a].at = "key"]
  /\ UNCHANGED <<rotators, files, booted, identity, client, history>>

ReadKey(a) ==
  /\ actor[a].at = "key"
  /\ actor' = [actor EXCEPT ![a].pair.key = disk.key.v, ![a].at = "gate"]
  /\ UNCHANGED <<rotators, files, booted, identity, client, history>>

\* Mutant: reqwest::Identity::from_pem alone, which does not see that the key is
\* another certificate's.
PassesParsed(p) == Usable(p) /\ p.key # Bad

\* Mutant: the certificate is not parsed before it is used.
PassesUnread(p) == p.cert > expired /\ p.key = p.cert

\* load_pair's checks; the throwaway client is what finds a key that does not
\* belong to the certificate.
Passes(p) == Usable(p) /\ p.key = p.cert

\* The first load.  Its token is read after the files (credential.rs:294): a
\* renewal in between is taken for what was loaded.
Boot ==
  /\ ~booted /\ actor[Pool].at = "gate" /\ Passes(actor[Pool].pair)
  /\ booted' = TRUE
  /\ current' = actor[Pool].pair /\ client' = actor[Pool].pair /\ token' = Stamp
  /\ missed' = (disk.cert.v # actor[Pool].pair.cert \/ disk.key.v # actor[Pool].pair.key)
  /\ actor' = [actor EXCEPT ![Pool] = Idle]
  /\ UNCHANGED <<rotators, files, healthy, overtaken>>

\* A pair that is refused keeps the agent from starting; it is started again.
BootRefused ==
  /\ ~booted /\ actor[Pool].at = "gate" /\ ~Passes(actor[Pool].pair)
  /\ actor' = [actor EXCEPT ![Pool] = [Idle EXCEPT !.at = "cert"]]
  /\ UNCHANGED <<rotators, files, booted, identity, client, history>>

\* rotate_credentials, reload: the modification times against the token.
Look(a) ==
  /\ booted /\ a \in rotators /\ actor[a].at = "idle" /\ Stamp # token
  /\ actor' = [actor EXCEPT ![a] = [Idle EXCEPT !.at = "cert", !.tok = Stamp]]
  /\ UNCHANGED <<rotators, files, booted, identity, client, history>>

\* The last good pair stays, and so does the token: the next look tries again.
Refuse(a) ==
  /\ booted /\ actor[a].at = "gate" /\ ~Passes(actor[a].pair)
  /\ healthy' = FALSE /\ actor' = [actor EXCEPT ![a] = Idle]
  /\ UNCHANGED <<rotators, files, booted, current, token, client, history>>

Adopt(a) ==
  /\ booted /\ actor[a].at = "gate" /\ Passes(actor[a].pair)
  /\ current' = actor[a].pair
  /\ overtaken' = (overtaken \/ actor[a].pair.cert < current.cert)
  /\ Moves(a, "token")
  /\ UNCHANGED <<rotators, files, booted, token, healthy, client, missed>>

\* Mutant: the token is read after the files, as it is in the first load.
TokenAfter(a) ==
  /\ actor[a].at = "token"
  /\ token' = Stamp /\ healthy' = TRUE
  /\ actor' = [actor EXCEPT ![a].at = "store", ![a].pair = current]
  /\ UNCHANGED <<rotators, files, booted, current, client, history>>

\* The token and the flag; then rotate_credentials reads current() and builds.
SetToken(a) ==
  /\ actor[a].at = "token"
  /\ token' = actor[a].tok /\ healthy' = TRUE
  /\ actor' = [actor EXCEPT ![a].at = "store", ![a].pair = current]
  /\ UNCHANGED <<rotators, files, booted, current, client, history>>

\* client.store, of rotate_credentials and of rebuild_transport.
Store(a) ==
  /\ actor[a].at = "store"
  /\ client' = actor[a].pair
  /\ overtaken' = (overtaken \/ actor[a].pair.cert < current.cert)
  /\ actor' = [actor EXCEPT ![a] = Idle]
  /\ UNCHANGED <<rotators, files, booted, identity, missed>>

\* rebuild_transport, after transport failures: the same, from current().
Rebuild ==
  /\ booted /\ actor[Pool].at = "idle"
  /\ actor' = [actor EXCEPT ![Pool] = [Idle EXCEPT !.at = "store", !.pair = current]]
  /\ UNCHANGED <<rotators, files, booted, identity, client, history>>

Task(a) ==
  ReadCert(a) \/ ReadKey(a) \/ Look(a) \/ Refuse(a) \/ Adopt(a) \/ SetToken(a) \/ Store(a)
-----------------------------------------------------------------------------
(* Whoever issues certificates: writes either file, in any order *)

Write ==
  /\ writes < MaxWrites /\ writes' = writes + 1
  /\ \E f \in {"cert", "key"} : \E v \in Versions \cup {Bad} :
       disk' = [disk EXCEPT ![f] = [v |-> v, time |-> writes']]
  /\ UNCHANGED <<rotators, expired, booted, actor, identity, client, history>>

\* The latest version does not expire.
Expire ==
  /\ \E v \in Versions : expired + 1 < v
  /\ expired' = expired + 1
  /\ UNCHANGED <<rotators, disk, writes, booted, actor, identity, client, history>>

Next == Boot \/ BootRefused \/ Rebuild \/ Write \/ Expire \/ \E a \in Actors : Task(a)

\* The check is on every source's loop, every refresh_secs.
Fairness == WF_vars(Boot \/ BootRefused) /\ \A a \in Actors : WF_vars(Task(a))

Spec == Init /\ [][Next]_vars /\ Fairness
-----------------------------------------------------------------------------
Pairs == [cert : Versions \cup {0}, key : Versions \cup {0}]

TypeOK ==
  /\ rotators \subseteq Rotators
  /\ disk \in [{"cert", "key"} -> [v : Versions \cup {Bad}, time : 0..MaxWrites]]
  /\ writes \in 0..MaxWrites /\ expired \in Nat /\ booted \in BOOLEAN
  /\ \A a \in Actors : actor[a].at \in {"idle", "cert", "key", "gate", "token", "store"}
  /\ current \in Pairs /\ client \in Pairs
  /\ token \in (0..MaxWrites) \X (0..MaxWrites) /\ healthy \in BOOLEAN
  /\ missed \in BOOLEAN /\ overtaken \in BOOLEAN

\* Matched: what the client presents is a certificate with its own key, though
\* the two files are replaced one after the other while they are read.
Matched == current.key = current.cert /\ client.key = client.cert

\* The files hold a pair that can be used, and nobody touches them.
Renewed(v) == disk.cert.v = v /\ disk.key.v = v /\ v > expired

\* RenewalPresented: a usable pair that stays on disk is what the client comes to
\* present, although a first look found half of it, or something else in its
\* place; except when no task looks, when the renewal fell into the start, or
\* when a task was overtaken by another between its load and its store.
RenewalPresented ==
  \A v \in Versions :
    <>[](Renewed(v) /\ booted)
      => <>[](client.cert = v \/ missed \/ overtaken \/ rotators = {})
=============================================================================
