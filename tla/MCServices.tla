----------------------------- MODULE MCServices -----------------------------
(***************************************************************************)
(* Two parts of the agent that run beside its sources, checked side by     *)
(* side: host metrics and the credentials of the shipper.  They share no   *)
(* state, so what holds of each alone holds of both; one of them, chosen   *)
(* at the start, takes the steps of a behaviour.                           *)
(***************************************************************************)
EXTENDS Integers, QueueOps

CONSTANTS
  (* Metrics *)    Paths, MaxMounts, MaxDeaths, MaxRuns, MaxRestarts,
  (* Credential *) Rotators, Versions, Bad, MaxWrites

VARIABLES
  part,
  (* Metrics *)    mounted, mounts, dead, deaths, threads, held, pc, present, todo, probing,
                   batch, exec, runs, queue, drain, shipped, db, space, restarts,
  (* Credential *) rotators, disk, writes, expired, booted, actor, current, token, healthy,
                   client, missed, overtaken

M == INSTANCE Metrics
C == INSTANCE Credential

ASSUME ServicesAssumption == M!MetricsAssumption /\ C!CredentialAssumption

metrics    == <<mounted, mounts, dead, deaths, threads, held, pc, present, todo, probing,
                batch, exec, runs, queue, drain, shipped, db, space, restarts>>
credential == <<rotators, disk, writes, expired, booted, actor, current, token, healthy,
                client, missed, overtaken>>
vars       == <<part, metrics, credential>>

MetricsStep(A)    == part = "metrics"    /\ A /\ UNCHANGED <<part, credential>>
CredentialStep(A) == part = "credential" /\ A /\ UNCHANGED <<part, metrics>>

\* A part that takes no step starts in one of its initial states.
Init ==
  /\ part \in {"metrics", "credential"}
  /\ M!Init /\ C!Init /\ (part # "credential" => rotators = {})

Next == MetricsStep(M!Next) \/ CredentialStep(C!Next)

\* The fairness of the two modules, for the part that runs.
Fairness ==
  /\ WF_vars(MetricsStep(M!Tick)) /\ WF_vars(MetricsStep(M!Drain))
  /\ \A p \in Paths : \A i \in M!Mounts : WF_vars(MetricsStep(M!Returns(p, i)))
  /\ WF_vars(CredentialStep(C!Boot \/ C!BootRefused))
  /\ \A a \in C!Actors : WF_vars(CredentialStep(C!Task(a)))

Spec == Init /\ [][Next]_vars /\ Fairness
-----------------------------------------------------------------------------
\* TypeOK: every variable of the two parts keeps its type.
TypeOK == M!TypeOK /\ C!TypeOK

\* ProbesBounded: a dead mount costs one blocked thread (metrics.rs).
ProbesBounded == M!ProbesBounded

\* RecoveredReports: a mount that answers is reported again (metrics.rs).
RecoveredReports == part = "metrics" => M!RecoveredReports

\* Matched: the client presents a certificate with its own key (credential.rs).
Matched == C!Matched

\* RenewalPresented: a renewed pair is picked up (credential.rs, ship.rs).
RenewalPresented == C!RenewalPresented
=============================================================================
