------------------------------- MODULE Node ---------------------------------
(***************************************************************************)
(* One miner container: the entrypoint image/start.sh, its supervised      *)
(* processes, and the attestation server with the verifier that keeps an   *)
(* Azure-backed data plane honest (attestd/src/main.rs, azure-verify).     *)
(*                                                                         *)
(* The entrypoint runs its one-shot gates, starts the proxies, the         *)
(* attestation server and last Envoy, then waits for the first exit and    *)
(* takes the container down; the runtime restarts it.  The attestation     *)
(* server audits every Azure account before it listens, and afterwards     *)
(* runs two loops per account: a full capture audit and a poll of the      *)
(* deployment bindings.  A definitive failure, too many transient ones in  *)
(* a row on one loop, or a binding older than two intervals ends it.       *)
(*                                                                         *)
(* Time is kept as ages and countdowns, so that the state space is finite. *)
(***************************************************************************)
EXTENDS AzureSweep, FiniteSets

CONSTANTS Configs,         \* the workers that are started: [azure, proxies]
          TargetSeq,       \* the Azure targets in the order they are verified
          Account,         \* each target's [provider, kind, project]
          Interval,        \* ticks between two capture audits
          Deployment,      \* ticks between two deployment polls
          Limit,           \* transient_failure_limit
          Sinks            \* the places at which an operator may attach a sink

Targets == {TargetSeq[i] : i \in 1 .. Len(TargetSeq)}

Window == 2 * Deployment   \* DEPLOYMENT_STALE_INTERVALS

\* PeriodicAzureVerifySettings::from_env refuses smaller values.
Settings == Interval \in Nat \ {0} /\ Deployment \in Nat \ {0} /\ Limit \in Nat \ {0}

ASSUME NodeAssumption ==
  /\ Settings
  /\ \A c \in Configs : c.azure \subseteq Targets
  /\ \A t \in Targets : Sinks[t] \subseteq
       Places(Account[t].provider, Account[t].kind, Account[t].project)

VARIABLES
  conf,      \* the worker's configuration, fixed at deploy
  phase,     \* where the entrypoint is
  proc,      \* the loopback proxies and Envoy: "off", "up" or "dead"
  att,       \* the attestation server: "off", "verify", "refresh", "up", "dead"
  audit,     \* per target, the sweep in progress and its verdict
  passed,    \* targets the running boot verification has let through
  age,       \* per target, time since the server last saw its binding good
  stale,     \* per target, time left to the poll loop's stale_deadline
  poll,      \* per target, the poll loop: [wait, busy, fails]
  capture,   \* per target, the audit loop: [wait, fails]
  places,    \* per target, the rejected items its Azure account now holds
  calm       \* no failure, crash or change of an account happens any more

vars == <<conf, phase, proc, att, audit, passed, age, stale, poll, capture, places, calm>>

Phases == {"gate", "ratls", "proxies", "bedrock", "attestd", "ready", "envoy",
           "supervise", "stopping", "down"}

Proxies == {"near", "chutes", "kubetee", "bedrock"}

Procs == Proxies \union {"envoy"}

\* env_selects_azure: the accounts the selectors put in the request path.
env_selects_azure == conf.azure # {}

Acct(t) == [provider |-> Account[t].provider, kind |-> Account[t].kind,
            project |-> Account[t].project, places |-> places[t]]

MaxAge == Window + 1       \* ages are not told apart beyond the window

Fresh(t) == age[t] < Window

\* AzureBindingReadiness::is_fresh, behind /readyz.
is_fresh == att = "up" /\ \A t \in conf.azure : Fresh(t)

TypeOK ==
  /\ conf \in Configs
  /\ phase \in Phases
  /\ proc \in [Procs -> {"off", "up", "dead"}]
  /\ att \in {"off", "verify", "refresh", "up", "dead"}
  /\ passed \subseteq Targets
  /\ age \in [Targets -> 0 .. MaxAge]
  /\ stale \in [Targets -> 0 .. Window]
  /\ \A t \in Targets : poll[t].wait \in 0 .. Deployment /\ poll[t].fails \in 0 .. Limit
  /\ \A t \in Targets : capture[t].wait \in 0 .. Interval /\ capture[t].fails \in 0 .. Limit
  /\ \A t \in Targets : places[t] \subseteq Sinks[t]
  /\ calm \in BOOLEAN

NoLoops == /\ poll' = [t \in Targets |-> [wait |-> 0, busy |-> FALSE, fails |-> 0]]
           /\ capture' = [t \in Targets |-> [wait |-> 0, fails |-> 0]]
           /\ stale' = [t \in Targets |-> 0]

Init ==
  /\ conf \in Configs
  /\ phase = "gate"
  /\ proc = [p \in Procs |-> "off"]
  /\ att = "off"
  /\ audit = [t \in Targets |-> Idle]
  /\ passed = {}
  /\ age = [t \in Targets |-> 0]
  /\ stale = [t \in Targets |-> 0]
  /\ poll = [t \in Targets |-> [wait |-> 0, busy |-> FALSE, fails |-> 0]]
  /\ capture = [t \in Targets |-> [wait |-> 0, fails |-> 0]]
  /\ places \in [Targets -> {{}}]
  /\ calm = FALSE

-----------------------------------------------------------------------------
(***************************************************************************)
(* The container's end: the processes go with PID 1, and the runtime's     *)
(* restart policy starts the entrypoint again.                             *)
(***************************************************************************)
Exit ==
  /\ phase' = "down"
  /\ proc' = [p \in Procs |-> "off"]
  /\ att' = "off"
  /\ audit' = [t \in Targets |-> Idle]
  /\ passed' = {}
  /\ age' = [t \in Targets |-> 0]
  /\ NoLoops
  /\ UNCHANGED <<conf, places, calm>>

Restart ==
  /\ phase = "down"
  /\ phase' = "gate"
  /\ UNCHANGED <<conf, proc, att, audit, passed, age, stale, poll, capture, places, calm>>

(***************************************************************************)
(* The attestation server ends: its tasks are aborted with it, whatever    *)
(* they were waiting for.                                                  *)
(***************************************************************************)
AttestdDies ==
  /\ att' = "dead"
  /\ audit' = [t \in Targets |-> Idle]
  /\ passed' = {}
  /\ age' = [t \in Targets |-> 0]
  /\ NoLoops

(***************************************************************************)
(* A boot verification (verify_azure_config_from_env) audits the targets   *)
(* in order and stops at the first that does not pass.  It is run twice:   *)
(* by the one-shot gate, whose observation ends with its process, and by   *)
(* the attestation server, which keeps the instant of each binding check.  *)
(***************************************************************************)
Verifying == phase = "gate" \/ att = "verify"

\* The order configured_targets_from_env pushes them in.
NextTarget(t) ==
  /\ t \in conf.azure \ passed
  /\ \E i \in 1 .. Len(TargetSeq) :
       TargetSeq[i] = t /\ \A j \in 1 .. i - 1 : TargetSeq[j] \notin conf.azure \ passed

StartBootAudit(t) ==
  /\ Verifying /\ NextTarget(t)
  /\ audit[t].at = "idle"
  /\ audit' = [audit EXCEPT ![t] = NewAudit]
  /\ UNCHANGED <<conf, phase, proc, att, passed, age, stale, poll, capture, places, calm>>

\* One ARM read of the sweep of target t, whoever runs it.
SweepRead(t) ==
  /\ audit[t].at \notin Verdicts \union {"idle"}
  /\ \E o \in ReadOutcomes(audit[t].at) :
       /\ calm => o[2] = "none"
       /\ LET b == sweep(audit[t], Acct(t), o[1], o[2]) IN
          /\ audit' = [audit EXCEPT ![t] = b]
          /\ age' = [age EXCEPT ![t] = IF b.bound /\ ~audit[t].bound /\ att = "verify"
                                         THEN 0 ELSE @]
  /\ UNCHANGED <<conf, phase, proc, att, passed, stale, poll, capture, places, calm>>

BootAuditPassed(t) ==
  /\ Verifying /\ audit[t].at = "pass"
  /\ passed' = passed \union {t}
  /\ audit' = [audit EXCEPT ![t] = Idle]
  /\ UNCHANGED <<conf, phase, proc, att, age, stale, poll, capture, places, calm>>

\* The one-shot gate failed: `set -e` ends the entrypoint.
GateFailed(t) ==
  /\ phase = "gate" /\ audit[t].at \in {"transient", "definitive"}
  /\ Exit

\* The server's own boot verification failed: it exits before it listens.
AttestdVerifyFailed(t) ==
  /\ att = "verify" /\ audit[t].at \in {"transient", "definitive"}
  /\ AttestdDies
  /\ UNCHANGED <<conf, phase, proc, places, calm>>

(***************************************************************************)
(* The entrypoint after its gate: the RA-TLS certificate, the proxies of   *)
(* the configured keys, the Bedrock adapter, and the attestation server.   *)
(***************************************************************************)
GatePassed ==
  /\ phase = "gate" /\ passed = conf.azure
  /\ phase' = "ratls"
  /\ passed' = {}
  /\ UNCHANGED <<conf, proc, att, audit, age, stale, poll, capture, places, calm>>

MintCertificate ==
  /\ phase = "ratls"
  /\ phase' = "proxies"
  /\ UNCHANGED <<conf, proc, att, audit, passed, age, stale, poll, capture, places, calm>>

MintFailed == phase = "ratls" /\ ~calm /\ Exit

StartProxies ==
  /\ phase = "proxies"
  /\ proc' = [p \in Procs |-> IF p \in conf.proxies THEN "up" ELSE "off"]
  /\ phase' = IF "bedrock" \in conf.proxies THEN "bedrock" ELSE "attestd"
  /\ UNCHANGED <<conf, att, audit, passed, age, stale, poll, capture, places, calm>>

\* wait_for_loopback_port: the adapter answers, or it died or never did.
BedrockListens ==
  /\ phase = "bedrock" /\ proc["bedrock"] = "up"
  /\ phase' = "attestd"
  /\ UNCHANGED <<conf, proc, att, audit, passed, age, stale, poll, capture, places, calm>>

BedrockAbsent ==
  /\ phase = "bedrock" /\ (proc["bedrock"] = "dead" \/ ~calm)
  /\ Exit

StartAttestd ==
  /\ phase = "attestd"
  /\ att' = IF env_selects_azure THEN "verify" ELSE "up"
  /\ phase' = IF env_selects_azure THEN "ready" ELSE "envoy"
  /\ UNCHANGED <<conf, proc, audit, passed, age, stale, poll, capture, places, calm>>

\* The listener is bound; expired boot observations are refreshed before the
\* loops start (spawn_periodic_azure_verification_from_env).
VerifyDone ==
  /\ att = "verify" /\ passed = conf.azure
  /\ att' = "refresh"
  /\ stale' = [t \in Targets |-> Window]      \* the refresh's own deadline
  /\ UNCHANGED <<conf, phase, proc, audit, passed, age, poll, capture, places, calm>>

\* refresh_expired_bindings: the first expired target, until none is.
Expired(t) ==
  /\ t \in conf.azure /\ ~Fresh(t)
  /\ \E i \in 1 .. Len(TargetSeq) :
       TargetSeq[i] = t /\ \A j \in 1 .. i - 1 : TargetSeq[j] \in conf.azure => Fresh(TargetSeq[j])

RefreshBinding(t) ==
  /\ att = "refresh" /\ Expired(t)
  /\ \E o \in PollOutcomes :
       /\ calm => o[3] = "none"
       /\ IF verify_deployment_bindings(Acct(t), o) = "pass"
            THEN /\ age' = [age EXCEPT ![t] = 0]
                 /\ UNCHANGED <<att, audit, passed, stale, poll, capture>>
            ELSE AttestdDies
  /\ UNCHANGED <<conf, phase, proc, places, calm>>

RefreshTimedOut ==
  /\ att = "refresh" /\ \E t \in conf.azure : ~Fresh(t) /\ stale[t] = 0
  /\ AttestdDies
  /\ UNCHANGED <<conf, phase, proc, places, calm>>

\* The two loops of every target start; the poll's deadline and its first
\* tick are anchored to the binding that boot observed.
SpawnLoops ==
  /\ att = "refresh" /\ \A t \in conf.azure : Fresh(t)
  /\ att' = "up"
  /\ passed' = {}
  /\ poll' = [t \in Targets |-> [wait |-> IF age[t] >= Deployment THEN 0 ELSE Deployment - age[t],
                                 busy |-> FALSE, fails |-> 0]]
  /\ capture' = [t \in Targets |-> [wait |-> Interval, fails |-> 0]]
  /\ stale' = [t \in Targets |-> IF Fresh(t) THEN Window - age[t] ELSE 0]
  /\ UNCHANGED <<conf, phase, proc, audit, age, places, calm>>

\* The wait for /readyz, which also watches that the server still runs.
Ready ==
  /\ phase = "ready" /\ is_fresh
  /\ phase' = "envoy"
  /\ UNCHANGED <<conf, proc, att, audit, passed, age, stale, poll, capture, places, calm>>

NeverReady == phase = "ready" /\ att = "dead" /\ Exit

StartEnvoy ==
  /\ phase = "envoy"
  /\ proc' = [proc EXCEPT !["envoy"] = "up"]
  /\ phase' = "supervise"
  /\ UNCHANGED <<conf, att, audit, passed, age, stale, poll, capture, places, calm>>

(***************************************************************************)
(* Supervision: the first stopped child, whichever it is, brings all of    *)
(* them down; the entrypoint exits once they are reaped.                   *)
(***************************************************************************)
\* Mutant of Supervised: the configured proxies are not watched.
SupervisedCore == {"envoy"}

Supervised == conf.proxies \union {"envoy"}

SomeChildStopped == att = "dead" \/ \E p \in Supervised : proc[p] = "dead"

Supervise ==
  /\ phase = "supervise" /\ SomeChildStopped
  /\ phase' = "stopping"
  /\ UNCHANGED <<conf, proc, att, audit, passed, age, stale, poll, capture, places, calm>>

Reap == phase = "stopping" /\ Exit

\* SIGTERM or SIGINT to PID 1, once its trap is installed.
Terminate == phase \notin {"gate", "ratls", "down"} /\ ~calm /\ Exit

\* A supervised process stops by itself; a proxy or Envoy may at any time.
Crash(p) ==
  /\ ~calm /\ proc[p] = "up"
  /\ proc' = [proc EXCEPT ![p] = "dead"]
  /\ UNCHANGED <<conf, phase, att, audit, passed, age, stale, poll, capture, places, calm>>

\* The server stops: its keys cannot be had from dstack, or it is killed.
AttestdCrash ==
  /\ ~calm /\ att \in {"verify", "refresh", "up"}
  /\ AttestdDies
  /\ UNCHANGED <<conf, phase, proc, places, calm>>

-----------------------------------------------------------------------------
(***************************************************************************)
(* record_result: a success clears this loop's own counter; a definitive   *)
(* failure, or the transient one that reaches the limit, is fatal.  The    *)
(* count is the loop's, not the target's.                                  *)
(***************************************************************************)
record_result(fails, result) ==
  IF result = "pass" THEN [fails |-> 0, fatal |-> FALSE]
  ELSE [fails |-> IF fails < Limit THEN fails + 1 ELSE fails,
        fatal |-> result = "definitive" \/ fails + 1 >= Limit]

\* run_capture_audit_loop: a tick, the sweep, then its verdict.
CaptureTick(t) ==
  /\ att = "up" /\ t \in conf.azure
  /\ capture[t].wait = 0 /\ audit[t].at = "idle"
  /\ audit' = [audit EXCEPT ![t] = NewAudit]
  /\ capture' = [capture EXCEPT ![t].wait = Interval]
  /\ UNCHANGED <<conf, phase, proc, att, passed, age, stale, poll, places, calm>>

CaptureEnd(t) ==
  /\ att = "up" /\ audit[t].at \in Verdicts
  /\ LET r == record_result(capture[t].fails, audit[t].at) IN
     IF r.fatal THEN AttestdDies
     ELSE /\ capture' = [capture EXCEPT ![t].fails = r.fails]
          /\ audit' = [audit EXCEPT ![t] = Idle]
          /\ UNCHANGED <<att, passed, age, stale, poll>>
  /\ UNCHANGED <<conf, phase, proc, places, calm>>

\* Mutant of PollTick: the interval is the stale window's.
PollTickSlow(t) ==
  /\ att = "up" /\ t \in conf.azure
  /\ poll[t].wait = 0 /\ ~poll[t].busy /\ stale[t] > 0
  /\ poll' = [poll EXCEPT ![t].busy = TRUE, ![t].wait = Window]
  /\ UNCHANGED <<conf, phase, proc, att, audit, passed, age, stale, capture, places, calm>>

\* run_deployment_binding_loop: a tick before the deadline starts a poll.
PollTick(t) ==
  /\ att = "up" /\ t \in conf.azure
  /\ poll[t].wait = 0 /\ ~poll[t].busy /\ stale[t] > 0
  /\ poll' = [poll EXCEPT ![t].busy = TRUE, ![t].wait = Deployment]
  /\ UNCHANGED <<conf, phase, proc, att, audit, passed, age, stale, capture, places, calm>>

\* Mutant of PollEnd: every poll restarts the deadline.
PollEndRearms(t) ==
  /\ att = "up" /\ poll[t].busy
  /\ \E o \in PollOutcomes :
       /\ calm => o[3] = "none"
       /\ LET result == verify_deployment_bindings(Acct(t), o)
              r == record_result(poll[t].fails, result) IN
          IF r.fatal THEN AttestdDies
          ELSE /\ poll' = [poll EXCEPT ![t].busy = FALSE, ![t].fails = r.fails]
               /\ age' = [age EXCEPT ![t] = IF result = "pass" THEN 0 ELSE @]
               /\ stale' = [stale EXCEPT ![t] = Window]
               /\ UNCHANGED <<att, audit, passed, capture>>
  /\ UNCHANGED <<conf, phase, proc, places, calm>>

\* Mutant of PollEnd: a healthy poll clears the target's capture failures too.
PollEndClearsBoth(t) ==
  /\ att = "up" /\ poll[t].busy
  /\ \E o \in PollOutcomes :
       /\ calm => o[3] = "none"
       /\ LET result == verify_deployment_bindings(Acct(t), o)
              r == record_result(poll[t].fails, result) IN
          IF r.fatal THEN AttestdDies
          ELSE /\ poll' = [poll EXCEPT ![t].busy = FALSE, ![t].fails = r.fails]
               /\ age' = [age EXCEPT ![t] = IF result = "pass" THEN 0 ELSE @]
               /\ stale' = [stale EXCEPT ![t] = IF result = "pass" THEN Window ELSE @]
               /\ capture' = [capture EXCEPT ![t].fails = IF result = "pass" THEN 0 ELSE @]
               /\ UNCHANGED <<att, audit, passed>>
  /\ UNCHANGED <<conf, phase, proc, places, calm>>

\* The answer, which may arrive at the very deadline; only a success moves
\* the anchor of the next one.
PollEnd(t) ==
  /\ att = "up" /\ poll[t].busy
  /\ \E o \in PollOutcomes :
       /\ calm => o[3] = "none"
       /\ LET result == verify_deployment_bindings(Acct(t), o)
              r == record_result(poll[t].fails, result) IN
          IF r.fatal THEN AttestdDies
          ELSE /\ poll' = [poll EXCEPT ![t].busy = FALSE, ![t].fails = r.fails]
               /\ age' = [age EXCEPT ![t] = IF result = "pass" THEN 0 ELSE @]
               /\ stale' = [stale EXCEPT ![t] = IF result = "pass" THEN Window ELSE @]
               /\ UNCHANGED <<att, audit, passed, capture>>
  /\ UNCHANGED <<conf, phase, proc, places, calm>>

\* stale_failure: the deadline passed, waiting for a tick or for an answer.
PollStale(t) ==
  /\ att = "up" /\ t \in conf.azure /\ stale[t] = 0
  /\ AttestdDies
  /\ UNCHANGED <<conf, phase, proc, places, calm>>

-----------------------------------------------------------------------------
(***************************************************************************)
(* The environment: the operator attaches or removes a sink, time passes,  *)
(* and, for what must eventually happen, the outside world settles.  A     *)
(* timer that is due fires before time goes on.                            *)
(***************************************************************************)
Attach(t, v) ==
  /\ ~calm /\ t \in conf.azure /\ places[t] = {}
  /\ places' = [places EXCEPT ![t] = {v}]
  /\ UNCHANGED <<conf, phase, proc, att, audit, passed, age, stale, poll, capture, calm>>

Detach(t) ==
  /\ ~calm /\ places[t] # {}
  /\ places' = [places EXCEPT ![t] = {}]
  /\ UNCHANGED <<conf, phase, proc, att, audit, passed, age, stale, poll, capture, calm>>

Settle ==
  /\ ~calm /\ \A t \in Targets : places[t] = {}
  /\ calm' = TRUE
  /\ UNCHANGED <<conf, phase, proc, att, audit, passed, age, stale, poll, capture, places>>

Due == \/ att = "up" /\ \E t \in conf.azure : stale[t] = 0
       \/ att = "refresh" /\ \E t \in conf.azure : ~Fresh(t) /\ stale[t] = 0

\* In a calm network reads, ticks and starts are prompt.
Prompt == calm => /\ \A t \in conf.azure : ~poll[t].busy /\ audit[t].at = "idle"
                  /\ att = "up" => \A t \in conf.azure : poll[t].wait > 0
                  /\ phase \in {"supervise"} /\ att = "up"

Down(n) == IF n = 0 THEN 0 ELSE n - 1

Tick ==
  /\ ~Due /\ Prompt
  /\ att \in {"verify", "refresh", "up"}
  /\ age' = [t \in Targets |-> IF t \in conf.azure /\ age[t] < MaxAge THEN age[t] + 1 ELSE age[t]]
  /\ stale' = [t \in Targets |-> Down(stale[t])]
  /\ poll' = [t \in Targets |-> [poll[t] EXCEPT !.wait = Down(@)]]
  /\ capture' = [t \in Targets |-> [capture[t] EXCEPT !.wait = Down(@)]]
  /\ UNCHANGED <<conf, phase, proc, att, audit, passed, places, calm>>

-----------------------------------------------------------------------------
\* The entrypoint is one sequential process, the server's start another.
Entrypoint ==
  \/ Restart \/ GatePassed \/ MintCertificate \/ StartProxies \/ BedrockListens
  \/ BedrockAbsent \/ StartAttestd \/ NeverReady \/ StartEnvoy \/ Supervise \/ Reap

Server == VerifyDone \/ SpawnLoops \/ RefreshTimedOut

Audits(t) == \/ StartBootAudit(t) \/ SweepRead(t) \/ BootAuditPassed(t) \/ GateFailed(t)
             \/ AttestdVerifyFailed(t) \/ RefreshBinding(t)
             \/ CaptureTick(t) \/ CaptureEnd(t)

Polls(t) == PollTick(t) \/ PollEnd(t) \/ PollStale(t)

World == \/ MintFailed \/ Terminate \/ AttestdCrash \/ Settle
         \/ \E p \in Procs : Crash(p)
         \/ \E t \in Targets : Detach(t) \/ \E v \in Sinks[t] : Attach(t, v)

Next == \/ Entrypoint \/ Ready \/ Server \/ Tick \/ World
        \/ \E t \in Targets : Audits(t) \/ Polls(t)

Spec == Init /\ [][Next]_vars

(***************************************************************************)
(* The entrypoint and the supervision loop keep running, every read ends   *)
(* (the client's 30 second timeout), the loops are scheduled and time      *)
(* passes.  The readiness wait asks ten times a second, so it does not     *)
(* miss for ever a server that is fresh again and again.  Nothing is       *)
(* assumed of crashes, failures or the operator.                           *)
(***************************************************************************)
Fairness ==
  /\ WF_vars(Entrypoint) /\ SF_vars(Ready) /\ WF_vars(Server) /\ WF_vars(Tick)
  /\ \A t \in Targets : WF_vars(Audits(t)) /\ WF_vars(Polls(t))

FairSpec == Spec /\ Fairness

-----------------------------------------------------------------------------
(***************************************************************************)
(* Properties                                                              *)
(***************************************************************************)

\* A finding always outranks a transport error, and only a finding or a
\* definitive refusal may: whatever page of whatever collection showed the
\* sink, and whichever later read failed, the sweep never ends as a pass or
\* as a tolerable hiccup (AzureAudit::findings_outrank, PagedRead).
VerdictJust ==
  \A t \in Targets : audit[t].at \in {"pass", "transient"} => ~audit[t].seen

\* While the attestation server runs, Envoy never serves on a deployment
\* binding seen good more than two poll intervals ago: not after failed or
\* stalled polls, and not on the observation that boot handed over
\* (run_deployment_binding_loop, refresh_expired_bindings, /readyz).
FreshWhileUp ==
  att = "up" /\ proc["envoy"] = "up" => \A t \in conf.azure : age[t] <= Window

\* A sink that stays on an account in the request path ends the serving for
\* good: neither throttled reads, nor a healthy deployment poll, nor
\* restarting the container lets Envoy keep or resume serving past it.
SinkStops ==
  \A t \in Targets :
    <>[](t \in conf.azure /\ places[t] # {}) => <>[](proc["envoy"] # "up")

\* Once nothing fails any more and the accounts are clean, the node serves
\* and keeps serving: a process that died earlier, whatever the entrypoint
\* was waiting for at that moment, has brought the container down and back
\* (wait_for_loopback_port, the readiness wait, the supervision loop of
\* start.sh), and neither the gates, nor the refresh of expired boot
\* evidence, nor the loops' own deadlines take a healthy node down.
CalmServes ==
  <>[]calm => <>[](/\ phase = "supervise" /\ att = "up"
                   /\ \A p \in Supervised : proc[p] = "up"
                   /\ \A p \in Procs : proc[p] # "dead")
=============================================================================
