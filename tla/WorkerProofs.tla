---------------------------- MODULE WorkerProofs ----------------------------
(***************************************************************************)
(* A worker, from the wizard and the deploy that create it to the          *)
(* container it runs in, for every value of their constants.               *)
(*                                                                         *)
(* Node: a container keeps its types, no audit of an Azure account ends as *)
(* a pass or a hiccup once it saw a violation, and Envoy serves on no      *)
(* binding older than two poll intervals: for every set of accounts, sinks *)
(* and configurations, any page count, any intervals and any limit.        *)
(* Onboarding: the wizard never claims what has not come to pass.          *)
(* Release: a CVM that a deploy leaves registered is the one its release   *)
(* was approved as.                                                        *)
(***************************************************************************)
EXTENDS Node, Onboarding, Release, SequenceTheorems, TLAPS

(* The reads a sweep can be at.                                            *)
Stages == {"account", "projects", "diag", "connections", "hosts", "pdiag",
           "pconnections", "phosts", "deployments", "policies"}

(* The reads of one scope, all of them audit_scope's.                      *)
Surfaces == Stages \ {"account", "projects", "deployments", "policies"}

(* What a sweep carries from read to read.                                 *)
AuditRecord ==
  [at : Stages \union Verdicts \union {"idle"}, found : BOOLEAN,
   pend : Classes \union {"none"}, pages : Nat, project : BOOLEAN,
   bound : BOOLEAN, seen : BOOLEAN]

(***************************************************************************)
(* What was seen is a recorded finding, and a sweep that ended as a pass   *)
(* or as transient has recorded none.                                      *)
(***************************************************************************)
Just(a) == /\ a.seen => a.found
           /\ a.at \in {"pass", "transient"} => ~a.found

(* The loops' counters and waits.                                          *)
PollState == [wait : 0 .. Deployment, busy : BOOLEAN, fails : 0 .. Limit]

CaptureState == [wait : 0 .. Interval, fails : 0 .. Limit]

(* The types, with those of the records that TypeOK reads field by field.  *)
Types ==
  /\ TypeOK
  /\ audit \in [Targets -> AuditRecord]
  /\ poll \in [Targets -> PollState]
  /\ capture \in [Targets -> CaptureState]
  /\ DOMAIN places = Targets

(***************************************************************************)
(* While the server runs, the time left to the poll's deadline never       *)
(* exceeds what the binding's age leaves of the window.                    *)
(***************************************************************************)
Anchored == att = "up" => \A t \in conf.azure : age[t] + stale[t] <= Window

NodeInv == /\ Types
           /\ \A t \in Targets : Just(audit[t])
           /\ Anchored

-----------------------------------------------------------------------------
(* Numbers.                                                                *)
LEMMA Numbers ==
  /\ Interval \in Nat \ {0} /\ Deployment \in Nat \ {0} /\ Limit \in Nat \ {0}
  /\ Window \in Nat \ {0} /\ MaxAge = Window + 1 /\ Window = 2 * Deployment
  /\ \A c \in Configs : c.azure \subseteq Targets
BY NodeAssumption DEF Settings, Window, MaxAge

(* What a read may end with.                                               *)
LEMMA ClassesAre == Classes = {"transient", "definitive"}
BY DEF Classes, Failures, classify_verification_error, status_is_transient

(* A read takes a number of pages, and ends in a class or in none.         *)
LEMMA OutcomeTypes ==
  ASSUME NEW stage, NEW o \in ReadOutcomes(stage)
  PROVE  o[1] \in Nat /\ o[2] \in Classes \union {"none"}
BY PagesAssumption DEF ReadOutcomes, PagesOf

(* A sweep that has not begun.                                             *)
LEMMA FreshAudits ==
  /\ NewAudit \in AuditRecord /\ Idle \in AuditRecord
  /\ Just(NewAudit) /\ Just(Idle)
<1>1. NewAudit \in AuditRecord
  BY DEF NewAudit, AuditRecord, Stages
<1>2. Idle \in AuditRecord /\ Idle.at = "idle" /\ ~Idle.seen
  BY <1>1 DEF Idle, NewAudit, AuditRecord
<1>3. Just(NewAudit) /\ Just(Idle)
  BY <1>2 DEF Just, NewAudit
<1> QED BY <1>1, <1>2, <1>3

(* The verdict of a sweep whose findings say what it saw.                  *)
LEMMA EndJust ==
  ASSUME NEW a \in AuditRecord, a.seen => a.found, NEW err \in Classes \union {"none"}
  PROVE  End(a, err) \in AuditRecord /\ Just(End(a, err))
<1> DEFINE v == IF err = "none" THEN into_result(a) ELSE findings_outrank(a, err)
<1>1. v \in Verdicts /\ (v \in {"pass", "transient"} => ~a.found)
  BY ClassesAre DEF into_result, findings_outrank, Verdicts
<1>2. End(a, err) = [a EXCEPT !.at = v]
  BY DEF End
<1> HIDE DEF v
<1>3. /\ End(a, err) \in AuditRecord
      /\ End(a, err).at = v /\ End(a, err).found = a.found /\ End(a, err).seen = a.seen
  BY <1>1, <1>2 DEF AuditRecord
<1> QED BY <1>1, <1>3 DEF Just

(* A sweep that goes on to its next read.                                  *)
LEMMA GoesOn ==
  ASSUME NEW a \in AuditRecord, a.seen => a.found, NEW stage \in Stages
  PROVE  /\ [a EXCEPT !.at = stage] \in AuditRecord
         /\ Just([a EXCEPT !.at = stage])
<1> DEFINE b == [a EXCEPT !.at = stage]
<1>1. b \in AuditRecord /\ b.at = stage /\ b.seen = a.seen /\ b.found = a.found
  BY DEF AuditRecord
<1>2. stage \notin {"pass", "transient"}
  BY DEF Stages
<1> QED BY <1>1, <1>2 DEF Just

(* A sweep that noted what it was shown, as a finding and as seen.         *)
LEMMA Noted ==
  ASSUME NEW a \in AuditRecord, a.seen => a.found, NEW shown \in BOOLEAN
  PROVE  LET b == [a EXCEPT !.found = @ \/ shown, !.seen = @ \/ shown] IN
         /\ b \in AuditRecord /\ (b.seen => b.found) /\ b.at = a.at
         /\ b.pend = a.pend
<1> DEFINE b == [a EXCEPT !.found = a.found \/ shown, !.seen = a.seen \/ shown]
<1>1. b \in AuditRecord
  BY DEF AuditRecord
<1>2. /\ b.found = (a.found \/ shown) /\ b.seen = (a.seen \/ shown)
      /\ b.at = a.at /\ b.pend = a.pend
  BY DEF AuditRecord
<1> QED BY <1>1, <1>2

-----------------------------------------------------------------------------
(* The account read.                                                       *)
LEMMA AccountRead ==
  ASSUME NEW a \in AuditRecord, Just(a), NEW places1, NEW kind,
         NEW f \in Classes \union {"none"}
  PROVE  /\ fetch_account(a, places1, kind, f) \in AuditRecord
         /\ Just(fetch_account(a, places1, kind, f))
<1> DEFINE b == [a EXCEPT !.found = TRUE, !.seen = TRUE]
<1>1. b \in AuditRecord /\ (b.seen => b.found)
  BY DEF AuditRecord
<1>2. CASE f # "none"
  BY <1>2, EndJust DEF fetch_account, Just
<1>3. CASE f = "none" /\ ~assert_account_binding(places1)
  <2>1. fetch_account(a, places1, kind, f) = End(b, "none")
    BY <1>3 DEF fetch_account
  <2> HIDE DEF b
  <2> QED BY <1>1, <2>1, EndJust
<1>4. CASE f = "none" /\ assert_account_binding(places1)
  <2>1. PICK stage \in Stages : fetch_account(a, places1, kind, f) = [a EXCEPT !.at = stage]
    BY <1>4 DEF fetch_account, Stages
  <2> QED BY <2>1, GoesOn DEF Just
<1> QED BY <1>2, <1>3, <1>4

(* The project list.                                                       *)
LEMMA ProjectsRead ==
  ASSUME NEW a \in AuditRecord, Just(a), NEW hasProject, NEW n \in Nat,
         NEW f \in Classes \union {"none"}
  PROVE  /\ fetch_projects(a, hasProject, n, f) \in AuditRecord
         /\ Just(fetch_projects(a, hasProject, n, f))
<1> DEFINE p == hasProject /\ n >= 1
           b == [a EXCEPT !.pend = f, !.project = p]
<1>1. p \in BOOLEAN
  OBVIOUS
<1>2. fetch_projects(a, hasProject, n, f) = [b EXCEPT !.at = "diag"]
  BY DEF fetch_projects, AuditRecord
<1> HIDE DEF p
<1>3. b \in AuditRecord /\ b.seen = a.seen /\ b.found = a.found
  BY <1>1 DEF AuditRecord
<1> HIDE DEF b
<1> QED BY <1>2, <1>3, GoesOn DEF Just, Stages

(* Leaving the capture surfaces.                                           *)
LEMMA SurfacesLeft ==
  ASSUME NEW a \in AuditRecord, a.seen => a.found
  PROVE  LeaveSurfaces(a) \in AuditRecord /\ Just(LeaveSurfaces(a))
<1>1. a.pend \in Classes \union {"none"}
  BY DEF AuditRecord
<1> QED BY <1>1, GoesOn, EndJust DEF LeaveSurfaces, Stages

(* One read of one scope.                                                  *)
LEMMA ScopeRead ==
  ASSUME NEW a \in AuditRecord, Just(a), a.at \in Surfaces, NEW places1, NEW kind,
         NEW n \in Nat, NEW f \in Classes \union {"none"}
  PROVE  /\ audit_scope(a, places1, kind, n, f) \in AuditRecord
         /\ Just(audit_scope(a, places1, kind, n, f))
<1> DEFINE shown == IF a.at \in Collections
                    THEN ~assert_no_capture_children(places1, a.at, n)
                    ELSE f = "none" /\ ~assert_no_diagnostic_capture(places1, a.at)
           b == [a EXCEPT !.found = @ \/ shown, !.seen = @ \/ shown]
           last == \/ a.at = "diag" /\ kind # "AIServices"
                   \/ a.at = "hosts" /\ ~a.project
                   \/ a.at = "phosts"
           next == [b EXCEPT !.at = NextSurface(a.at)]
<1>1. shown \in BOOLEAN
  BY DEF assert_no_capture_children
<1>2. audit_scope(a, places1, kind, n, f) =
         IF f # "none" THEN End(b, f) ELSE IF last THEN LeaveSurfaces(b) ELSE next
  BY DEF audit_scope
<1>3. b \in AuditRecord /\ (b.seen => b.found)
  <2> HIDE DEF shown
  <2> QED BY <1>1, Noted DEF Just
<1> HIDE DEF b
<1>4. CASE f # "none"
  BY <1>2, <1>3, <1>4, EndJust
<1>5. CASE f = "none" /\ last
  <2> HIDE DEF last
  <2> QED BY <1>2, <1>3, <1>5, SurfacesLeft
<1>6. CASE f = "none" /\ ~last
  <2>1. NextSurface(a.at) \in Stages
    BY <1>6 DEF NextSurface, Surfaces, Stages
  <2> HIDE DEF last
  <2> QED BY <1>2, <1>3, <1>6, <2>1, GoesOn
<1> QED BY <1>4, <1>5, <1>6

(* The deployments.                                                        *)
LEMMA DeploymentsRead ==
  ASSUME NEW a \in AuditRecord, Just(a), NEW places1, NEW provider, NEW n \in Nat,
         NEW f \in Classes \union {"none"}
  PROVE  /\ fetch_deployments(a, places1, provider, n, f) \in AuditRecord
         /\ Just(fetch_deployments(a, places1, provider, n, f))
<1> DEFINE wrong == ~assert_deployment_bindings(places1, n)
           bnd == f = "none" /\ ~wrong
           b == [a EXCEPT !.found = @ \/ wrong, !.seen = @ \/ wrong, !.pages = n,
                          !.bound = bnd]
           w == [a EXCEPT !.found = @ \/ wrong, !.seen = @ \/ wrong]
           p == [b EXCEPT !.at = "policies", !.pend = f]
<1>1. wrong \in BOOLEAN /\ bnd \in BOOLEAN
  BY DEF assert_deployment_bindings
<1>2. fetch_deployments(a, places1, provider, n, f) =
         IF provider = "openai" THEN p ELSE End(b, f)
  BY DEF fetch_deployments
<1> HIDE DEF wrong, bnd
<1>3. w \in AuditRecord /\ (w.seen => w.found)
  BY <1>1, Noted DEF Just
<1>4. b = [w EXCEPT !.pages = n, !.bound = bnd]
  BY DEF AuditRecord
<1> HIDE DEF w, b
<1>5. b \in AuditRecord /\ (b.seen => b.found)
  BY <1>1, <1>3, <1>4 DEF AuditRecord
<1>6. p \in AuditRecord /\ Just(p)
  <2> DEFINE q == [b EXCEPT !.pend = f]
  <2>1. q \in AuditRecord /\ q.seen = b.seen /\ q.found = b.found
    BY <1>5 DEF AuditRecord
  <2>2. p = [q EXCEPT !.at = "policies"]
    BY <1>5 DEF AuditRecord
  <2> HIDE DEF q, p
  <2> QED BY <1>5, <2>1, <2>2, GoesOn DEF Stages
<1> HIDE DEF p
<1>7. End(b, f) \in AuditRecord /\ Just(End(b, f))
  BY <1>5, EndJust
<1> QED BY <1>2, <1>6, <1>7

(* The streaming check.                                                    *)
LEMMA PoliciesRead ==
  ASSUME NEW a \in AuditRecord, Just(a), NEW places1, NEW n \in Nat,
         NEW f \in Classes \union {"none"}
  PROVE  /\ audit_async_filter_configuration(a, places1, n, f) \in AuditRecord
         /\ Just(audit_async_filter_configuration(a, places1, n, f))
<1> DEFINE bad == ~assess_streaming_configuration(places1, a.pages, n)
           b == [a EXCEPT !.found = @ \/ bad, !.seen = @ \/ bad]
           err == IF a.pend # "none" THEN a.pend ELSE f
<1>1. bad \in BOOLEAN
  BY DEF assess_streaming_configuration
<1>2. err \in Classes \union {"none"}
  BY DEF AuditRecord
<1>3. audit_async_filter_configuration(a, places1, n, f) = End(b, err)
  BY DEF audit_async_filter_configuration
<1> HIDE DEF bad, err
<1>4. b \in AuditRecord /\ (b.seen => b.found)
  BY <1>1, Noted DEF Just
<1> HIDE DEF b
<1> QED BY <1>2, <1>3, <1>4, EndJust

(* Every read of a sweep keeps what it records of what it saw.             *)
LEMMA SweepJust ==
  ASSUME NEW a \in AuditRecord, Just(a), a.at \notin Verdicts \union {"idle"},
         NEW acct, NEW n \in Nat, NEW f \in Classes \union {"none"}
  PROVE  sweep(a, acct, n, f) \in AuditRecord /\ Just(sweep(a, acct, n, f))
<1>1. a.at \in Stages
  BY DEF AuditRecord
<1>2. CASE a.at = "account"
  BY <1>2, AccountRead DEF sweep
<1>3. CASE a.at = "projects"
  BY <1>3, ProjectsRead DEF sweep
<1>4. CASE a.at = "deployments"
  BY <1>4, DeploymentsRead DEF sweep
<1>5. CASE a.at = "policies"
  BY <1>5, PoliciesRead DEF sweep
<1>6. CASE a.at \in Surfaces
  <2>1. sweep(a, acct, n, f) = audit_scope(a, acct.places, acct.kind, n, f)
    BY <1>6 DEF sweep, Surfaces
  <2> QED BY <1>6, <2>1, ScopeRead
<1> QED BY <1>1, <1>2, <1>3, <1>4, <1>5, <1>6 DEF Surfaces

-----------------------------------------------------------------------------
(* No binding is older than the window at the start.                       *)
LEMMA InitInv == Init => NodeInv
<1> SUFFICES ASSUME Init PROVE NodeInv
  OBVIOUS
<1>1. TypeOK
  <2>1. /\ age \in [Targets -> 0 .. MaxAge] /\ stale \in [Targets -> 0 .. Window]
        /\ 0 \in 0 .. Deployment /\ 0 \in 0 .. Limit /\ 0 \in 0 .. Interval
    BY Numbers DEF Init
  <2>2. \A t \in Targets : places[t] \subseteq Sinks[t]
    BY DEF Init
  <2> QED BY <2>1, <2>2 DEF Init, TypeOK, Phases
<1>2. /\ audit \in [Targets -> AuditRecord] /\ \A t \in Targets : Just(audit[t])
      /\ DOMAIN places = Targets
  BY FreshAudits DEF Init
<1>3. poll \in [Targets -> PollState] /\ capture \in [Targets -> CaptureState]
  BY Numbers DEF Init, PollState, CaptureState
<1>4. Anchored
  BY DEF Init, Anchored
<1> QED BY <1>1, <1>2, <1>3, <1>4 DEF NodeInv, Types

(* The loops that a server starts or leaves with.                          *)
LEMMA NoLoopsTypes ==
  ASSUME NoLoops
  PROVE  /\ poll' \in [Targets -> PollState] /\ capture' \in [Targets -> CaptureState]
         /\ stale' \in [Targets -> 0 .. Window]
BY Numbers DEF NoLoops, PollState, CaptureState

(* The fields that TypeOK reads of the loops.                              *)
LEMMA LoopTypes ==
  ASSUME poll \in [Targets -> PollState], capture \in [Targets -> CaptureState]
  PROVE  /\ \A t \in Targets : poll[t].wait \in 0 .. Deployment /\ poll[t].fails \in 0 .. Limit
         /\ \A t \in Targets :
              capture[t].wait \in 0 .. Interval /\ capture[t].fails \in 0 .. Limit
BY DEF PollState, CaptureState

(***************************************************************************)
(* What a step has to keep: the types variable by variable, the findings,  *)
(* and the anchor of the polls' deadlines.                                 *)
(***************************************************************************)
LEMMA KeepInv ==
  ASSUME conf' \in Configs, phase' \in Phases, proc' \in [Procs -> {"off", "up", "dead"}],
         att' \in {"off", "verify", "refresh", "up", "dead"}, passed' \subseteq Targets,
         age' \in [Targets -> 0 .. MaxAge], stale' \in [Targets -> 0 .. Window],
         poll' \in [Targets -> PollState], capture' \in [Targets -> CaptureState],
         audit' \in [Targets -> AuditRecord], \A t \in Targets : Just(audit'[t]),
         DOMAIN places' = Targets, \A t \in Targets : places'[t] \subseteq Sinks[t],
         calm' \in BOOLEAN, Anchored'
  PROVE  NodeInv'
<1>1. /\ \A t \in Targets : poll'[t].wait \in 0 .. Deployment /\ poll'[t].fails \in 0 .. Limit
      /\ \A t \in Targets :
           capture'[t].wait \in 0 .. Interval /\ capture'[t].fails \in 0 .. Limit
  BY DEF PollState, CaptureState
<1> QED BY <1>1 DEF NodeInv, Types, TypeOK

(* The container's end.                                                    *)
LEMMA ExitInv ==
  ASSUME NodeInv, Exit
  PROVE  NodeInv'
<1>1. Anchored'
  BY DEF Exit, Anchored
<1>2. age' \in [Targets -> 0 .. MaxAge]
  BY Numbers DEF Exit
<1> QED BY <1>1, <1>2, NoLoopsTypes, FreshAudits, KeepInv
        DEF Exit, NodeInv, Types, TypeOK, Phases

(* The server's end.                                                       *)
LEMMA DiesInv ==
  ASSUME NodeInv, AttestdDies, UNCHANGED <<conf, phase, proc, places, calm>>
  PROVE  NodeInv'
<1>1. Anchored'
  BY DEF AttestdDies, Anchored
<1>2. age' \in [Targets -> 0 .. MaxAge]
  BY Numbers DEF AttestdDies
<1> QED BY <1>1, <1>2, NoLoopsTypes, FreshAudits, KeepInv
        DEF AttestdDies, NodeInv, Types, TypeOK

(***************************************************************************)
(* The entrypoint's own steps, which leave the server and its loops alone. *)
(***************************************************************************)
LEMMA EntrypointInv ==
  ASSUME NodeInv, Entrypoint \/ Ready
  PROVE  NodeInv'
<1> USE DEF NodeInv, Types, TypeOK, Anchored, Phases
<1>1. CASE Restart
  BY <1>1, KeepInv DEF Restart
<1>2. CASE GatePassed
  BY <1>2, KeepInv DEF GatePassed
<1>3. CASE MintCertificate
  BY <1>3, KeepInv DEF MintCertificate
<1>4. CASE StartProxies
  BY <1>4, KeepInv DEF StartProxies
<1>5. CASE BedrockListens
  BY <1>5, KeepInv DEF BedrockListens
<1>6. CASE BedrockAbsent
  BY <1>6, ExitInv DEF BedrockAbsent
<1>7. CASE StartAttestd
  <2>1. Anchored'
    BY <1>7 DEF StartAttestd, env_selects_azure
  <2> QED BY <1>7, <2>1, KeepInv DEF StartAttestd
<1>8. CASE NeverReady
  BY <1>8, ExitInv DEF NeverReady
<1>9. CASE StartEnvoy
  BY <1>9, KeepInv DEF StartEnvoy
<1>10. CASE Supervise
  BY <1>10, KeepInv DEF Supervise
<1>11. CASE Reap
  BY <1>11, ExitInv DEF Reap
<1>12. CASE Ready
  BY <1>12, KeepInv DEF Ready
<1> QED BY <1>1, <1>2, <1>3, <1>4, <1>5, <1>6, <1>7, <1>8, <1>9, <1>10, <1>11, <1>12
        DEF Entrypoint

(* What the operator and the outside world do.                             *)
LEMMA WorldInv ==
  ASSUME NodeInv, World
  PROVE  NodeInv'
<1> USE DEF NodeInv, Types, TypeOK, Anchored
<1>1. CASE MintFailed \/ Terminate
  BY <1>1, ExitInv DEF MintFailed, Terminate
<1>2. CASE AttestdCrash
  BY <1>2, DiesInv DEF AttestdCrash
<1>3. CASE Settle
  BY <1>3, KeepInv DEF Settle
<1>4. ASSUME NEW p \in Procs, Crash(p) PROVE NodeInv'
  BY <1>4, KeepInv DEF Crash
<1>5. ASSUME NEW t \in Targets, Detach(t) PROVE NodeInv'
  BY <1>5, KeepInv DEF Detach
<1>6. ASSUME NEW t \in Targets, NEW v \in Sinks[t], Attach(t, v) PROVE NodeInv'
  BY <1>6, KeepInv DEF Attach
<1> QED BY <1>1, <1>2, <1>3, <1>4, <1>5, <1>6 DEF World

(* A countdown stays within its range.                                     *)
LEMMA DownTypes ==
  ASSUME NEW m \in Nat, NEW n \in 0 .. m
  PROVE  Down(n) \in 0 .. m
BY DEF Down

(***************************************************************************)
(* The boot of the server: its verification, the refresh of bindings that  *)
(* expired meanwhile, and the start of the loops, whose deadlines it sets. *)
(***************************************************************************)
LEMMA ServerInv ==
  ASSUME NodeInv, Server
  PROVE  NodeInv'
<1> USE DEF NodeInv, Types, TypeOK
<1>1. CASE VerifyDone
  <2>1. Anchored' /\ stale' \in [Targets -> 0 .. Window]
    BY <1>1, Numbers DEF VerifyDone, Anchored
  <2> QED BY <1>1, <2>1, KeepInv DEF VerifyDone
<1>2. CASE SpawnLoops
  <2>1. \A t \in Targets : age[t] \in 0 .. MaxAge
    OBVIOUS
  <2>2. \A t \in Targets : stale'[t] = IF Fresh(t) THEN Window - age[t] ELSE 0
    BY <1>2 DEF SpawnLoops
  <2>3. stale' \in [Targets -> 0 .. Window]
    BY <1>2, <2>1, Numbers DEF SpawnLoops, Fresh
  <2>4. Anchored'
    <3> SUFFICES ASSUME NEW t \in conf.azure PROVE age[t] + stale'[t] <= Window
      BY <1>2 DEF SpawnLoops, Anchored
    <3>1. t \in Targets /\ Fresh(t)
      BY <1>2, Numbers DEF SpawnLoops
    <3> QED BY <2>1, <2>2, <3>1, Numbers
  <2>5. poll' \in [Targets -> PollState]
    <3> SUFFICES ASSUME NEW t \in Targets
                 PROVE  (IF age[t] >= Deployment THEN 0 ELSE Deployment - age[t]) \in
                           0 .. Deployment
      BY <1>2, Numbers DEF SpawnLoops, PollState
    <3> QED BY <2>1, Numbers
  <2>6. capture' \in [Targets -> CaptureState]
    BY <1>2, Numbers DEF SpawnLoops, CaptureState
  <2> QED BY <1>2, <2>3, <2>4, <2>5, <2>6, KeepInv DEF SpawnLoops
<1>3. CASE RefreshTimedOut
  BY <1>3, DiesInv DEF RefreshTimedOut
<1> QED BY <1>1, <1>2, <1>3 DEF Server

(* Time passes: only before a deadline that is due, so age and time left   *)
(* move against each other.                                                *)
LEMMA TickInv ==
  ASSUME NodeInv, Tick
  PROVE  NodeInv'
<1> USE DEF NodeInv, Types, TypeOK
<1>1. \A t \in Targets : age[t] \in 0 .. MaxAge /\ stale[t] \in 0 .. Window
  OBVIOUS
<1>2. age' \in [Targets -> 0 .. MaxAge]
  BY <1>1, Numbers DEF Tick
<1>3. stale' \in [Targets -> 0 .. Window]
  BY <1>1, Numbers, DownTypes DEF Tick
<1>4. poll' \in [Targets -> PollState]
  <2> SUFFICES ASSUME NEW t \in Targets
               PROVE  [poll[t] EXCEPT !.wait = Down(poll[t].wait)] \in PollState
    BY DEF Tick
  <2>1. poll[t] \in PollState /\ Down(poll[t].wait) \in 0 .. Deployment
    BY Numbers, DownTypes DEF PollState
  <2> QED BY <2>1 DEF PollState
<1>5. capture' \in [Targets -> CaptureState]
  <2> SUFFICES ASSUME NEW t \in Targets
               PROVE  [capture[t] EXCEPT !.wait = Down(capture[t].wait)] \in CaptureState
    BY DEF Tick
  <2>1. capture[t] \in CaptureState /\ Down(capture[t].wait) \in 0 .. Interval
    BY Numbers, DownTypes DEF CaptureState
  <2> QED BY <2>1 DEF CaptureState
<1>6. Anchored'
  <2> SUFFICES ASSUME att = "up", NEW t \in conf.azure
               PROVE  age'[t] + stale'[t] <= Window
    BY DEF Tick, Anchored
  <2>1. t \in Targets /\ age[t] + stale[t] <= Window /\ stale[t] # 0
    BY Numbers DEF Anchored, Tick, Due
  <2>2. stale'[t] = stale[t] - 1 /\ (age'[t] = age[t] + 1 \/ age'[t] = age[t])
    BY <2>1 DEF Tick, Down
  <2> QED BY <1>1, <2>1, <2>2, Numbers
<1> QED BY <1>2, <1>3, <1>4, <1>5, <1>6, KeepInv DEF Tick

-----------------------------------------------------------------------------
(* The counter of a loop after a result.                                   *)
LEMMA CountTypes ==
  ASSUME NEW fails \in 0 .. Limit, NEW result
  PROVE  record_result(fails, result).fails \in 0 .. Limit
BY Numbers DEF record_result

(* A step that changes the audit of one account.                           *)
LEMMA OneAudit ==
  ASSUME NodeInv, NEW t \in Targets, NEW a \in AuditRecord, Just(a),
         audit' = [audit EXCEPT ![t] = a]
  PROVE  audit' \in [Targets -> AuditRecord] /\ \A u \in Targets : Just(audit'[u])
BY DEF NodeInv, Types

(* The audits: of the boot, of the periodic loop, and the refresh.         *)
LEMMA AuditsInv ==
  ASSUME NodeInv, NEW t \in Targets, Audits(t)
  PROVE  NodeInv'
<1> USE DEF NodeInv, Types, TypeOK
<1>1. CASE StartBootAudit(t)
  BY <1>1, FreshAudits, OneAudit, KeepInv DEF StartBootAudit, Anchored
<1>2. CASE SweepRead(t)
  <2>1. PICK o \in ReadOutcomes(audit[t].at) :
           LET b == sweep(audit[t], Acct(t), o[1], o[2]) IN
           /\ audit' = [audit EXCEPT ![t] = b]
           /\ age' = [age EXCEPT ![t] = IF b.bound /\ ~audit[t].bound /\ att = "verify"
                                         THEN 0 ELSE @]
    BY <1>2 DEF SweepRead
  <2> DEFINE b == sweep(audit[t], Acct(t), o[1], o[2])
  <2>2. b \in AuditRecord /\ Just(b)
    BY <1>2, OutcomeTypes, SweepJust DEF SweepRead
  <2>3. audit' = [audit EXCEPT ![t] = b]
    BY <2>1
  <2>4. age' \in [Targets -> 0 .. MaxAge] /\ (att = "up" => age' = age)
    <3>1. PICK c \in BOOLEAN : age' = [age EXCEPT ![t] = IF c /\ att = "verify" THEN 0 ELSE @]
      <4> DEFINE c == b.bound /\ ~audit[t].bound
      <4>1. c \in BOOLEAN /\ age' = [age EXCEPT ![t] = IF c /\ att = "verify" THEN 0 ELSE @]
        BY <2>1
      <4> HIDE DEF c
      <4> QED BY <4>1
    <3> QED BY <3>1, Numbers
  <2> HIDE DEF b
  <2>5. Anchored'
    BY <1>2, <2>4 DEF SweepRead, Anchored
  <2> QED BY <1>2, <2>2, <2>3, <2>4, <2>5, OneAudit, KeepInv DEF SweepRead
<1>3. CASE BootAuditPassed(t)
  BY <1>3, FreshAudits, OneAudit, KeepInv DEF BootAuditPassed, Anchored
<1>4. CASE GateFailed(t)
  BY <1>4, ExitInv DEF GateFailed
<1>5. CASE AttestdVerifyFailed(t)
  BY <1>5, DiesInv DEF AttestdVerifyFailed
<1>6. CASE RefreshBinding(t)
  <2>1. CASE AttestdDies
    BY <1>6, <2>1, DiesInv DEF RefreshBinding
  <2>2. CASE ~AttestdDies
    <3>1. /\ age' = [age EXCEPT ![t] = 0]
          /\ UNCHANGED <<att, audit, passed, stale, poll, capture>>
      BY <1>6, <2>2 DEF RefreshBinding
    <3>2. age' \in [Targets -> 0 .. MaxAge] /\ Anchored'
      BY <1>6, <3>1, Numbers DEF RefreshBinding, Anchored
    <3> QED BY <1>6, <3>1, <3>2, KeepInv DEF RefreshBinding
  <2> QED BY <2>1, <2>2
<1>7. CASE CaptureTick(t)
  <2> DEFINE k == [capture[t] EXCEPT !.wait = Interval]
  <2>1. capture' = [capture EXCEPT ![t] = k]
    BY <1>7 DEF CaptureTick
  <2>2. k \in CaptureState
    BY Numbers DEF CaptureState
  <2> HIDE DEF k
  <2>3. capture' \in [Targets -> CaptureState]
    BY <2>1, <2>2
  <2> QED BY <1>7, <2>3, FreshAudits, OneAudit, KeepInv DEF CaptureTick, Anchored
<1>8. CASE CaptureEnd(t)
  <2>1. CASE AttestdDies
    BY <1>8, <2>1, DiesInv DEF CaptureEnd
  <2>2. CASE ~AttestdDies
    <3> DEFINE n == record_result(capture[t].fails, audit[t].at).fails
               k == [capture[t] EXCEPT !.fails = n]
    <3>1. /\ capture' = [capture EXCEPT ![t] = k]
          /\ audit' = [audit EXCEPT ![t] = Idle]
          /\ UNCHANGED <<att, passed, age, stale, poll>>
      BY <1>8, <2>2 DEF CaptureEnd
    <3>2. n \in 0 .. Limit
      BY CountTypes DEF CaptureState
    <3> HIDE DEF n
    <3>3. k \in CaptureState
      BY <3>2 DEF CaptureState
    <3> HIDE DEF k
    <3>4. capture' \in [Targets -> CaptureState]
      BY <3>1, <3>3
    <3> QED BY <1>8, <3>1, <3>4, FreshAudits, OneAudit, KeepInv DEF CaptureEnd, Anchored
  <2> QED BY <2>1, <2>2
<1> QED BY <1>1, <1>2, <1>3, <1>4, <1>5, <1>6, <1>7, <1>8 DEF Audits

(* The polls: only a good answer moves the deadline, together with the age. *)
LEMMA PollsInv ==
  ASSUME NodeInv, NEW t \in Targets, Polls(t)
  PROVE  NodeInv'
<1> USE DEF NodeInv, Types, TypeOK
<1>1. CASE PollTick(t)
  <2> DEFINE p == [poll[t] EXCEPT !.busy = TRUE, !.wait = Deployment]
  <2>1. poll' = [poll EXCEPT ![t] = p]
    BY <1>1 DEF PollTick
  <2>2. poll[t] \in PollState /\ Deployment \in 0 .. Deployment
    BY Numbers
  <2>3. p \in PollState
    BY <2>2 DEF PollState
  <2> HIDE DEF p
  <2>4. poll' \in [Targets -> PollState]
    BY <2>1, <2>3
  <2> QED BY <1>1, <2>4, KeepInv DEF PollTick, Anchored
<1>2. CASE PollEnd(t)
  <2>1. CASE AttestdDies
    BY <1>2, <2>1, DiesInv DEF PollEnd
  <2>2. CASE ~AttestdDies
    <3>1. PICK o \in PollOutcomes :
             LET result == verify_deployment_bindings(Acct(t), o)
                 r == record_result(poll[t].fails, result) IN
             /\ poll' = [poll EXCEPT ![t].busy = FALSE, ![t].fails = r.fails]
             /\ age' = [age EXCEPT ![t] = IF result = "pass" THEN 0 ELSE @]
             /\ stale' = [stale EXCEPT ![t] = IF result = "pass" THEN Window ELSE @]
             /\ UNCHANGED <<att, audit, passed, capture>>
      BY <1>2, <2>2 DEF PollEnd
    <3> DEFINE result == verify_deployment_bindings(Acct(t), o)
               good == result = "pass"
               n == record_result(poll[t].fails, result).fails
               p == [poll[t] EXCEPT !.busy = FALSE, !.fails = n]
    <3>2. /\ poll' = [poll EXCEPT ![t] = p]
          /\ age' = [age EXCEPT ![t] = IF good THEN 0 ELSE @]
          /\ stale' = [stale EXCEPT ![t] = IF good THEN Window ELSE @]
          /\ UNCHANGED <<att, audit, passed, capture>>
      BY <3>1
    <3>3. n \in 0 .. Limit
      BY CountTypes DEF PollState
    <3> HIDE DEF n, good
    <3>4. p \in PollState
      BY <3>3 DEF PollState
    <3> HIDE DEF p
    <3>5. poll' \in [Targets -> PollState]
      BY <3>2, <3>4
    <3>6. age' \in [Targets -> 0 .. MaxAge] /\ stale' \in [Targets -> 0 .. Window]
      BY <3>2, Numbers
    <3>7. Anchored'
      <4> SUFFICES ASSUME att = "up", NEW u \in conf.azure
                   PROVE  age'[u] + stale'[u] <= Window
        BY <1>2, <3>2 DEF PollEnd, Anchored
      <4>1. u \in Targets /\ age[u] + stale[u] <= Window
        BY Numbers DEF Anchored
      <4> QED BY <3>2, <4>1, Numbers
    <3> QED BY <1>2, <3>2, <3>5, <3>6, <3>7, KeepInv DEF PollEnd
  <2> QED BY <2>1, <2>2
<1>3. CASE PollStale(t)
  BY <1>3, DiesInv DEF PollStale
<1> QED BY <1>1, <1>2, <1>3 DEF Polls

-----------------------------------------------------------------------------
(* Every reachable state keeps the invariant.                              *)
THEOREM Invariance == Spec => []NodeInv
<1>1. NodeInv /\ [Next]_vars => NodeInv'
  <2> SUFFICES ASSUME NodeInv, [Next]_vars PROVE NodeInv'
    OBVIOUS
  <2>1. CASE UNCHANGED vars
    BY <2>1, KeepInv DEF vars, NodeInv, Types, TypeOK, Anchored
  <2> QED BY <2>1, EntrypointInv, ServerInv, TickInv, WorldInv, AuditsInv, PollsInv DEF Next
<1> QED BY <1>1, InitInv, PTL DEF Spec

(* Every variable keeps its type.                                          *)
THEOREM TypesKept == Spec => []TypeOK
BY Invariance, PTL DEF NodeInv, Types

(***************************************************************************)
(* No audit of an Azure account that saw a violation, on whatever page of  *)
(* whatever collection, ends as a pass or as a tolerable hiccup, whichever *)
(* later read of it failed.                                                *)
(***************************************************************************)
THEOREM VerdictsJust == Spec => []VerdictJust
<1>1. NodeInv => VerdictJust
  BY DEF NodeInv, VerdictJust, Just
<1> QED BY <1>1, Invariance, PTL

(***************************************************************************)
(* While the server runs, Envoy serves on no binding that was last seen    *)
(* good more than two poll intervals ago.                                  *)
(***************************************************************************)
THEOREM BindingsFresh == Spec => []FreshWhileUp
<1>1. NodeInv => FreshWhileUp
  <2> SUFFICES ASSUME NodeInv, att = "up", NEW t \in conf.azure PROVE age[t] <= Window
    BY DEF FreshWhileUp
  <2>1. t \in Targets
    BY Numbers DEF NodeInv, Types, TypeOK
  <2>2. age[t] \in 0 .. MaxAge /\ stale[t] \in 0 .. Window /\ age[t] + stale[t] <= Window
    BY <2>1 DEF NodeInv, Types, TypeOK, Anchored
  <2> QED BY <2>2, Numbers
<1> QED BY <1>1, Invariance, PTL

-----------------------------------------------------------------------------
(* The wizard of Onboarding.                                               *)

(* The steps of the wizard, and how one may come out.                      *)
WizardSteps == {"hotkey", "login", "keys", "deploy", "launch", "declare"}

Outcomes == {"done", "outstanding", "stop", "error"}

Logins == [hotkey : Hotkeys, fresh : BOOLEAN, refresh : BOOLEAN]

(* What a configuration can hold; of the Phala keys those that were        *)
(* accepted.                                                               *)
OperatorConfigs ==
  [hotkey : Hotkeys \cup {None}, token : Logins \cup {None},
   keys : {"none", "idle", "invalid", "usable"}, phala : Funded \cup {None},
   terms : BOOLEAN, worker : {"none", "provisional", "registered"}]

Wizards ==
  [step : WizardSteps, who : [yes : BOOLEAN, tty : BOOLEAN], outstanding : BOOLEAN,
   cfg : OperatorConfigs]

(***************************************************************************)
(* What a configuration says of the past is true, whenever it was read:    *)
(* its hotkeys were on the chain, a worker it calls registered has been    *)
(* registered, and keys that it holds have not been removed since.         *)
(***************************************************************************)
Certified(c) ==
  /\ c.hotkey # None => c.hotkey \in ledger.seen
  /\ c.token # None => c.token.hotkey \in ledger.seen
  /\ c.worker = "registered" => ledger.served # {}
  /\ c.keys # "none" => config.keys # "none"

LedgerInv ==
  /\ ledger \in [seen : SUBSET Hotkeys, served : SUBSET Hotkeys, declared : SUBSET Hotkeys]
  /\ chain \subseteq ledger.seen
  /\ ledger.declared \subseteq ledger.seen

(***************************************************************************)
(* What the wizard carries: a configuration that was read once, and, while *)
(* nothing is outstanding, what its earlier steps have seen to.            *)
(***************************************************************************)
WizardInv ==
  wiz # None =>
    /\ wiz \in Wizards
    /\ Certified(wiz.cfg)
    /\ wiz.step = "launch" => wiz.cfg.token # None
    /\ ~wiz.outstanding /\ wiz.step \in {"deploy", "launch", "declare"} =>
         config.keys # "none"
    /\ ~wiz.outstanding /\ wiz.step = "declare" => ledger.served # {}

ClosingInv ==
  closing = "all set" =>
    ledger.declared # {} /\ ledger.served # {} /\ config.keys # "none"

OnboardingInv ==
  /\ config \in OperatorConfigs
  /\ Certified(config)
  /\ LedgerInv
  /\ WizardInv
  /\ ClosingInv

-----------------------------------------------------------------------------
(* Answers and outcomes.                                                   *)

(* A step that is asked about is run, skipped or stopped, and is done only *)
(* if it ran and succeeded.                                                *)
LEMMA StepAnswers ==
  ASSUME NEW who, NEW choice \in StepReplies, NEW ok \in BOOLEAN
  PROVE  /\ AskStep(who, choice) \in StepReplies
         /\ Choice(AskStep(who, choice), ok) \in Outcomes
         /\ Choice(choice, ok) \in Outcomes
         /\ choice # "run" => Choice(choice, ok) # "done"
         /\ Choice(AskStep(who, choice), ok) = "done" => ok
BY DEF AskStep, StepReplies, Choice, Outcomes

(***************************************************************************)
(* Recording an outcome moves the wizard on or ends it; it says "all set"  *)
(* only after a last step that was done and none that was left out.        *)
(***************************************************************************)
LEMMA RecordEffects ==
  ASSUME NEW outcome \in Outcomes, NEW next \in WizardSteps \cup {"end"}, NEW c,
         Record(outcome, next, c)
  PROVE  /\ \/ wiz' = None
            \/ /\ outcome \in {"done", "outstanding"} /\ next # "end"
               /\ wiz' = [wiz EXCEPT !.step = next, !.cfg = c,
                                     !.outstanding = @ \/ outcome = "outstanding"]
         /\ \/ closing' = closing
            \/ closing' # "all set"
            \/ outcome = "done" /\ next = "end" /\ ~wiz.outstanding
<1>1. CASE outcome \in {"done", "outstanding"} /\ next = "end"
  BY <1>1 DEF Record, Closing
<1>2. CASE outcome \in {"done", "outstanding"} /\ next # "end"
  BY <1>2 DEF Record
<1>3. CASE outcome = "stop"
  BY <1>3 DEF Record
<1>4. CASE outcome = "error"
  BY <1>4 DEF Record
<1> QED  BY <1>1, <1>2, <1>3, <1>4 DEF Outcomes

(* The history only grows, and keys are never all removed.                 *)
Onward ==
  /\ ledger.seen \subseteq ledger.seen'
  /\ ledger.declared \subseteq ledger.declared'
  /\ ledger.served \subseteq ledger.served'
  /\ config.keys # "none" => config.keys' # "none"

(* What was certified stays so.                                            *)
LEMMA CertifiedOnward ==
  ASSUME NEW c, Certified(c), Onward
  PROVE  /\ c.hotkey # None => c.hotkey \in ledger.seen'
         /\ c.token # None => c.token.hotkey \in ledger.seen'
         /\ c.worker = "registered" => ledger.served' # {}
         /\ c.keys # "none" => config.keys' # "none"
BY DEF Certified, Onward

(***************************************************************************)
(* A step of the wizard that ends with a recorded outcome, given what a    *)
(* step that is done has seen to.                                          *)
(***************************************************************************)
LEMMA RecordInv ==
  ASSUME OnboardingInv, wiz # None, Onward, config' \in OperatorConfigs, Certified(config)',
         NEW outcome \in Outcomes, NEW next \in (WizardSteps \ {"launch"}) \cup {"end"},
         Record(outcome, next, config'),
         outcome = "done" /\ ~wiz.outstanding =>
           /\ next \in {"deploy", "declare", "end"} => config.keys' # "none"
           /\ next \in {"declare", "end"} => ledger.served' # {}
           /\ next = "end" => ledger.declared' # {}
  PROVE  WizardInv' /\ ClosingInv'
<1> DEFINE moved == [wiz EXCEPT !.step = next, !.cfg = config',
                                !.outstanding = @ \/ outcome = "outstanding"]
<1>w. wiz \in Wizards
  BY DEF OnboardingInv, WizardInv
<1>e. next \in WizardSteps \cup {"end"}
  OBVIOUS
<1>r. /\ wiz' = None \/ (outcome \in {"done", "outstanding"} /\ next # "end" /\ wiz' = moved)
      /\ \/ closing' = closing
         \/ closing' # "all set"
         \/ outcome = "done" /\ next = "end" /\ ~wiz.outstanding
  BY <1>e, RecordEffects
<1>1. ASSUME wiz' = None  PROVE WizardInv'
  BY <1>1 DEF WizardInv
<1>2. ASSUME wiz' = moved, outcome \in {"done", "outstanding"}, next # "end"
      PROVE  WizardInv'
  <2>1. /\ wiz'.step = next /\ wiz'.cfg = config'
        /\ wiz' \in Wizards
        /\ ~wiz'.outstanding => ~wiz.outstanding /\ outcome = "done"
    BY <1>2, <1>w DEF Wizards
  <2>2. Certified(wiz.cfg)'
    BY <2>1 DEF Certified
  <2> QED  BY <2>1, <2>2 DEF WizardInv
<1>3. ClosingInv'
  BY <1>r DEF ClosingInv, OnboardingInv, Onward
<1> QED  BY <1>r, <1>1, <1>2, <1>3

(* A step that leaves the wizard, its closing and the keys alone.          *)
LEMMA AsideInv ==
  ASSUME OnboardingInv, Onward, UNCHANGED <<wiz, closing>>
  PROVE  WizardInv' /\ ClosingInv'
<1>1. ASSUME wiz # None  PROVE Certified(wiz.cfg)'
  <2>1. Certified(wiz.cfg)
    BY <1>1 DEF OnboardingInv, WizardInv
  <2> QED  BY <2>1, CertifiedOnward DEF Certified
<1>2. WizardInv'
  BY <1>1 DEF OnboardingInv, WizardInv, Onward
<1>3. ClosingInv'
  BY DEF OnboardingInv, ClosingInv, Onward
<1> QED  BY <1>2, <1>3
-----------------------------------------------------------------------------
(* The actions.                                                            *)
LEMMA OnboardingInitInv == OnboardingInit => OnboardingInv
<1> SUFFICES ASSUME OnboardingInit  PROVE OnboardingInv
  OBVIOUS
<1>1. config \in OperatorConfigs
  BY DEF OnboardingInit, OperatorConfigs
<1> QED
  BY <1>1 DEF OnboardingInit, OnboardingInv, Certified, LedgerInv, WizardInv, ClosingInv

(* The wizard reads the configuration, which is certified.                 *)
LEMMA StartInv ==
  ASSUME OnboardingInv, NEW yes \in BOOLEAN, NEW tty \in BOOLEAN, Start(yes, tty)
  PROVE  OnboardingInv'
<1>1. /\ wiz' \in Wizards /\ wiz'.cfg = config /\ wiz'.step = "hotkey"
      /\ closing' # "all set"
  BY DEF Start, Wizards, WizardSteps, OnboardingInv
<1>2. UNCHANGED <<config, chain, ledger>>
  BY DEF Start
<1> QED
  BY <1>1, <1>2 DEF OnboardingInv, Certified, LedgerInv, WizardInv, ClosingInv

(* Recording a hotkey: only one the chain lists.                           *)
LEMMA HotkeyRecorded ==
  ASSUME OnboardingInv, NEW h, h \in chain \/ h = config.hotkey, UNCHANGED <<chain, ledger>>,
         config' = [config EXCEPT !.hotkey = h]
  PROVE  Onward /\ config' \in OperatorConfigs /\ Certified(config)' /\ LedgerInv'
<1>1. /\ h \in Hotkeys \cup {None}
      /\ h # None => h \in ledger.seen
  BY DEF OnboardingInv, LedgerInv, OperatorConfigs, Certified
<1>2. /\ config' \in OperatorConfigs
      /\ config'.hotkey = h
      /\ config'.token = config.token /\ config'.worker = config.worker
      /\ config'.keys = config.keys
  BY <1>1 DEF OnboardingInv, OperatorConfigs
<1> QED  BY <1>1, <1>2 DEF OnboardingInv, LedgerInv, Onward, Certified

(* A hotkey that is recorded already has been on the chain.                *)
LEMMA HotkeySkipInv ==
  ASSUME OnboardingInv, HotkeySkip  PROVE OnboardingInv'
<1>1. /\ wiz # None /\ UNCHANGED <<config, chain, ledger>>
      /\ Record("done", "login", config')
  BY DEF HotkeySkip, AtStep
<1>2. Onward /\ config' \in OperatorConfigs /\ Certified(config)' /\ LedgerInv'
  BY <1>1 DEF OnboardingInv, LedgerInv, Onward, Certified
<1>3. WizardInv' /\ ClosingInv'
  BY <1>1, <1>2, RecordInv DEF Outcomes, WizardSteps
<1> QED  BY <1>2, <1>3 DEF OnboardingInv

(* A hotkey that is brought along is recorded only when the chain lists    *)
(* it.                                                                     *)
LEMMA HotkeyByoInv ==
  ASSUME OnboardingInv, NEW ss58 \in Hotkeys \cup {None}, NEW choice \in StepReplies,
         HotkeyByo(TRUE, ss58, choice)
  PROVE  OnboardingInv'
<1> DEFINE r == register_hotkey_byo(PromptLine(wiz.who, ss58), config)
           asked == AskStep(wiz.who, choice)
<1>1. wiz # None /\ UNCHANGED <<chain, ledger>>
  BY DEF HotkeyByo, AtStep
<1>2. /\ r.hotkey \in chain \/ r.hotkey = config.hotkey
      /\ r.ok \in BOOLEAN
  BY DEF register_hotkey_byo
<1>3. CASE PromptLine(wiz.who, ss58) = None
  <2>1. UNCHANGED config /\ Record("outstanding", "login", config')
    BY <1>3 DEF HotkeyByo
  <2>2. Onward /\ config' \in OperatorConfigs /\ Certified(config)' /\ LedgerInv'
    BY <1>1, <2>1 DEF OnboardingInv, LedgerInv, Onward, Certified
  <2>3. WizardInv' /\ ClosingInv'
    BY <1>1, <2>1, <2>2, RecordInv DEF Outcomes, WizardSteps
  <2> QED  BY <2>2, <2>3 DEF OnboardingInv
<1>4. CASE PromptLine(wiz.who, ss58) # None
  <2>1. /\ config' = IF asked = "run" THEN [config EXCEPT !.hotkey = r.hotkey] ELSE config
        /\ Record(Choice(asked, r.ok), "login", config')
    BY <1>4 DEF HotkeyByo
  <2>2. Onward /\ config' \in OperatorConfigs /\ Certified(config)' /\ LedgerInv'
    <3>1. CASE asked = "run"
      BY <1>1, <1>2, <2>1, <3>1, HotkeyRecorded
    <3>2. CASE asked # "run"
      BY <1>1, <2>1, <3>2 DEF OnboardingInv, LedgerInv, Onward, Certified
    <3> QED  BY <3>1, <3>2
  <2>3. Choice(asked, r.ok) \in Outcomes
    BY <1>2, StepAnswers
  <2>4. WizardInv' /\ ClosingInv'
    BY <1>1, <2>1, <2>2, <2>3, RecordInv DEF WizardSteps
  <2> QED  BY <2>2, <2>4 DEF OnboardingInv
<1> QED  BY <1>3, <1>4

(* A hotkey that is registered with help is on the chain when it is        *)
(* recorded.                                                               *)
LEMMA HotkeyAssistedInv ==
  ASSUME OnboardingInv, NEW wallet, NEW choice \in StepReplies, HotkeyAssisted(wallet, choice)
  PROVE  OnboardingInv'
<1>1. wiz # None /\ UNCHANGED <<chain, ledger>>
  BY DEF HotkeyAssisted, AtStep
<1>2. ASSUME NEW outcome \in Outcomes, UNCHANGED config, Record(outcome, "login", config)
      PROVE  OnboardingInv'
  <2>1. Onward /\ config' \in OperatorConfigs /\ Certified(config)' /\ LedgerInv'
    BY <1>1, <1>2 DEF OnboardingInv, LedgerInv, Onward, Certified
  <2>2. WizardInv' /\ ClosingInv'
    BY <1>1, <1>2, <2>1, RecordInv DEF WizardSteps
  <2> QED  BY <2>1, <2>2 DEF OnboardingInv
<1>3. CASE PromptLine(wiz.who, wallet) = None
  BY <1>2, <1>3 DEF HotkeyAssisted, Outcomes
<1>4. CASE PromptLine(wiz.who, wallet) # None /\ AskStep(wiz.who, choice) # "run"
  <2>1. Choice(choice, TRUE) \in Outcomes
    BY StepAnswers
  <2> QED  BY <1>2, <1>4, <2>1 DEF HotkeyAssisted
<1>5. CASE PromptLine(wiz.who, wallet) # None /\ AskStep(wiz.who, choice) = "run"
  <2>1. PICK name \in BOOLEAN, install \in BOOLEAN, local \in Hotkeys \cup {None},
             pasted \in Hotkeys \cup {None} :
          \E b \in IF name THEN Ensured("btcli", wiz.who, install) ELSE {tools.btcli} :
          LET r == register_hotkey_assisted(name, local, pasted, config)
          IN IF Available("btcli", b)
             THEN /\ config' = [config EXCEPT !.hotkey = r.hotkey]
                  /\ Record(Choice("run", r.ok), "login", config')
             ELSE Record("error", "login", config) /\ UNCHANGED config
    BY <1>5 DEF HotkeyAssisted
  <2> DEFINE r == register_hotkey_assisted(name, local, pasted, config)
  <2>0. PICK b : IF Available("btcli", b)
                 THEN /\ config' = [config EXCEPT !.hotkey = r.hotkey]
                      /\ Record(Choice("run", r.ok), "login", config')
                 ELSE Record("error", "login", config) /\ UNCHANGED config
    BY <2>1
  <2>2. /\ r.hotkey \in chain \/ r.hotkey = config.hotkey
        /\ r.ok \in BOOLEAN
    BY DEF register_hotkey_assisted, register_hotkey_byo
  <2>3. CASE Available("btcli", b)
    <3>1. config' = [config EXCEPT !.hotkey = r.hotkey]
          /\ Record(Choice("run", r.ok), "login", config')
      BY <2>0, <2>3
    <3>2. Choice("run", r.ok) \in Outcomes
      BY <2>2, StepAnswers DEF StepReplies
    <3>3. Onward /\ config' \in OperatorConfigs /\ Certified(config)' /\ LedgerInv'
      <4> HIDE DEF r
      <4> QED  BY <1>1, <2>2, <3>1, HotkeyRecorded
    <3>4. WizardInv' /\ ClosingInv'
      <4> HIDE DEF r
      <4> QED  BY <1>1, <3>1, <3>2, <3>3, RecordInv DEF WizardSteps
    <3> QED  BY <3>3, <3>4 DEF OnboardingInv
  <2>4. CASE ~Available("btcli", b)
    BY <1>2, <2>0, <2>4 DEF Outcomes
  <2> QED  BY <2>3, <2>4
<1> QED  BY <1>3, <1>4, <1>5

(* A login: a token of a hotkey that the chain lists, or lists or listed.   *)
LEMMA TokenRecorded ==
  ASSUME OnboardingInv, NEW t \in Logins, t.hotkey \in ledger.seen, UNCHANGED chain,
         ledger.seen' = ledger.seen, config' = [config EXCEPT !.token = t],
         ledger.served \subseteq ledger.served'
  PROVE  config' \in OperatorConfigs /\ Certified(config)'
<1>1. /\ config' \in OperatorConfigs
      /\ config'.token = t
      /\ config'.hotkey = config.hotkey /\ config'.worker = config.worker
      /\ config'.keys = config.keys
  BY DEF OnboardingInv, OperatorConfigs
<1> QED  BY <1>1 DEF OnboardingInv, Certified

(* A login is issued to a hotkey that the chain has listed.                *)
LEMMA LoginInv ==
  ASSUME OnboardingInv, NEW choice \in StepReplies, NEW hs, LoginStep(choice, hs)
  PROVE  OnboardingInv'
<1> DEFINE outcome == IF has_valid_login(config) THEN "done"
                      ELSE IF wiz.who.yes THEN "outstanding"
                      ELSE Choice(AskStep(wiz.who, choice), hs \cap chain # {})
           issued == ~has_valid_login(config) /\ ~wiz.who.yes /\ outcome = "done"
<1>1. /\ wiz # None /\ UNCHANGED <<chain, ledger>>
      /\ Record(outcome, "keys", config')
  BY DEF LoginStep, AtStep
<1>2. outcome \in Outcomes
  BY StepAnswers DEF Outcomes
<1>3. PICK h \in IF issued THEN hs \cap chain ELSE {None},
           refresh \in IF issued THEN BOOLEAN ELSE {TRUE} :
        config' = IF issued THEN [config EXCEPT !.token = Token(h, TRUE, refresh)] ELSE config
  BY DEF LoginStep
<1>4. Onward /\ LedgerInv' /\ config' \in OperatorConfigs /\ Certified(config)'
  <2>1. CASE issued
    <3>1. h \in chain /\ chain \subseteq ledger.seen /\ ledger.seen \subseteq Hotkeys
      BY <1>3, <2>1 DEF OnboardingInv, LedgerInv
    <3>2. Token(h, TRUE, refresh) \in Logins /\ Token(h, TRUE, refresh).hotkey \in ledger.seen
      BY <1>3, <2>1, <3>1 DEF Token, Logins
    <3>3. config' = [config EXCEPT !.token = Token(h, TRUE, refresh)]
      BY <1>3, <2>1
    <3>4. config' \in OperatorConfigs /\ Certified(config)'
      BY <1>1, <3>2, <3>3, TokenRecorded
    <3> QED  BY <1>1, <3>3, <3>4 DEF OnboardingInv, LedgerInv, Onward, OperatorConfigs
  <2>2. CASE ~issued
    BY <1>1, <1>3, <2>2 DEF OnboardingInv, LedgerInv, Onward, Certified
  <2> QED  BY <2>1, <2>2
<1>5. WizardInv' /\ ClosingInv'
  <2> HIDE DEF outcome, issued
  <2> QED  BY <1>1, <1>2, <1>4, RecordInv DEF WizardSteps
<1> QED  BY <1>4, <1>5 DEF OnboardingInv

(* Keys that are set are not removed.                                      *)
LEMMA KeysRecorded ==
  ASSUME OnboardingInv, NEW k \in {"idle", "invalid", "usable"} \cup {config.keys},
         UNCHANGED <<chain, ledger>>, config' = [config EXCEPT !.keys = k]
  PROVE  /\ Onward /\ config' \in OperatorConfigs /\ Certified(config)' /\ LedgerInv'
         /\ config'.keys = k
<1>1. /\ config' \in OperatorConfigs
      /\ config'.keys = k
      /\ config'.hotkey = config.hotkey /\ config'.worker = config.worker
      /\ config'.token = config.token
  BY DEF OnboardingInv, OperatorConfigs
<1> QED  BY <1>1 DEF OnboardingInv, LedgerInv, Onward, Certified

(* After the step that asks for them there are keys, or something is       *)
(* outstanding.                                                            *)
LEMMA KeysInv ==
  ASSUME OnboardingInv, NEW typed, NEW choice \in StepReplies, KeysStep(typed, choice)
  PROVE  OnboardingInv'
<1> DEFINE outcome == IF provider_keys_done(wiz.cfg) THEN "done"
                      ELSE IF PromptLine(wiz.who, typed) = None THEN "outstanding"
                      ELSE Choice(AskStep(wiz.who, choice), TRUE)
           set == ~provider_keys_done(wiz.cfg) /\ outcome = "done"
<1>1. /\ wiz # None /\ UNCHANGED <<chain, ledger>>
      /\ Record(outcome, "deploy", config')
  BY DEF KeysStep, AtStep
<1>2. outcome \in Outcomes
  BY StepAnswers DEF Outcomes
<1>3. PICK k \in IF set THEN Merged(config.keys) ELSE {config.keys} :
        config' = [config EXCEPT !.keys = k]
  BY DEF KeysStep
<1>4. k \in {"idle", "invalid", "usable"} \cup {config.keys} /\ (set => k # "none")
  BY <1>3 DEF Merged
<1>5. /\ Onward /\ config' \in OperatorConfigs /\ Certified(config)' /\ LedgerInv'
      /\ config'.keys = k
  BY <1>1, <1>3, <1>4, KeysRecorded
<1>6. outcome = "done" => config'.keys # "none"
  <2>1. provider_keys_done(wiz.cfg) => config.keys # "none"
    BY <1>1 DEF OnboardingInv, WizardInv, Certified, provider_keys_done
  <2> QED  BY <1>4, <1>5, <2>1 DEF Onward
<1>7. WizardInv' /\ ClosingInv'
  <2> HIDE DEF outcome, set
  <2> QED  BY <1>1, <1>2, <1>5, <1>6, RecordInv DEF WizardSteps
<1> QED  BY <1>5, <1>7 DEF OnboardingInv

(* A worker that is called registered has been.                            *)
LEMMA DeploySkipInv ==
  ASSUME OnboardingInv, NEW choice \in StepReplies, DeploySkip(choice)
  PROVE  OnboardingInv'
<1> DEFINE outcome == IF has_deployed_worker(wiz.cfg) THEN "done"
                      ELSE IF ~provider_keys_done(wiz.cfg) THEN "outstanding"
                      ELSE Choice(AskStep(wiz.who, choice), TRUE)
<1>1. /\ wiz # None /\ wiz.step = "deploy" /\ UNCHANGED <<config, chain, ledger>>
      /\ Record(outcome, "declare", config')
  BY DEF DeploySkip, AtStep
<1>2. outcome \in Outcomes
  BY StepAnswers DEF Outcomes
<1>3. Onward /\ config' \in OperatorConfigs /\ Certified(config)' /\ LedgerInv'
  BY <1>1 DEF OnboardingInv, LedgerInv, Onward, Certified
<1>4. outcome = "done" => has_deployed_worker(wiz.cfg)
  <2>1. \/ has_deployed_worker(wiz.cfg) \/ ~provider_keys_done(wiz.cfg)
        \/ AskStep(wiz.who, choice) # "run"
    BY DEF DeploySkip
  <2>2. CASE AskStep(wiz.who, choice) # "run"
    <3>1. AskStep(wiz.who, choice) \in StepReplies
      BY StepAnswers
    <3>2. Choice(AskStep(wiz.who, choice), TRUE) # "done"
      BY <2>2, <3>1, StepAnswers
    <3> QED  BY <3>2
  <2> QED  BY <2>1, <2>2
<1>5. has_deployed_worker(wiz.cfg) => ledger.served # {}
  BY <1>1 DEF OnboardingInv, WizardInv, Certified, has_deployed_worker
<1>6. ~wiz.outstanding => config.keys # "none"
  BY <1>1 DEF OnboardingInv, WizardInv
<1>7. WizardInv' /\ ClosingInv'
  <2> HIDE DEF outcome
  <2> QED  BY <1>1, <1>2, <1>3, <1>4, <1>5, <1>6, RecordInv DEF WizardSteps
<1> QED  BY <1>3, <1>7 DEF OnboardingInv

(* A Phala key is stored only when it was accepted.                        *)
LEMMA OnlyAcceptedStored ==
  ASSUME NEW c \in OperatorConfigs, NEW flag, NEW env, NEW who, NEW answer
  PROVE  resolve_key(flag, env, c, who, answer).phala \in Funded \cup {None}
BY DEF resolve_key, OperatorConfigs

(* The gates of a deploy store a Phala key only when it was accepted.      *)
LEMMA DeployGatesInv ==
  ASSUME OnboardingInv, NEW env, NEW paste, NEW install \in BOOLEAN, NEW accepts \in BOOLEAN,
         DeployGates(env, install, paste, accepts)
  PROVE  OnboardingInv'
<1> DEFINE r == resolve_key(None, env, config, wiz.who, paste)
<1>0. /\ wiz # None /\ wiz.step = "deploy" /\ UNCHANGED <<chain, ledger>>
      /\ wiz \in Wizards /\ Certified(wiz.cfg) /\ config \in OperatorConfigs
  BY DEF DeployGates, AtStep, OnboardingInv, WizardInv
<1>1. PICK p :
        LET passes == /\ Available("phala", p) /\ r.ok /\ has_valid_login(wiz.cfg)
                      /\ wiz.cfg.terms \/ accepts
                      /\ wiz.cfg.keys = "usable"
        IN /\ config' = [config EXCEPT
                           !.phala = IF Available("phala", p) THEN r.phala ELSE @,
                           !.terms = @ \/ (Available("phala", p) /\ r.ok /\ accepts
                                           /\ has_valid_login(wiz.cfg))]
           /\ IF passes THEN wiz' = [wiz EXCEPT !.step = "launch"] /\ UNCHANGED closing
              ELSE Record("error", "declare", config)
  BY DEF DeployGates
<1>2. r.phala \in Funded \cup {None}
  BY <1>0, OnlyAcceptedStored
<1>3. has_valid_login(wiz.cfg) \in BOOLEAN /\ (has_valid_login(wiz.cfg) => wiz.cfg.token # None)
  BY <1>0 DEF has_valid_login, Wizards, OperatorConfigs, Logins
<1> DEFINE gate == /\ Available("phala", p) /\ r.ok /\ has_valid_login(wiz.cfg)
                   /\ wiz.cfg.terms \/ accepts
                   /\ wiz.cfg.keys = "usable"
           valid == has_valid_login(wiz.cfg)
           can == Available("phala", p)
<1>4. can \in BOOLEAN
  BY DEF Available
<1>5. /\ config' = [config EXCEPT !.phala = IF can THEN r.phala ELSE @,
                                  !.terms = @ \/ (can /\ r.ok /\ accepts /\ valid)]
      /\ IF gate THEN wiz' = [wiz EXCEPT !.step = "launch"] /\ UNCHANGED closing
         ELSE Record("error", "declare", config)
  BY <1>1
<1>6. gate => wiz.cfg.token # None
  BY <1>3
<1> HIDE DEF r, valid, can
<1>7. /\ config' \in OperatorConfigs
      /\ config'.token = config.token /\ config'.worker = config.worker
      /\ config'.keys = config.keys /\ config'.hotkey = config.hotkey
  <2>1. config.terms \in BOOLEAN /\ (IF can THEN r.phala ELSE config.phala) \in Funded \cup {None}
    BY <1>0, <1>2 DEF OperatorConfigs
  <2>2. (config.terms \/ (can /\ r.ok /\ accepts /\ valid)) \in BOOLEAN
    OBVIOUS
  <2> QED  BY <1>0, <1>5, <2>1, <2>2 DEF OperatorConfigs
<1>8. Onward /\ Certified(config)' /\ LedgerInv'
  BY <1>0, <1>7 DEF OnboardingInv, LedgerInv, Onward, Certified
<1>9. CASE gate
  <2> HIDE DEF gate
  <2>1. /\ wiz' \in Wizards /\ wiz'.cfg = wiz.cfg /\ wiz'.step = "launch"
        /\ wiz'.outstanding = wiz.outstanding /\ UNCHANGED closing
    BY <1>0, <1>5, <1>9 DEF Wizards, WizardSteps
  <2>2. Certified(wiz.cfg)'
    BY <1>0, <1>8, <2>1, CertifiedOnward DEF Certified
  <2>3. WizardInv'
    BY <1>0, <1>6, <1>7, <1>9, <2>1, <2>2 DEF OnboardingInv, WizardInv
  <2>4. ClosingInv'
    BY <1>0, <1>7, <2>1 DEF OnboardingInv, ClosingInv
  <2> QED  BY <1>7, <1>8, <2>3, <2>4 DEF OnboardingInv
<1>10. CASE ~gate
  <2> HIDE DEF gate
  <2>1. Record("error", "declare", config)
    BY <1>5, <1>10
  <2>2. wiz' = None /\ UNCHANGED closing
    BY <2>1 DEF Record
  <2>3. WizardInv' /\ ClosingInv'
    BY <1>0, <1>7, <2>2 DEF OnboardingInv, ClosingInv, WizardInv
  <2> QED  BY <1>7, <1>8, <2>3 DEF OnboardingInv
<1> QED  BY <1>9, <1>10

(* A deploy records its worker as registered only when it was.             *)
LEMMA DeployEndsInv ==
  ASSUME OnboardingInv, NEW ok \in BOOLEAN, DeployEnds(ok)
  PROVE  OnboardingInv'
<1> DEFINE h == wiz.cfg.token.hotkey
           worker == IF config.worker = "registered" THEN config.worker ELSE Recorded(ok)
<1>1. /\ wiz # None /\ wiz.step = "launch" /\ UNCHANGED chain
      /\ wiz \in Wizards /\ Certified(wiz.cfg) /\ wiz.cfg.token # None
      /\ config \in OperatorConfigs
  BY DEF DeployEnds, AtStep, OnboardingInv, WizardInv
<1>2. /\ config' = [config EXCEPT !.worker = worker]
      /\ ledger' = IF ok THEN [ledger EXCEPT !.served = @ \cup {h}] ELSE ledger
      /\ Record(IF ok THEN "done" ELSE "error", "declare", config')
  BY DEF DeployEnds
<1>3. h \in Hotkeys
  BY <1>1 DEF Wizards, OperatorConfigs, Logins
<1>4. /\ worker \in {"provisional", "registered"}
      /\ worker = "registered" => config.worker = worker \/ ok
  BY DEF Recorded
<1> HIDE DEF h, worker
<1>5. /\ config' \in OperatorConfigs
      /\ config'.token = config.token /\ config'.worker = worker
      /\ config'.keys = config.keys /\ config'.hotkey = config.hotkey
  BY <1>1, <1>2, <1>4 DEF OperatorConfigs
<1>6. /\ ledger' \in [seen : SUBSET Hotkeys, served : SUBSET Hotkeys, declared : SUBSET Hotkeys]
      /\ ledger'.seen = ledger.seen /\ ledger'.declared = ledger.declared
      /\ ledger.served \subseteq ledger'.served
      /\ ok => h \in ledger'.served
  BY <1>2, <1>3 DEF OnboardingInv, LedgerInv
<1>7. Onward /\ LedgerInv'
  BY <1>1, <1>5, <1>6 DEF OnboardingInv, LedgerInv, Onward
<1>8. Certified(config)'
  BY <1>4, <1>5, <1>6 DEF OnboardingInv, Certified
<1>9. ~wiz.outstanding => config'.keys # "none"
  BY <1>1, <1>5 DEF OnboardingInv, WizardInv
<1>10. WizardInv' /\ ClosingInv'
  BY <1>1, <1>2, <1>5, <1>6, <1>7, <1>8, <1>9, RecordInv DEF WizardSteps, Outcomes
<1> QED  BY <1>5, <1>7, <1>8, <1>10 DEF OnboardingInv

(* All is set only once products were declared, a worker registered and    *)
(* keys kept.                                                              *)
LEMMA DeclareInv ==
  ASSUME OnboardingInv, NEW discount, NEW choice \in StepReplies,
         NEW answer \in {"declared", "cancelled", "failed"}, DeclareStep(discount, choice, answer)
  PROVE  OnboardingInv'
<1> DEFINE asked == AskStep(wiz.who, choice)
           run == PromptLine(wiz.who, discount) # None /\ asked = "run"
<1>1. /\ wiz # None /\ wiz.step = "declare" /\ UNCHANGED chain
      /\ wiz \in Wizards /\ Certified(wiz.cfg) /\ config \in OperatorConfigs
      /\ ledger \in [seen : SUBSET Hotkeys, served : SUBSET Hotkeys, declared : SUBSET Hotkeys]
      /\ chain \subseteq ledger.seen /\ ledger.declared \subseteq ledger.seen
      /\ ~wiz.outstanding => config.keys # "none" /\ ledger.served # {}
  BY DEF DeclareStep, AtStep, OnboardingInv, WizardInv, LedgerInv
<1>2. ASSUME NEW outcome \in Outcomes, Record(outcome, "end", config), UNCHANGED <<config, ledger>>,
             outcome # "done"
      PROVE  OnboardingInv'
  <2>1. Onward /\ Certified(config)' /\ LedgerInv'
    BY <1>1, <1>2 DEF OnboardingInv, LedgerInv, Onward, Certified
  <2>2. WizardInv' /\ ClosingInv'
    BY <1>1, <1>2, <2>1, RecordInv
  <2> QED  BY <1>1, <1>2, <2>1, <2>2 DEF OnboardingInv
<1>3. CASE ~run
  <2> DEFINE outcome == IF PromptLine(wiz.who, discount) = None THEN "outstanding"
                        ELSE Choice(asked, TRUE)
  <2>1. Record(outcome, "end", config) /\ UNCHANGED <<config, ledger>>
    BY <1>3 DEF DeclareStep
  <2>2. asked \in StepReplies
    BY StepAnswers
  <2>3. outcome \in Outcomes /\ outcome # "done"
    BY <1>3, <2>2, StepAnswers DEF Outcomes
  <2> QED
    <3> HIDE DEF outcome
    <3> QED  BY <1>2, <2>1, <2>3
<1>4. CASE run /\ Refreshed(wiz.cfg) = {} /\ Record("error", "end", config)
                /\ UNCHANGED <<config, ledger>>
  BY <1>2, <1>4 DEF Outcomes
<1>5. ASSUME NEW t \in Refreshed(wiz.cfg), config' = [config EXCEPT !.token = t],
             ledger' = IF answer = "declared"
                       THEN [ledger EXCEPT !.declared = @ \cup {t.hotkey}] ELSE ledger,
             Record(Declared(answer), "end", config)
      PROVE  OnboardingInv'
  <2>1. t \in Logins /\ t.hotkey \in ledger.seen
    <3>1. wiz.cfg.token # None => wiz.cfg.token \in Logins /\ wiz.cfg.token.hotkey \in ledger.seen
      BY <1>1 DEF Wizards, OperatorConfigs, Certified
    <3>2. CASE has_valid_login(wiz.cfg)
      BY <1>5, <3>1, <3>2 DEF Refreshed, has_valid_login
    <3>3. CASE ~has_valid_login(wiz.cfg) /\ wiz.cfg.token # None
      <4>1. PICK h \in chain \cup (IF wiz.cfg.token.refresh THEN {wiz.cfg.token.hotkey} ELSE {}) :
              t = Token(h, TRUE, TRUE)
        BY <1>5, <3>3 DEF Refreshed
      <4>2. h \in ledger.seen /\ h \in Hotkeys
        BY <1>1, <3>1, <3>3, <4>1
      <4> QED  BY <4>1, <4>2 DEF Token, Logins
    <3> QED  BY <1>5, <3>2, <3>3 DEF Refreshed
  <2>2. /\ ledger' \in [seen : SUBSET Hotkeys, served : SUBSET Hotkeys, declared : SUBSET Hotkeys]
        /\ ledger'.seen = ledger.seen /\ ledger'.served = ledger.served
        /\ ledger.declared \subseteq ledger'.declared /\ ledger'.declared \subseteq ledger.seen
        /\ answer = "declared" => t.hotkey \in ledger'.declared
    <3>1. t.hotkey \in Hotkeys
      BY <1>1, <2>1
    <3> QED  BY <1>1, <1>5, <2>1, <3>1
  <2>3. config' \in OperatorConfigs /\ Certified(config)'
    BY <1>1, <1>5, <2>1, <2>2, TokenRecorded
  <2>4. config'.keys = config.keys
    BY <1>1, <1>5 DEF OperatorConfigs
  <2>5. Onward /\ LedgerInv'
    BY <1>1, <2>2, <2>4 DEF LedgerInv, Onward
  <2>6. /\ Declared(answer) \in Outcomes
        /\ Declared(answer) = "done" => answer = "declared"
    BY DEF Declared, Outcomes
  <2>7. Record(Declared(answer), "end", config')
    BY <1>5, <2>6 DEF Record, Outcomes
  <2>8. WizardInv' /\ ClosingInv'
    BY <1>1, <2>2, <2>3, <2>4, <2>5, <2>6, <2>7, RecordInv
  <2> QED  BY <2>3, <2>5, <2>8 DEF OnboardingInv
<1>6. CASE run
  <2>1. \/ /\ Refreshed(wiz.cfg) = {} /\ Record("error", "end", config)
           /\ UNCHANGED <<config, ledger>>
        \/ \E t \in Refreshed(wiz.cfg) :
             /\ config' = [config EXCEPT !.token = t]
             /\ ledger' = IF answer = "declared"
                          THEN [ledger EXCEPT !.declared = @ \cup {t.hotkey}] ELSE ledger
             /\ Record(Declared(answer), "end", config)
    BY <1>6 DEF DeclareStep
  <2> QED  BY <1>4, <1>5, <1>6, <2>1
<1> QED  BY <1>3, <1>6

(* A wizard that is left claims nothing.                                   *)
LEMMA AbortInv ==
  ASSUME OnboardingInv, Abort  PROVE OnboardingInv'
<1>1. wiz' = None /\ UNCHANGED <<config, chain, ledger, closing>>
  BY DEF Abort
<1> QED  BY <1>1 DEF OnboardingInv, Certified, LedgerInv, WizardInv, ClosingInv

(* What other sessions store is as certified.                              *)
LEMMA OtherSessionInv ==
  ASSUME OnboardingInv, NEW h \in Hotkeys, NEW keys \in {"idle", "invalid", "usable"},
         NEW worker \in {"none", "provisional", "registered"}, OtherSession(h, keys, worker)
  PROVE  OnboardingInv'
<1>1. /\ UNCHANGED <<chain, wiz, closing>> /\ config \in OperatorConfigs
      /\ ledger \in [seen : SUBSET Hotkeys, served : SUBSET Hotkeys, declared : SUBSET Hotkeys]
      /\ chain \subseteq ledger.seen
  BY DEF OtherSession, OnboardingInv, LedgerInv
<1>2. SUFFICES Onward /\ config' \in OperatorConfigs /\ Certified(config)' /\ LedgerInv'
  BY <1>1, <1>2, AsideInv DEF OnboardingInv
<1>3. CASE h \in chain /\ config' = [config EXCEPT !.hotkey = h] /\ UNCHANGED ledger
  BY <1>1, <1>3, HotkeyRecorded
<1>4. CASE h \in chain /\ config' = [config EXCEPT !.token = Token(h, TRUE, TRUE)]
           /\ UNCHANGED ledger
  <2>1. Token(h, TRUE, TRUE) \in Logins /\ Token(h, TRUE, TRUE).hotkey \in ledger.seen
    BY <1>1, <1>4 DEF Token, Logins
  <2>2. config' \in OperatorConfigs /\ Certified(config)'
    BY <1>1, <1>4, <2>1, TokenRecorded
  <2> QED  BY <1>1, <1>4, <2>2 DEF OnboardingInv, LedgerInv, Onward, OperatorConfigs
<1>5. CASE config' = [config EXCEPT !.keys = keys] /\ UNCHANGED ledger
  BY <1>1, <1>5, KeysRecorded
<1>6. CASE /\ has_valid_login(config) /\ config.keys = "usable" /\ worker # "none"
           /\ config' = [config EXCEPT !.worker = IF @ = "registered" THEN @ ELSE worker,
                                       !.terms = TRUE]
           /\ ledger' = IF worker = "registered"
                        THEN [ledger EXCEPT !.served = @ \cup {config.token.hotkey}] ELSE ledger
  <2> DEFINE w == IF config.worker = "registered" THEN config.worker ELSE worker
  <2>1. config.token.hotkey \in Hotkeys
    BY <1>1, <1>6 DEF has_valid_login, OperatorConfigs, Logins
  <2>2. /\ ledger' \in [seen : SUBSET Hotkeys, served : SUBSET Hotkeys, declared : SUBSET Hotkeys]
        /\ ledger'.seen = ledger.seen /\ ledger'.declared = ledger.declared
        /\ ledger.served \subseteq ledger'.served
        /\ worker = "registered" => ledger'.served # {}
    BY <1>1, <1>6, <2>1
  <2>3. /\ config' \in OperatorConfigs
        /\ config'.token = config.token /\ config'.worker = w
        /\ config'.keys = config.keys /\ config'.hotkey = config.hotkey
    BY <1>1, <1>6 DEF OperatorConfigs
  <2> QED  BY <1>1, <2>2, <2>3 DEF OnboardingInv, LedgerInv, Onward, Certified
<1>7. CASE /\ config.worker = "registered" /\ config' = [config EXCEPT !.worker = "none"]
           /\ UNCHANGED ledger
  <2>1. /\ config' \in OperatorConfigs
        /\ config'.token = config.token /\ config'.worker = "none"
        /\ config'.keys = config.keys /\ config'.hotkey = config.hotkey
    BY <1>1, <1>7 DEF OperatorConfigs
  <2> QED  BY <1>1, <1>7, <2>1 DEF OnboardingInv, LedgerInv, Onward, Certified
<1> QED  BY <1>3, <1>4, <1>5, <1>6, <1>7 DEF OtherSession

(* Chain, tools and Phala move, and the ledger only grows.                 *)
LEMMA SurroundingsInv ==
  ASSUME OnboardingInv, NEW h \in Hotkeys, NEW tool, NEW state, Surroundings(h, tool, state)
  PROVE  OnboardingInv'
<1>1. /\ UNCHANGED <<wiz, closing>> /\ config \in OperatorConfigs
      /\ ledger \in [seen : SUBSET Hotkeys, served : SUBSET Hotkeys, declared : SUBSET Hotkeys]
      /\ chain \subseteq ledger.seen /\ ledger.declared \subseteq ledger.seen
  BY DEF Surroundings, OnboardingInv, LedgerInv
<1>2. SUFFICES Onward /\ config' \in OperatorConfigs /\ Certified(config)' /\ LedgerInv'
  BY <1>1, <1>2, AsideInv DEF OnboardingInv
<1>3. CASE /\ has_valid_login(config) /\ config' = [config EXCEPT !.token.fresh = FALSE]
           /\ UNCHANGED <<chain, ledger>>
  <2> DEFINE t == [config.token EXCEPT !.fresh = FALSE]
  <2>1. t \in Logins /\ t.hotkey \in ledger.seen
    BY <1>1, <1>3 DEF has_valid_login, OperatorConfigs, Logins, OnboardingInv, Certified
  <2>2. config' = [config EXCEPT !.token = t]
    BY <1>1, <1>3
  <2>3. config' \in OperatorConfigs /\ Certified(config)'
    BY <1>1, <1>3, <2>1, <2>2, TokenRecorded
  <2> QED  BY <1>1, <1>3, <2>2, <2>3 DEF OnboardingInv, LedgerInv, Onward, OperatorConfigs
<1>4. CASE /\ chain' = IF h \in chain THEN chain \ {h} ELSE chain \cup {h}
           /\ ledger' = [ledger EXCEPT !.seen = @ \cup chain']
           /\ UNCHANGED config
  <2>1. chain' \subseteq Hotkeys
    BY <1>1, <1>4
  <2>2. /\ ledger' \in [seen : SUBSET Hotkeys, served : SUBSET Hotkeys, declared : SUBSET Hotkeys]
        /\ ledger'.seen = ledger.seen \cup chain' /\ ledger'.declared = ledger.declared
        /\ ledger'.served = ledger.served
    BY <1>1, <1>4, <2>1
  <2>3. Onward /\ LedgerInv'
    BY <1>1, <1>4, <2>2 DEF LedgerInv, Onward
  <2>4. Certified(config)'
    BY <1>1, <1>4, <2>2 DEF OnboardingInv, Certified
  <2> QED  BY <1>1, <1>4, <2>3, <2>4
<1>5. CASE UNCHANGED <<config, chain, ledger>>
  BY <1>1, <1>5 DEF OnboardingInv, LedgerInv, Onward, Certified
<1> QED  BY <1>3, <1>4, <1>5 DEF Surroundings

-----------------------------------------------------------------------------
(* The theorems.                                                           *)

(***************************************************************************)
(* A deploy that nobody attends passes its gates only where doctor passes: *)
(* nothing is installed for it and nobody pastes a key, so the tools and   *)
(* the credential are those that doctor looks at.                          *)
(***************************************************************************)
LEMMA ReadyPasses ==
  ASSUME NEW env, DeployReady(env)
  PROVE  DoctorPasses(env)
<1> DEFINE who == [yes |-> FALSE, tty |-> FALSE]
<1>1. Silent(who) /\ Confirm(FALSE, who, FALSE) = FALSE /\ PastedKey(who, None) = None
  BY DEF Silent, Confirm, PastedKey, PromptLine
<1>2. phala_cli_check
  <2>1. PICK p \in Ensured("phala", who, FALSE) : Available("phala", p)
    BY DEF DeployReady
  <2>2. p = tools["phala"]
    BY <1>1, <2>1 DEF Ensured
  <2> QED  BY <2>1, <2>2 DEF phala_cli_check
<1>3. None \notin Funded
  BY OnboardingAssumption
<1>4. resolve_key(None, env, config, who, None).ok
  BY DEF DeployReady
<1>5. phala_api_key_check(env, config)
  BY <1>1, <1>3, <1>4 DEF resolve_key, pick_key_source, phala_api_key_check, credential_source
<1> QED  BY <1>2, <1>5 DEF DeployReady, DoctorPasses, provider_keys_check

(***************************************************************************)
(* The invariant of onboarding, whoever answers what and whatever the      *)
(* other sessions, the chain and the tools do between two steps.           *)
(***************************************************************************)
THEOREM OnboardingInvariance == OnboardingSpec => []OnboardingInv
<1>1. OnboardingInit => OnboardingInv
  BY OnboardingInitInv
<1>2. OnboardingInv /\ [OnboardingNext]_onboardingVars => OnboardingInv'
  <2> SUFFICES ASSUME OnboardingInv, [OnboardingNext]_onboardingVars  PROVE OnboardingInv'
    OBVIOUS
  <2>1. CASE \E yes, tty \in BOOLEAN : Start(yes, tty)
    BY <2>1, StartInv
  <2>2. CASE HotkeySkip
    BY <2>2, HotkeySkipInv
  <2>3. CASE \E ss58 \in Hotkeys \cup {None}, choice \in StepReplies :
               HotkeyByo(TRUE, ss58, choice)
    BY <2>3, HotkeyByoInv
  <2>4. CASE \E wallet \in {None, "w"}, choice \in StepReplies : HotkeyAssisted(wallet, choice)
    BY <2>4, HotkeyAssistedInv
  <2>5. CASE \E choice \in StepReplies, h \in Hotkeys : LoginStep(choice, {h})
    BY <2>5, LoginInv
  <2>6. CASE \E typed \in {None, "k"}, choice \in StepReplies : KeysStep(typed, choice)
    BY <2>6, KeysInv
  <2>7. CASE \E choice \in StepReplies : DeploySkip(choice)
    BY <2>7, DeploySkipInv
  <2>8. CASE \E env, paste \in PhalaKeys \cup {None}, install, accepts \in BOOLEAN :
               DeployGates(env, install, paste, accepts)
    BY <2>8, DeployGatesInv
  <2>9. CASE \E ok \in BOOLEAN : DeployEnds(ok)
    BY <2>9, DeployEndsInv
  <2>10. CASE \E discount \in {None, "d"}, choice \in StepReplies,
                 answer \in {"declared", "cancelled", "failed"} :
                DeclareStep(discount, choice, answer)
    BY <2>10, DeclareInv
  <2>11. CASE Abort
    BY <2>11, AbortInv
  <2>12. CASE \E h \in Hotkeys, keys \in {"idle", "invalid", "usable"},
                 worker \in {"none", "provisional", "registered"} :
                OtherSession(h, keys, worker)
    BY <2>12, OtherSessionInv
  <2>13. CASE \E h \in Hotkeys, tool \in {"btcli", "phala"},
                 state \in {"missing", "old", "ok"} : Surroundings(h, tool, state)
    BY <2>13, SurroundingsInv
  <2>14. CASE UNCHANGED onboardingVars
    BY <2>14 DEF onboardingVars, OnboardingInv, Certified, LedgerInv, WizardInv, ClosingInv
  <2> QED
    BY <2>1, <2>2, <2>3, <2>4, <2>5, <2>6, <2>7, <2>8, <2>9, <2>10, <2>11, <2>12, <2>13, <2>14
    DEF OnboardingNext
<1> QED  BY <1>1, <1>2, PTL DEF OnboardingSpec

(***************************************************************************)
(* What the wizard says and stores is true and doctor is never stricter    *)
(* than an unattended deploy (commands/wizard.rs, phala.rs, doctor.rs).    *)
(***************************************************************************)
THEOREM WizardHonest == OnboardingSpec => []OnboardingHonest
<1>1. OnboardingInv => OnboardingHonest
  <2> SUFFICES ASSUME OnboardingInv  PROVE OnboardingHonest
    OBVIOUS
  <2>1. config.phala # None => config.phala \in Funded
    BY DEF OnboardingInv, OperatorConfigs
  <2> QED
    BY <2>1, ReadyPasses DEF OnboardingInv, OnboardingHonest, ClosingInv, LedgerInv, Certified
<1> QED  BY <1>1, OnboardingInvariance, PTL

-----------------------------------------------------------------------------
(* The deploys of Release.                                                 *)

(* What the records of a deploy range over.                                *)
Composes ==
  [compose : [template : {Template[r] : r \in Releases}, ref : Images, net : Nets],
   envs : {Canonical, "extended"}]

Declarations == SUBSET {"hop", "bedrock", "slots"}

Ids == {r.id : r \in UNION RootSets}

(***************************************************************************)
(* The rows that were published: the image a row names has every feature   *)
(* the row is stamped with, and a row without an image has none.           *)
(***************************************************************************)
StampedRows ==
  {v \in [compose : Composes, os : {Pinned}, features : SUBSET UNION {Built[r] : r \in Releases},
          tag : {None} \cup Releases, ref : {None} \cup Releases] :
     v.features \subseteq (IF v.ref = None THEN {} ELSE Built[v.ref])}

PlanRecords == [approved : StampedRows, image : Images, declares : Declarations]

CvmRecords ==
  [image : Images, kms : Ids, first : BOOLEAN, reg : Nets,
   approved : [compose : Composes, os : {Pinned}],
   measured : [compose : Composes, os : {Pinned, "other"}, form : {None, "bare", "prefixed"}],
   endpoint : {None, "edge", "passthrough", "odd"}, declares : {None} \cup Declarations]

Asked == [pc : {"preflight"}, rel : Releases, net : Nets, reg : Nets, first : BOOLEAN, kms : Ids]

Gated == [pc : {"plan"}, rel : Releases, net : Nets, reg : Nets, first : BOOLEAN, kms : Ids,
          backend : Backends, multi : BOOLEAN]

Settled == [pc : {"launch"}, rel : Releases, net : Nets, reg : Nets, first : BOOLEAN, kms : Ids,
            plan : PlanRecords]

Created == [pc : {"poll", "register"}, plan : PlanRecords, cvm : CvmRecords]

(* The root is one the registry lists, and does not expire.                *)
Rooted(id) == \E r \in roots : r.id = id /\ r.forever

(* What is declared about an image it can do, and a registry is told of    *)
(* cloud bindings only if it can tell their models apart.                  *)
Declarable(image, reg, declares) ==
  /\ declares \subseteq Understands(image)
  /\ "hop" \in declares => reg \in echo

(* A CVM: approved for what it measured, rooted, under accepted terms, and *)
(* what is recorded about it can be declared.                              *)
CvmTrue(v) ==
  /\ v.measured.os = Pinned /\ v.measured.compose.envs = Canonical =>
       v.measured.compose = v.approved.compose
  /\ Rooted(v.kms)
  /\ v.first => terms = "current"
  /\ v.declares # None => Declarable(v.image, v.reg, v.declares)

(* A worker row.                                                           *)
WorkerTrue(w) ==
  /\ w.recorded => w.declares \subseteq Understands(w.image)
  /\ w.checked => w.hashes = Hashes(w.approved.compose, w.approved.os, "bare")
  /\ w.endpoints = {"passthrough"}
  /\ "hop" \in w.declares => w.reg \in echo

(***************************************************************************)
(* The deploy that is running, by its phase: each holds what the ones      *)
(* before it have checked, although its command no longer looks at them.   *)
(***************************************************************************)
AskedInv(c) == c \in Asked /\ Rooted(c.kms)

GatedInv(c) ==
  /\ c \in Gated /\ Rooted(c.kms)
  /\ c.first => terms = "current"
  /\ c.backend # "direct" => c.reg \in echo

SettledInv(c) ==
  /\ c \in Settled /\ Rooted(c.kms)
  /\ c.first => terms = "current"
  /\ c.plan.approved.compose = ComposeHash(c.rel, c.plan.image, c.net)
  /\ Declarable(c.plan.image, c.reg, c.plan.declares)

CreatedInv(c) ==
  /\ c \in Created /\ CvmTrue(c.cvm)
  /\ c.cvm.approved = [compose |-> c.plan.approved.compose, os |-> c.plan.approved.os]
  /\ Declarable(c.cvm.image, c.cvm.reg, c.plan.declares)
  /\ c.pc = "register" => c.cvm.declares = c.plan.declares
                          /\ Passthrough(c.cvm.endpoint) = {"passthrough"}

CommandInv ==
  command # None =>
    \/ AskedInv(command) \/ GatedInv(command) \/ SettledInv(command) \/ CreatedInv(command)

ReleaseInv ==
  /\ table \in [Nets -> Seq(StampedRows)]
  /\ echo \subseteq Nets /\ roots \in RootSets /\ terms \in {"old", "current"}
  /\ CommandInv
  /\ cvms \subseteq CvmRecords /\ \A v \in cvms : CvmTrue(v)
  /\ \A w \in workers : WorkerTrue(w)

-----------------------------------------------------------------------------
(* What the helpers return.                                                *)

(* A compose hash covers the canonical variables.                          *)
LEMMA ComposeHashTyped ==
  ASSUME NEW rel \in Releases, NEW ref \in Images, NEW net \in Nets
  PROVE  ComposeHash(rel, ref, net) \in Composes
BY DEF ComposeHash, AppCompose, RenderCompose, Composes, Canonical

(* What a release publishes is true of its own image.                      *)
LEMMA PublishedStamped ==
  ASSUME NEW rel \in Releases, NEW net \in Nets
  PROVE  AdminRequest(rel, net) \in StampedRows /\ LegacyRow(rel, net) \in StampedRows
<1>1. rel \in Images /\ ComposeHash(rel, rel, net) \in Composes
  BY ComposeHashTyped DEF Images
<1>2. rel # None
  BY ReleaseAssumption
<1>3. AdminRequest(rel, net) \in StampedRows
  BY <1>1, <1>2 DEF AdminRequest, ImageVersion, StampedRows
<1>4. LegacyRow(rel, net) \in StampedRows
  BY <1>1 DEF LegacyRow, ImageVersion, StampedRows
<1> QED  BY <1>3, <1>4

(* A sequence without one of its members.                                  *)
LEMMA RemovedTyped ==
  ASSUME NEW S, NEW s \in Seq(S), NEW i \in DOMAIN s
  PROVE  RemoveAt(s, i) \in Seq(S)
<1>1. i \in 1 .. Len(s) /\ Len(s) \in Nat
  OBVIOUS
<1>2. SubSeq(s, 1, i - 1) \in Seq(S) /\ SubSeq(s, i + 1, Len(s)) \in Seq(S)
  BY <1>1, SubSeqProperties
<1> QED  BY <1>2, ConcatProperties DEF RemoveAt

(* An updated table holds the new row and old ones.                        *)
LEMMA UpsertedTyped ==
  ASSUME NEW S, NEW vs \in Seq(S), NEW row \in S
  PROVE  Upserted(vs, row) \in Seq(S)
<1> DEFINE same == {i \in DOMAIN vs : SameKey(vs[i], row)}
<1>1. Append(vs, row) \in Seq(S)
  OBVIOUS
<1>2. [i \in DOMAIN vs |-> IF i \in same THEN row ELSE vs[i]] \in Seq(S)
  <2> HIDE DEF same
  <2>1. Len(vs) \in Nat /\ DOMAIN vs = 1 .. Len(vs)
    OBVIOUS
  <2>2. \A i \in 1 .. Len(vs) : (IF i \in same THEN row ELSE vs[i]) \in S
    OBVIOUS
  <2> QED  BY <2>1, <2>2
<1> QED  BY <1>1, <1>2 DEF Upserted

(* The versions a deploy fetches are those of the table.                   *)
LEMMA FetchedStamped ==
  ASSUME table \in [Nets -> Seq(StampedRows)], NEW reg \in Nets
  PROVE  /\ \A i \in DOMAIN Fetched(reg) : Fetched(reg)[i] \in StampedRows
         /\ ToSet(Fetched(reg)) \subseteq StampedRows
<1>1. table[reg] \in Seq(StampedRows)
  OBVIOUS
<1>2. \A i \in DOMAIN Fetched(reg) : Fetched(reg)[i] \in StampedRows
  BY <1>1 DEF Fetched, Reverse
<1> QED  BY <1>2 DEF ToSet

(***************************************************************************)
(* A stamp that a plan goes by is about the image that will run: the image *)
(* has the feature.                                                        *)
(***************************************************************************)
LEMMA StampedTrue ==
  ASSUME NEW vs, ToSet(vs) \subseteq StampedRows, NEW approved \in StampedRows,
         NEW ref \in {None} \cup Images, NEW repo \in BOOLEAN,
         NEW image \in ImageSource(ref, repo, approved), NEW feature,
         Stamped(feature, ref, repo, approved, vs)
  PROVE  feature \in Understands(image)
<1>1. CASE ref # None
  <2>1. PICK v \in ToSet(vs) : v.ref = ref /\ feature \in v.features
    BY <1>1 DEF Stamped
  <2>2. v \in StampedRows /\ image = ref
    BY <1>1, <2>1 DEF ImageSource
  <2> QED  BY <1>1, <2>1, <2>2, ReleaseAssumption DEF StampedRows, Understands
<1>2. CASE ref = None
  <2>1. ~repo /\ feature \in approved.features /\ image = approved.ref /\ image # None
    BY <1>2 DEF Stamped, ImageSource
  <2> QED  BY <2>1, ReleaseAssumption DEF StampedRows, Understands
<1> QED  BY <1>1, <1>2

(* The same of the stricter test for Bedrock.                              *)
LEMMA BedrockTrue ==
  ASSUME NEW vs, NEW approved \in StampedRows, NEW ref, NEW repo \in BOOLEAN,
         NEW image \in ImageSource(ref, repo, approved), BedrockCapable(ref, repo, approved, vs)
  PROVE  "bedrock" \in Understands(image)
<1>1. image = approved.ref /\ approved.ref # None /\ "bedrock" \in approved.features
  BY DEF BedrockCapable, ImageSource
<1> QED  BY <1>1, ReleaseAssumption DEF StampedRows, Understands

(* An image that is chosen is a release's or the operator's own.           *)
LEMMA SourceTyped ==
  ASSUME NEW ref \in {None} \cup Images, NEW repo \in BOOLEAN, NEW approved \in StampedRows,
         NEW image \in ImageSource(ref, repo, approved)
  PROVE  image \in Images
BY DEF ImageSource, BuildAndPush, StampedRows, Images

(***************************************************************************)
(* A plan: its image can do what will be declared about it, and a cloud    *)
(* backend is declared only for a configuration that has one.              *)
(***************************************************************************)
LEMMA PlanTrue ==
  ASSUME table \in [Nets -> Seq(StampedRows)], NEW c \in Gated, NEW pin,
         NEW ref \in {None} \cup Images, NEW repo \in BOOLEAN,
         NEW p \in Plans(c, pin, ref, repo)
  PROVE  /\ p \in PlanRecords
         /\ p.declares \subseteq Understands(p.image)
         /\ "hop" \in p.declares => c.backend # "direct"
<1> DEFINE vs == Fetched(c.reg)
           Fit(a) == /\ c.backend # "direct" => Stamped("hop", ref, repo, a, vs)
                     /\ c.backend = "bedrock" => BedrockCapable(ref, repo, a, vs)
                     /\ c.multi => Stamped("slots", ref, repo, a, vs)
           extra(a) == IF Stamped("slots", ref, repo, a, vs) THEN {"slots"} ELSE {}
           made(a, i) == [approved |-> a, image |-> i, declares |-> Needs(c.backend) \cup extra(a)]
<1>0. PICK a \in SelectVersion(vs, c.rel, pin) :
        Fit(a) /\ \E i \in ImageSource(ref, repo, a) : p = made(a, i)
  BY DEF Plans
<1>1. PICK i \in ImageSource(ref, repo, a) : Fit(a) /\ p = made(a, i)
  BY <1>0
<1>2. c.reg \in Nets /\ c.backend \in Backends
  BY DEF Gated
<1>3. (\A j \in DOMAIN vs : vs[j] \in StampedRows) /\ ToSet(vs) \subseteq StampedRows
  BY <1>2, FetchedStamped
<1> HIDE DEF vs
<1>4. a \in StampedRows
  BY <1>1, <1>3 DEF SelectVersion
<1>5. i \in Images
  BY <1>1, <1>4, SourceTyped
<1>6. Stamped("slots", ref, repo, a, vs) => "slots" \in Understands(i)
  BY <1>1, <1>3, <1>4, StampedTrue
<1>7. c.backend # "direct" => "hop" \in Understands(i)
  BY <1>1, <1>3, <1>4, StampedTrue
<1>8. c.backend = "bedrock" => "bedrock" \in Understands(i)
  BY <1>1, <1>4, BedrockTrue
<1>9. /\ Needs(c.backend) \subseteq {"hop", "bedrock"}
      /\ Needs(c.backend) \subseteq Understands(i)
      /\ "hop" \in Needs(c.backend) => c.backend # "direct"
  BY <1>2, <1>7, <1>8 DEF Backends, Needs
<1>10. extra(a) \subseteq {"slots"} /\ extra(a) \subseteq Understands(i)
  BY <1>6
<1>11. p.approved = a /\ p.image = i /\ p.declares = Needs(c.backend) \cup extra(a)
  BY <1>1
<1> HIDE DEF extra, Fit, made
<1>12. p.declares \in Declarations
  BY <1>9, <1>10, <1>11 DEF Declarations
<1>13. p = [approved |-> a, image |-> i, declares |-> p.declares]
  BY <1>1, <1>11 DEF made
<1>14. p \in PlanRecords
  BY <1>4, <1>5, <1>12, <1>13 DEF PlanRecords
<1> QED  BY <1>9, <1>10, <1>11, <1>14

-----------------------------------------------------------------------------
(* The actions.                                                            *)

(* What a registry can do and what was accepted is not taken back.         *)
Lasting == echo \subseteq echo' /\ roots' = roots /\ (terms = "current" => terms' = "current")

(* What was true of a worker, a CVM or the running deploy stays true.      *)
LEMMA TrueLasts ==
  ASSUME Lasting
  PROVE  /\ \A w : WorkerTrue(w) => WorkerTrue(w)'
         /\ \A v : CvmTrue(v) => CvmTrue(v)'
         /\ CommandInv /\ command' = command => CommandInv'
<1>1. \A image, reg, ds : Declarable(image, reg, ds) => Declarable(image, reg, ds)'
  BY DEF Lasting, Declarable
<1>2. \A id : Rooted(id) => Rooted(id)'
  BY DEF Lasting, Rooted
<1>3. \A w : WorkerTrue(w) => WorkerTrue(w)'
  BY DEF Lasting, WorkerTrue
<1>4. \A v : CvmTrue(v) => CvmTrue(v)'
  BY <1>1, <1>2 DEF Lasting, CvmTrue
<1>5. ASSUME CommandInv, command' = command, command # None  PROVE CommandInv'
  <2>1. CASE AskedInv(command)
    <3>1. AskedInv(command)'
      BY <1>2, <1>5, <2>1 DEF AskedInv
    <3> QED  BY <3>1 DEF CommandInv
  <2>2. CASE GatedInv(command)
    <3>1. GatedInv(command)'
      BY <1>2, <1>5, <2>2 DEF GatedInv, Lasting
    <3> QED  BY <3>1 DEF CommandInv
  <2>3. CASE SettledInv(command)
    <3>1. SettledInv(command)'
      BY <1>1, <1>2, <1>5, <2>3 DEF SettledInv, Lasting
    <3> QED  BY <3>1 DEF CommandInv
  <2>4. CASE CreatedInv(command)
    <3>1. CreatedInv(command)'
      BY <1>1, <1>4, <1>5, <2>4 DEF CreatedInv
    <3> QED  BY <3>1 DEF CommandInv
  <2> QED  BY <1>5, <2>1, <2>2, <2>3, <2>4 DEF CommandInv
<1>6. CommandInv /\ command' = command /\ command = None => CommandInv'
  BY DEF CommandInv
<1> QED  BY <1>3, <1>4, <1>5, <1>6

(* What is published at first is stamped.                                  *)
LEMMA ReleaseInitInv == ReleaseInit => ReleaseInv
<1> SUFFICES ASSUME ReleaseInit  PROVE ReleaseInv
  OBVIOUS
<1>1. table \in [Nets -> Seq(StampedRows)]
  <2>1. PICK old \in SUBSET Nets, r \in Releases :
          table = [n \in Nets |-> IF n \in old THEN <<LegacyRow(r, n)>> ELSE <<>>]
    BY DEF ReleaseInit
  <2>2. \A n \in Nets : (IF n \in old THEN <<LegacyRow(r, n)>> ELSE <<>>) \in Seq(StampedRows)
    BY PublishedStamped
  <2> QED  BY <2>1, <2>2
<1> QED  BY <1>1 DEF ReleaseInit, ReleaseInv, CommandInv

(* A step that changes neither a command nor what a deploy left.           *)
LEMMA RegistryStepInv ==
  ASSUME ReleaseInv, Lasting, UNCHANGED <<terms, command, cvms, workers>>, echo' \subseteq Nets,
         table' \in [Nets -> Seq(StampedRows)]
  PROVE  ReleaseInv'
BY TrueLasts DEF ReleaseInv, Lasting

(* A published row is stamped with what its image was built with.          *)
LEMMA PublishInv ==
  ASSUME ReleaseInv, NEW rel \in Releases, NEW net \in Nets, NEW reg \in Nets,
         Publish(rel, net, reg)
  PROVE  ReleaseInv'
<1>1. Upserted(table[reg], AdminRequest(rel, net)) \in Seq(StampedRows)
  BY PublishedStamped, UpsertedTyped DEF ReleaseInv
<1>2. table' = [table EXCEPT ![reg] = Upserted(table[reg], AdminRequest(rel, net))]
  BY DEF Publish
<1>3. table' \in [Nets -> Seq(StampedRows)]
  BY <1>1, <1>2 DEF ReleaseInv
<1> QED  BY <1>3, RegistryStepInv DEF Publish, ReleaseInv, Lasting

(* A row that is withdrawn leaves stamped rows.                            *)
LEMMA WithdrawInv ==
  ASSUME ReleaseInv, NEW reg \in Nets, NEW i \in DOMAIN table[reg], Withdraw(reg, i)
  PROVE  ReleaseInv'
<1>1. RemoveAt(table[reg], i) \in Seq(StampedRows)
  BY RemovedTyped DEF ReleaseInv
<1>2. table' = [table EXCEPT ![reg] = RemoveAt(table[reg], i)]
  BY DEF Withdraw
<1>3. table' \in [Nets -> Seq(StampedRows)]
  BY <1>1, <1>2 DEF ReleaseInv
<1> QED  BY <1>3, RegistryStepInv DEF Withdraw, ReleaseInv, Lasting

(* A registry that is upgraded keeps its rows.                             *)
LEMMA UpgradeInv ==
  ASSUME ReleaseInv, NEW reg \in Nets, Upgrade(reg)
  PROVE  ReleaseInv'
BY RegistryStepInv DEF Upgrade, ReleaseInv, Lasting

(* A step of the deploy alone.                                             *)
LEMMA CommandStepInv ==
  ASSUME ReleaseInv, Lasting, UNCHANGED <<table, echo, cvms, workers>>,
         terms' \in {"old", "current"}, CommandInv'
  PROVE  ReleaseInv'
BY TrueLasts DEF ReleaseInv, Lasting

(* A deploy starts with a root that the registry lists.                    *)
LEMMA StartDeployInv ==
  ASSUME ReleaseInv, NEW rel \in Releases, NEW net \in Nets, NEW reg \in Nets,
         NEW first \in BOOLEAN, NEW requested, StartDeploy(rel, net, reg, first, requested)
  PROVE  ReleaseInv'
<1>1. PICK id \in SelectKms(roots, requested) :
        command' = [pc |-> "preflight", rel |-> rel, net |-> net, reg |-> reg, first |-> first,
                    kms |-> id]
  BY DEF StartDeploy
<1>2. \E r \in roots : r.id = id /\ r.forever
  BY DEF SelectKms, AllowedContracts
<1>3. id \in Ids
  BY <1>2 DEF ReleaseInv, Ids
<1>4. UNCHANGED <<table, echo, roots, terms, cvms, workers>>
  BY DEF StartDeploy
<1>5. AskedInv(command)'
  BY <1>1, <1>2, <1>3, <1>4 DEF AskedInv, Asked, Rooted
<1> QED  BY <1>4, <1>5, CommandStepInv DEF CommandInv, Lasting, ReleaseInv

(* The phase of the running deploy.                                        *)
LEMMA CommandPhases ==
  ASSUME ReleaseInv, command # None
  PROVE  /\ command.pc = "preflight" => AskedInv(command)
         /\ command.pc = "plan" => GatedInv(command)
         /\ command.pc = "launch" => SettledInv(command)
         /\ command.pc \in {"poll", "register"} => CreatedInv(command)
<1>1. CASE AskedInv(command)
  BY <1>1 DEF AskedInv, Asked
<1>2. CASE GatedInv(command)
  BY <1>2 DEF GatedInv, Gated
<1>3. CASE SettledInv(command)
  BY <1>3 DEF SettledInv, Settled
<1>4. CASE CreatedInv(command)
  BY <1>4 DEF CreatedInv, Created
<1> QED  BY <1>1, <1>2, <1>3, <1>4 DEF ReleaseInv, CommandInv

(* Past the preflight the root is permanent and the terms are accepted.    *)
LEMMA PreflightInv ==
  ASSUME ReleaseInv, NEW accepts \in BOOLEAN, NEW backend \in Backends, NEW multi \in BOOLEAN,
         Preflight(accepts, backend, multi)
  PROVE  ReleaseInv'
<1> DEFINE ok == /\ command.first => TermsGate(accepts)
                 /\ backend # "direct" => EchoesModels(command.reg)
<1>1. AskedInv(command)
  BY CommandPhases DEF Preflight
<1>2. /\ IF ok THEN command' = [rel |-> command.rel, net |-> command.net, reg |-> command.reg,
                               first |-> command.first, kms |-> command.kms,
                               backend |-> backend, multi |-> multi, pc |-> "plan"]
         ELSE command' = None
      /\ terms' = IF command.first /\ TermsGate(accepts) THEN "current" ELSE terms
      /\ UNCHANGED <<table, echo, roots, cvms, workers>>
  BY DEF Preflight, Ends
<1>3. Lasting /\ terms' \in {"old", "current"}
  BY <1>2 DEF Lasting, ReleaseInv
<1>4. CommandInv'
  <2>1. CASE ~ok
    BY <1>2, <2>1 DEF CommandInv
  <2>2. CASE ok
    <3>1. command' \in Gated
      BY <1>1, <1>2, <2>2 DEF AskedInv, Asked, Gated
    <3>2. /\ command'.kms = command.kms /\ command'.first = command.first
          /\ command'.backend = backend /\ command'.reg = command.reg
      BY <1>2, <2>2
    <3>3. command'.first => terms' = "current"
      BY <1>2, <2>2, <3>2
    <3>4. command'.backend # "direct" => command'.reg \in echo'
      BY <1>2, <2>2, <3>2 DEF EchoesModels
    <3>5. Rooted(command.kms)'
      BY <1>1, <1>2, <3>2 DEF AskedInv, Rooted
    <3> QED  BY <3>1, <3>3, <3>4, <3>5 DEF GatedInv, CommandInv
  <2> QED  BY <2>1, <2>2
<1> QED  BY <1>2, <1>3, <1>4, CommandStepInv

(* The plan is for an approved row, and declares what its image can do.    *)
LEMMA PlanInv ==
  ASSUME ReleaseInv, NEW pin, NEW ref \in {None} \cup Images, NEW repo \in BOOLEAN,
         Plan(pin, ref, repo)
  PROVE  ReleaseInv'
<1>1. GatedInv(command) /\ command \in Gated
  BY CommandPhases DEF Plan, GatedInv
<1>2. UNCHANGED <<table, echo, roots, terms, cvms, workers>>
  BY DEF Plan
<1>3. CASE command' = None
  BY <1>2, <1>3, CommandStepInv DEF CommandInv, Lasting, ReleaseInv
<1>4. CASE \E p \in Plans(command, pin, ref, repo) :
             /\ HashesMatch(Hashes(ComposeHash(command.rel, p.image, command.net), Pinned, "bare"),
                            p.approved)
             /\ command' = [pc |-> "launch", rel |-> command.rel, net |-> command.net,
                            reg |-> command.reg, first |-> command.first, kms |-> command.kms,
                            plan |-> p]
  <2>1. PICK p \in Plans(command, pin, ref, repo) :
             /\ HashesMatch(Hashes(ComposeHash(command.rel, p.image, command.net), Pinned, "bare"),
                            p.approved)
             /\ command' = [pc |-> "launch", rel |-> command.rel, net |-> command.net,
                            reg |-> command.reg, first |-> command.first, kms |-> command.kms,
                            plan |-> p]
    BY <1>4
  <2>2. /\ p \in PlanRecords /\ p.declares \subseteq Understands(p.image)
        /\ "hop" \in p.declares => command.backend # "direct"
    BY <1>1, PlanTrue DEF ReleaseInv
  <2>3. p.approved.compose = ComposeHash(command.rel, p.image, command.net)
    BY <2>1 DEF HashesMatch, Normalized, Hashes
  <2>4. command' \in Settled
    BY <1>1, <2>1, <2>2 DEF Gated, Settled
  <2>5. /\ command'.rel = command.rel /\ command'.net = command.net /\ command'.plan = p
        /\ command'.reg = command.reg /\ command'.first = command.first
        /\ command'.kms = command.kms
    BY <2>1
  <2>6. Rooted(command.kms)' /\ (command'.first => terms' = "current")
    BY <1>1, <1>2, <2>5 DEF GatedInv, Rooted
  <2>7. Declarable(p.image, command.reg, p.declares)'
    BY <1>1, <1>2, <2>2, <2>5 DEF GatedInv, Declarable
  <2>8. SettledInv(command)'
    BY <2>3, <2>4, <2>5, <2>6, <2>7 DEF SettledInv
  <2> QED  BY <1>2, <2>8, CommandStepInv DEF CommandInv, Lasting, ReleaseInv
<1> QED  BY <1>3, <1>4 DEF Plan, Ends

(* A CVM is added or replaced by one of which everything holds.            *)
LEMMA CvmStepInv ==
  ASSUME ReleaseInv, UNCHANGED <<table, echo, roots, terms, workers>>,
         NEW v \in CvmRecords, CvmTrue(v), cvms' \subseteq cvms \cup {v}, CommandInv'
  PROVE  ReleaseInv'
<1>1. Lasting
  BY DEF Lasting
<1>2. CvmTrue(v)'
  BY <1>1, TrueLasts
<1>3. \A x \in cvms' : CvmTrue(x)'
  BY <1>1, <1>2, TrueLasts DEF ReleaseInv
<1>4. \A w \in workers' : WorkerTrue(w)'
  BY <1>1, TrueLasts DEF ReleaseInv
<1>5. \A x \in cvms' : x \in CvmRecords
  BY DEF ReleaseInv
<1> QED  BY <1>3, <1>4, <1>5 DEF ReleaseInv

(* A CVM is created from the approved compose, unless credentials or the   *)
(* node differ.                                                            *)
LEMMA LaunchInv ==
  ASSUME ReleaseInv, NEW held \in BOOLEAN, NEW os \in {Pinned, "other"}, Launch(held, os)
  PROVE  ReleaseInv'
<1>c. PICK c : c = command
  OBVIOUS
<1> DEFINE compose(creds) == AppCompose(Template[c.rel], c.plan.image, c.net,
                                        IF creds THEN "extended" ELSE Canonical)
           made(creds) ==
             [image |-> c.plan.image, kms |-> c.kms, first |-> c.first, reg |-> c.reg,
              approved |-> [compose |-> c.plan.approved.compose, os |-> c.plan.approved.os],
              measured |-> Hashes(compose(creds), os, None),
              endpoint |-> None, declares |-> None]
<1>1. SettledInv(c) /\ c \in Settled
  BY <1>c, CommandPhases DEF Launch, SettledInv
<1>2. UNCHANGED <<table, echo, roots, terms, workers>>
  BY DEF Launch
<1>3. CASE command' = None /\ UNCHANGED cvms
  BY <1>2, <1>3, CommandStepInv DEF CommandInv, Lasting, ReleaseInv
<1>4. ASSUME NEW creds, cvms' = cvms \cup {made(creds)},
             command' = [pc |-> "poll", plan |-> c.plan, cvm |-> made(creds)]
      PROVE  ReleaseInv'
  <2>1. c.plan \in PlanRecords /\ c.plan.image \in Images /\ c.plan.approved \in StampedRows
        /\ c.rel \in Releases /\ c.net \in Nets
    BY <1>1 DEF Settled, PlanRecords
  <2>2. compose(creds) \in Composes
    BY <2>1 DEF AppCompose, RenderCompose, Composes
  <2>3. c.plan.approved.compose \in Composes /\ c.plan.approved.os = Pinned
    BY <2>1 DEF StampedRows
  <2>4. compose(creds).envs = Canonical => compose(creds) = ComposeHash(c.rel, c.plan.image, c.net)
    BY DEF ComposeHash, AppCompose, Canonical
  <2>v. PICK v : v = made(creds)
    OBVIOUS
  <2>5. v \in CvmRecords
    <3> HIDE DEF compose
    <3>1. Hashes(compose(creds), os, None) \in
            [compose : Composes, os : {Pinned, "other"}, form : {None, "bare", "prefixed"}]
      BY <2>2 DEF Hashes
    <3> QED  BY <1>1, <2>1, <2>3, <2>v, <3>1 DEF CvmRecords, Settled
  <2>6. /\ v.measured.compose = compose(creds) /\ v.measured.os = os
        /\ v.approved.compose = c.plan.approved.compose
        /\ v.approved = [compose |-> c.plan.approved.compose, os |-> c.plan.approved.os]
        /\ v.kms = c.kms /\ v.first = c.first /\ v.declares = None
        /\ v.image = c.plan.image /\ v.reg = c.reg
    BY <2>v DEF Hashes
  <2>7. /\ command'.pc = "poll" /\ command'.plan = c.plan /\ command'.cvm = v
        /\ cvms' = cvms \cup {v}
        /\ command' = [pc |-> "poll", plan |-> c.plan, cvm |-> v]
    BY <1>4, <2>v
  <2> HIDE DEF made, compose
  <2>8. CvmTrue(v)
    BY <1>1, <2>4, <2>6 DEF SettledInv, CvmTrue
  <2>9. command' \in Created
    BY <2>1, <2>5, <2>7 DEF Created
  <2>10. CvmTrue(v)'
    BY <1>2, <2>8, TrueLasts DEF Lasting
  <2>11. Declarable(v.image, v.reg, c.plan.declares)'
    BY <1>1, <1>2, <2>6 DEF SettledInv, Declarable
  <2>12. CreatedInv(command)'
    BY <2>6, <2>7, <2>9, <2>10, <2>11 DEF CreatedInv
  <2> QED  BY <1>2, <2>5, <2>7, <2>8, <2>12, CvmStepInv DEF CommandInv
<1>5. \/ \E creds : /\ cvms' = cvms \cup {made(creds)}
                    /\ command' = [pc |-> "poll", plan |-> c.plan, cvm |-> made(creds)]
      \/ command' = None /\ UNCHANGED cvms
  BY <1>c DEF Launch, Ends
<1> QED
  <2> HIDE DEF made
  <2> QED  BY <1>3, <1>4, <1>5

(* The record of a CVM once Phala reports its endpoint and the form of its *)
(* compose hash.                                                           *)
Seen(v, form, e) == [v EXCEPT !.measured.form = form, !.endpoint = e]

(* What Phala reports completes the record of a CVM and changes nothing    *)
(* that was approved.                                                      *)
LEMMA SeenTrue ==
  ASSUME NEW v \in CvmRecords, NEW form \in {"bare", "prefixed"},
         NEW e \in {"edge", "passthrough", "odd"}, CvmTrue(v)
  PROVE  /\ Seen(v, form, e) \in CvmRecords /\ CvmTrue(Seen(v, form, e))
         /\ Seen(v, form, e).image = v.image /\ Seen(v, form, e).reg = v.reg
         /\ Seen(v, form, e).approved = v.approved
         /\ Seen(v, form, e).endpoint = e /\ Seen(v, form, e).declares = v.declares
<1>s. PICK seen : seen = Seen(v, form, e)
  OBVIOUS
<1> DEFINE m == [v.measured EXCEPT !.form = form]
<1>1. v.measured \in [compose : Composes, os : {Pinned, "other"}, form : {None, "bare", "prefixed"}]
  BY DEF CvmRecords
<1>2. /\ m \in [compose : Composes, os : {Pinned, "other"}, form : {None, "bare", "prefixed"}]
      /\ m.compose = v.measured.compose /\ m.os = v.measured.os
  BY <1>1
<1>3. seen = [v EXCEPT !.measured = m, !.endpoint = e]
  BY <1>s DEF CvmRecords, Seen
<1> HIDE DEF m
<1>4. /\ seen \in CvmRecords
      /\ seen.measured = m /\ seen.endpoint = e /\ seen.declares = v.declares
      /\ seen.image = v.image /\ seen.reg = v.reg /\ seen.approved = v.approved
      /\ seen.kms = v.kms /\ seen.first = v.first
  BY <1>2, <1>3 DEF CvmRecords
<1>5. CvmTrue(seen)
  BY <1>2, <1>4 DEF CvmTrue
<1> QED  BY <1>s, <1>4, <1>5

(* The endpoint that Phala reports is the passthrough one, or the deploy   *)
(* ends.                                                                   *)
LEMMA PollInv ==
  ASSUME ReleaseInv, NEW form \in {"bare", "prefixed"}, NEW e \in {"edge", "passthrough", "odd"},
         Poll(form, e)
  PROVE  ReleaseInv'
<1>c. PICK c : c = command
  OBVIOUS
<1>v. PICK v : v = c.cvm
  OBVIOUS
<1>s. PICK seen : seen = [v EXCEPT !.measured.form = form, !.endpoint = e]
  OBVIOUS
<1>k. PICK kept : kept = [seen EXCEPT !.declares = c.plan.declares]
  OBVIOUS
<1>1. CreatedInv(c) /\ c \in Created
  BY <1>c, CommandPhases DEF Poll, CreatedInv
<1>2. UNCHANGED <<table, echo, roots, terms, workers>>
  BY DEF Poll
<1>3. v \in CvmRecords /\ c.plan \in PlanRecords /\ CvmTrue(v)
  BY <1>1, <1>v DEF Created, CreatedInv
<1>4. /\ seen \in CvmRecords /\ CvmTrue(seen)
      /\ seen.image = v.image /\ seen.reg = v.reg /\ seen.approved = v.approved
      /\ seen.endpoint = e
  <2>1. v \in CvmRecords
    BY <1>3
  <2>2. CvmTrue(v)
    BY <1>3
  <2>3. seen = Seen(v, form, e)
    BY <1>s DEF Seen
  <2> QED  BY <2>1, <2>2, <2>3, SeenTrue
<1>5. IF Passthrough(e) = {} THEN cvms' = (cvms \ {v}) \cup {seen} /\ command' = None
      ELSE /\ cvms' = (cvms \ {v}) \cup {kept}
           /\ command' = [pc |-> "register", plan |-> c.plan, cvm |-> kept]
  BY <1>c, <1>v, <1>s, <1>k DEF Poll, Ends
<1>6. CASE Passthrough(e) = {}
  <2>1. cvms' \subseteq cvms \cup {seen} /\ CommandInv'
    BY <1>5, <1>6 DEF CommandInv
  <2> QED  BY <1>2, <1>4, <2>1, CvmStepInv
<1>7. CASE Passthrough(e) # {}
  <2>1. c.plan.declares \in Declarations
    BY <1>3 DEF PlanRecords
  <2>2. /\ kept \in CvmRecords
        /\ kept.measured = seen.measured /\ kept.endpoint = e
        /\ kept.declares = c.plan.declares
        /\ kept.image = v.image /\ kept.reg = v.reg /\ kept.approved = v.approved
        /\ kept.kms = seen.kms /\ kept.first = seen.first
    BY <1>4, <1>k, <2>1 DEF CvmRecords
  <2>3. /\ command'.pc = "register" /\ command'.plan = c.plan /\ command'.cvm = kept
        /\ cvms' \subseteq cvms \cup {kept}
        /\ command' = [pc |-> "register", plan |-> c.plan, cvm |-> kept]
    BY <1>5, <1>7
  <2>4. CvmTrue(kept)
    BY <1>1, <1>4, <1>v, <2>2 DEF CvmTrue, CreatedInv
  <2>5. command' \in Created
    BY <1>3, <2>2, <2>3 DEF Created
  <2>6. CvmTrue(kept)'
    BY <1>2, <2>4, TrueLasts DEF Lasting
  <2>7. Declarable(kept.image, kept.reg, c.plan.declares)'
    BY <1>1, <1>2, <1>v, <2>2 DEF CreatedInv, Declarable
  <2>8. Passthrough(kept.endpoint) = {"passthrough"}
    BY <1>7, <2>2 DEF Passthrough
  <2>9. CreatedInv(command)'
    BY <1>1, <1>v, <2>2, <2>3, <2>5, <2>6, <2>7, <2>8 DEF CreatedInv
  <2> QED  BY <1>2, <2>2, <2>3, <2>4, <2>9, CvmStepInv DEF CommandInv
<1> QED  BY <1>6, <1>7

(* A CVM that boots after its deploy has ended is completed all the same.  *)
LEMMA LateBootInv ==
  ASSUME ReleaseInv, NEW v \in cvms, NEW form \in {"bare", "prefixed"},
         NEW e \in {"edge", "passthrough", "odd"}, LateBoot(v, form, e)
  PROVE  ReleaseInv'
<1>s. PICK seen : seen = [v EXCEPT !.measured.form = form, !.endpoint = e]
  OBVIOUS
<1>1. seen \in CvmRecords /\ CvmTrue(seen)
  BY <1>s, SeenTrue DEF ReleaseInv, Seen
<1>2. /\ UNCHANGED <<table, echo, roots, terms, workers>>
      /\ command' = None /\ cvms' = (cvms \ {v}) \cup {seen}
  BY <1>s DEF LateBoot
<1> QED  BY <1>1, <1>2, CvmStepInv DEF CommandInv

(* A worker row is added of which everything holds.                        *)
LEMMA WorkerStepInv ==
  ASSUME ReleaseInv, UNCHANGED <<table, echo, roots, terms, cvms>>,
         NEW w, WorkerTrue(w), workers' \subseteq workers \cup {w}, command' = None
  PROVE  ReleaseInv'
<1>1. Lasting
  BY DEF Lasting
<1>2. WorkerTrue(w)'
  BY <1>1, TrueLasts
<1>3. \A x \in workers' : WorkerTrue(x)'
  BY <1>1, <1>2, TrueLasts DEF ReleaseInv
<1>4. \A x \in cvms' : CvmTrue(x)'
  BY <1>1, TrueLasts DEF ReleaseInv
<1>5. CommandInv'
  BY DEF CommandInv
<1> QED  BY <1>3, <1>4, <1>5 DEF ReleaseInv

(* A worker is registered only under the hashes that were approved.        *)
LEMMA RegisterInv ==
  ASSUME ReleaseInv, Register
  PROVE  ReleaseInv'
<1> DEFINE v == command.cvm
           w == [Worker(v, v.declares) EXCEPT !.checked = TRUE]
<1>1. CreatedInv(command) /\ v \in CvmRecords /\ command.pc = "register"
  BY CommandPhases DEF Register, CreatedInv, Created
<1>2. /\ UNCHANGED <<table, echo, roots, terms, cvms>> /\ command' = None
      /\ workers' = IF HashesMatch(v.measured, command.plan.approved)
                    THEN workers \cup {w} ELSE workers
  BY DEF Register, Ends
<1>3. CASE ~HashesMatch(v.measured, command.plan.approved)
  BY <1>2, <1>3, CommandStepInv DEF CommandInv, Lasting, ReleaseInv
<1>4. CASE HashesMatch(v.measured, command.plan.approved)
  <2>1. /\ w.hashes = Normalized(v.measured) /\ w.approved = v.approved
        /\ w.endpoints = Passthrough(v.endpoint) /\ w.declares = v.declares
        /\ w.image = v.image /\ w.reg = v.reg
    BY DEF Worker
  <2>2. v.measured \in
          [compose : Composes, os : {Pinned, "other"}, form : {None, "bare", "prefixed"}]
    BY <1>1 DEF CvmRecords
  <2>3. Normalized(v.measured) = Hashes(v.approved.compose, v.approved.os, "bare")
    <3>1. /\ v.approved.compose = command.plan.approved.compose
          /\ v.approved.os = command.plan.approved.os
      BY <1>1 DEF CreatedInv
    <3>2. Normalized(v.measured) = [compose |-> v.measured.compose, os |-> v.measured.os,
                                    form |-> "bare"]
      BY <2>2 DEF Normalized
    <3> QED  BY <1>4, <3>1, <3>2 DEF HashesMatch, Hashes
  <2>4. Declarable(v.image, v.reg, v.declares)
    BY <1>1 DEF CreatedInv
  <2>5. Passthrough(v.endpoint) = {"passthrough"}
    BY <1>1 DEF CreatedInv
  <2> HIDE DEF w, v
  <2>6. WorkerTrue(w)
    BY <2>1, <2>3, <2>4, <2>5 DEF WorkerTrue, Declarable
  <2> QED  BY <1>2, <1>4, <2>6, WorkerStepInv
<1> QED  BY <1>3, <1>4

(* So is a worker whose image is recovered.                                *)
LEMMA RegisterImageInv ==
  ASSUME ReleaseInv, NEW v \in cvms, NEW backend \in Backends, RegisterImage(v, backend)
  PROVE  ReleaseInv'
<1> DEFINE declares == IF v.declares # None THEN v.declares ELSE Needs(backend)
           w == Worker(v, declares)
<1>1. /\ UNCHANGED <<table, echo, roots, terms, cvms>> /\ command' = None
      /\ workers' = workers \cup {w}
      /\ Passthrough(v.endpoint) # {}
      /\ "hop" \in declares => v.reg \in echo
  BY DEF RegisterImage, EchoesModels
<1>2. CvmTrue(v)
  BY DEF ReleaseInv
<1>3. /\ w.endpoints = Passthrough(v.endpoint) /\ w.declares = declares
      /\ w.image = v.image /\ w.reg = v.reg /\ ~w.checked
      /\ w.recorded => v.declares # None
  BY DEF Worker
<1>4. Passthrough(v.endpoint) = {"passthrough"}
  BY <1>1 DEF Passthrough
<1>5. w.recorded => declares \subseteq Understands(v.image)
  BY <1>2, <1>3 DEF CvmTrue, Declarable
<1> HIDE DEF w, declares
<1>6. WorkerTrue(w)
  BY <1>1, <1>3, <1>4, <1>5 DEF WorkerTrue
<1> QED  BY <1>1, <1>6, WorkerStepInv

(* A deploy may end between any two of its steps.                          *)
LEMMA FailInv ==
  ASSUME ReleaseInv, Fail  PROVE ReleaseInv'
BY CommandStepInv DEF Fail, Ends, CommandInv, Lasting, ReleaseInv

-----------------------------------------------------------------------------
(* The theorems.                                                           *)

(***************************************************************************)
(* The invariant of releases and deploys, whatever is published, withdrawn *)
(* and upgraded between them and wherever a deploy stops.                  *)
(***************************************************************************)
THEOREM ReleaseInvariance == ReleaseSpec => []ReleaseInv
<1>1. ReleaseInit => ReleaseInv
  BY ReleaseInitInv
<1>2. ReleaseInv /\ [ReleaseNext]_releaseVars => ReleaseInv'
  <2> SUFFICES ASSUME ReleaseInv, [ReleaseNext]_releaseVars  PROVE ReleaseInv'
    OBVIOUS
  <2>1. CASE \E rel \in Releases, net, reg \in Nets : Publish(rel, net, reg)
    BY <2>1, PublishInv
  <2>2. CASE \E reg \in Nets : Upgrade(reg) \/ \E i \in DOMAIN table[reg] : Withdraw(reg, i)
    BY <2>2, UpgradeInv, WithdrawInv
  <2>3. CASE \E rel \in Releases, net, reg \in Nets, first \in BOOLEAN,
                id \in {None} \cup {r.id : r \in UNION RootSets} :
               StartDeploy(rel, net, reg, first, id)
    BY <2>3, StartDeployInv
  <2>4. CASE \E accepts, multi \in BOOLEAN, backend \in Backends :
               Preflight(accepts, backend, multi)
    BY <2>4, PreflightInv
  <2>5. CASE \E pin \in Pins, ref \in {None} \cup Images, repo \in BOOLEAN : Plan(pin, ref, repo)
    BY <2>5, PlanInv
  <2>6. CASE \E held \in BOOLEAN, os \in {Pinned, "other"} : Launch(held, os)
    BY <2>6, LaunchInv
  <2>7. CASE \E form \in {"bare", "prefixed"}, e \in {"edge", "passthrough", "odd"} :
               Poll(form, e) \/ \E v \in cvms : LateBoot(v, form, e)
    BY <2>7, PollInv, LateBootInv
  <2>8. CASE Register
    BY <2>8, RegisterInv
  <2>9. CASE \E v \in cvms, backend \in Backends : RegisterImage(v, backend)
    BY <2>9, RegisterImageInv
  <2>10. CASE Fail
    BY <2>10, FailInv
  <2>11. CASE UNCHANGED releaseVars
    <3>1. Lasting /\ UNCHANGED <<table, echo, terms, command, cvms, workers>>
      BY <2>11 DEF releaseVars, Lasting
    <3> QED  BY <3>1, RegistryStepInv DEF ReleaseInv
  <2> QED
    BY <2>1, <2>2, <2>3, <2>4, <2>5, <2>6, <2>7, <2>8, <2>9, <2>10, <2>11 DEF ReleaseNext
<1> QED  BY <1>1, <1>2, PTL DEF ReleaseSpec

(***************************************************************************)
(* What is declared about a recorded worker its image can do, and what a   *)
(* deploy registers was approved for exactly what was measured.            *)
(***************************************************************************)
THEOREM ApprovedAlways == ReleaseSpec => []DeployedAsApproved
<1>1. ReleaseInv => DeployedAsApproved
  BY DEF ReleaseInv, DeployedAsApproved, WorkerTrue, CvmTrue, Rooted
<1> QED  BY <1>1, ReleaseInvariance, PTL

=============================================================================
