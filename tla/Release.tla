------------------------------ MODULE Release ------------------------------
(***************************************************************************)
(* From a release to a registered worker: gmcli publish-image-version      *)
(* stamps an image into a registry's allow-list, and gmcli deploy chooses  *)
(* an approved version, renders its own template around an image, creates  *)
(* a CVM and registers what the CVM measured (cli/src/image_version.rs,    *)
(* compose_hash.rs, deploy/, commands/deploy.rs).  The two run months      *)
(* apart, from different releases of the CLI, against registries of        *)
(* different networks, and what was approved may be withdrawn in between.  *)
(*                                                                         *)
(* A release is a number.  Its image is named by the same number, and      *)
(* Built says what that image can really do; Own is an image the operator  *)
(* built.  A hash is the record of what it covers.  Which worker a row is  *)
(* for, and what a failed command leaves behind, is the subject of Deploy. *)
(***************************************************************************)
EXTENDS Naturals, SequencesExt, Option

CONSTANTS Releases,     \* releases of gmcli and of the image
          Template,     \* release -> compose template it bundles
          Built,        \* release -> features its image has
          Own,          \* an image built with --image-repo
          Nets,         \* networks, each with its registry
          RootSets,     \* what a registry may answer to GET /kms-roots
          MaxPublished, \* bound: rows ever published
          MaxDeploys    \* bound: deploys

\* An image of the operator's own is no release's, and both can be told from no
\* image.
ASSUME ReleaseAssumption == Own \notin Releases /\ None \notin Releases \cup {Own}

VARIABLES table,     \* registry -> sequence of approved versions, oldest first
          echo,      \* registries that advertise upstream-model-echo
          roots,     \* the KMS roots every registry lists
          terms,     \* version of the terms accepted in the configuration, if any
          command,   \* the deploy that is running, or None
          cvms,      \* CVMs with what Phala measured and what gmcli recorded
          workers,   \* what was registered
          deploys    \* deploys so far

releaseVars == <<table, echo, roots, terms, command, cvms, workers, deploys>>

Images == Releases \cup {Own}

\* What the entrypoint of an image understands.
Understands(ref) == IF ref = Own THEN {} ELSE Built[ref]

-----------------------------------------------------------------------------
(* Hashes                                                                  *)

\* render_compose: the image and the network in the places the template has for
\* them.
RenderCompose(template, ref, net) == [template |-> template, ref |-> ref, net |-> net]

\* build_app_compose: everything the measurement covers.
AppCompose(template, ref, net, envs) ==
    [compose |-> RenderCompose(template, ref, net), envs |-> envs]

\* CANONICAL_ALLOWED_ENVS: the names of the variables, whatever keys are set.
Canonical == "canonical"

\* compute_compose_hash.
ComposeHash(rel, ref, net) == AppCompose(Template[rel], ref, net, Canonical)

\* PINNED_OS_IMAGE_HASH.
Pinned == "pinned"

\* normalize_hash: Phala may write a hash in capitals or with its prefix.
Normalized(h) == [h EXCEPT !.form = "bare"]

Hashes(compose, os, form) == [compose |-> compose, os |-> os, form |-> form]

\* Only the compose hash compared.
ComposeHashMatches(actual, approved) ==
    Normalized(actual).compose = approved.compose

\* verify_hashes.
HashesMatch(actual, approved) ==
    /\ Normalized(actual).compose = approved.compose
    /\ Normalized(actual).os = approved.os

-----------------------------------------------------------------------------
(* publish-image-version                                                   *)

\* ImageVersion, as far as a deploy reads it.
ImageVersion(compose, os, features, tag, ref) ==
    [compose |-> compose, os |-> os, features |-> features, tag |-> tag, ref |-> ref]

\* The features of the newest release stamped on any image.
LatestStamp(rel, net) ==
    ImageVersion(ComposeHash(rel, rel, net), Pinned, UNION {Built[r] : r \in Releases}, rel, rel)

\* build_admin_request, with IMAGE_FEATURES of the release that publishes; the
\* release workflow publishes an image with the gmcli of the same tag.
AdminRequest(rel, net) ==
    ImageVersion(ComposeHash(rel, rel, net), Pinned, Built[rel], rel, rel)

SameKey(v, w) == v.compose = w.compose /\ v.os = w.os

\* A deploy reads the versions once, so what a registry lists changes before the
\* deploy or after it.
Quiet == command = None /\ deploys < MaxDeploys

\* require_capability("upstream-model-echo"): the registry tells models of cloud
\* upstreams apart.
EchoesModels(reg) == reg \in echo

\* The admin endpoint updates the row with the same hashes, or inserts one.
Upserted(vs, row) ==
    LET same == {i \in DOMAIN vs : SameKey(vs[i], row)}
    IN IF same = {} THEN Append(vs, row)
       ELSE [i \in DOMAIN vs |-> IF i \in same THEN row ELSE vs[i]]

\* post_admin_image_version: an image with cloud bindings only goes to a
\* registry that can tell their models apart.  --api-url sends the row of one
\* network to the registry of another.
Publish(rel, net, reg) ==
    LET row == AdminRequest(rel, net)
    IN /\ "hop" \in row.features => EchoesModels(reg)
       /\ Quiet
       /\ table' = [table EXCEPT ![reg] = Upserted(@, row)]
       /\ MapThenSumSet(LAMBDA n : Len(table'[n]), Nets) <= MaxPublished
       /\ UNCHANGED <<echo, roots, terms, command, cvms, workers, deploys>>

\* A row of the days when hashes were published by hand: no image, no tag.
LegacyRow(rel, net) == ImageVersion(ComposeHash(rel, rel, net), Pinned, {}, None, None)

\* The registry withdraws a version: it is no longer listed as supported.
Withdraw(reg, i) ==
    /\ Quiet
    /\ table' = [table EXCEPT ![reg] = RemoveAt(@, i)]
    /\ UNCHANGED <<echo, roots, terms, command, cvms, workers, deploys>>

\* A newer registry is deployed.
Upgrade(reg) ==
    /\ reg \notin echo /\ echo' = echo \cup {reg}
    /\ UNCHANGED <<table, roots, terms, command, cvms, workers, deploys>>

-----------------------------------------------------------------------------
(* deploy, up to the CVM                                                   *)

\* allowed_contract_ids: only an explicit null makes a root non-expiring.
AllowedContracts(rs) == {r.id : r \in {x \in rs : x.forever}} \ {None}

\* select_kms_contract_id: the one asked for if it does not expire, else the
\* default root if it does not; nothing is guessed.
SelectKms(rs, requested) ==
    IF requested # None THEN AllowedContracts(rs) \cap {requested}
    ELSE {r.id : r \in {x \in rs : x.default /\ x.forever}} \ {None}

\* cmd_deploy_subcommand: the contract is resolved before anything is asked.
StartDeploy(rel, net, reg, first, requested) ==
    /\ command = None /\ deploys < MaxDeploys
    /\ \E id \in SelectKms(roots, requested) :
         command' = [pc |-> "preflight", rel |-> rel, net |-> net, reg |-> reg, first |-> first,
                     kms |-> id]
    /\ deploys' = deploys + 1
    /\ UNCHANGED <<table, echo, roots, terms, cvms, workers>>

Ends == command' = None

\* terms::gate: a current acceptance passes, else the operator accepts now (by
\* flag, variable or answer) or the deploy stops.  --yes accepts nothing.
TermsGate(accepts) == terms = "current" \/ accepts

\* The keys of the configuration: their cloud backends, and whether a provider
\* has several.
Backends == {"direct", "cloud", "bedrock"}

\* worker_backends.
Needs(backend) ==
    CASE backend = "direct" -> {} [] backend = "cloud" -> {"hop"}
      [] backend = "bedrock" -> {"hop", "bedrock"}

\* deploy_preflight and require_cloud_registration_capability_for_worker.
Preflight(accepts, backend, multi) ==
    /\ command # None /\ command.pc = "preflight"
    /\ IF (command.first => TermsGate(accepts)) /\ (backend # "direct" => EchoesModels(command.reg))
       THEN command' = [rel |-> command.rel, net |-> command.net, reg |-> command.reg,
                        first |-> command.first, kms |-> command.kms,
                        backend |-> backend, multi |-> multi, pc |-> "plan"]
       ELSE Ends
    /\ terms' = IF command.first /\ TermsGate(accepts) THEN "current" ELSE terms
    /\ UNCHANGED <<table, echo, roots, cvms, workers, deploys>>

\* fetch_supported_versions sorts newest first.
Fetched(reg) == Reverse(table[reg])

\* select_version: the version of this release, or the one pinned by its index.
SelectVersion(vs, rel, pin) ==
    IF pin = 0
    THEN LET mine == {i \in DOMAIN vs : vs[i].tag = rel}
         IN {vs[i] : i \in {i \in mine : \A j \in mine : i <= j}}
    ELSE {vs[i] : i \in DOMAIN vs \cap {pin}}

\* build_and_push_image: an image of the operator's own, pinned by its digest.
BuildAndPush == {Own}

\* resolve_image_source and PublicRegistryProvisioner: --image-ref, else a build
\* for --image-repo, else the image of the approved version.
ImageSource(ref, repo, approved) ==
    IF ref # None THEN {ref}
    ELSE IF repo THEN BuildAndPush
    ELSE {approved.ref} \ {None}

\* image_is_slot_capable and image_is_cloud_binding_capable: the verdict is about
\* the image that will run.
Stamped(feature, ref, repo, approved, vs) ==
    IF ref # None THEN \E v \in ToSet(vs) : v.ref = ref /\ feature \in v.features
    ELSE ~repo /\ feature \in approved.features

\* image_is_bedrock_mantle_capable: the approved version and every row with its
\* measurements carry the feature for exactly this image.
BedrockCapable(ref, repo, approved, vs) ==
    /\ ref # None \/ ~repo
    /\ "bedrock" \in approved.features
    /\ approved.ref # None
    /\ ref \in {None, approved.ref}
    /\ \A v \in ToSet(vs) : SameKey(v, approved) => "bedrock" \in v.features /\ v.ref = approved.ref

\* What the plan settles before any CVM exists: the approved version, the image,
\* and what will be declared about the worker.
Plans(c, pin, ref, repo) ==
    LET vs == Fetched(c.reg)
        fit == {a \in SelectVersion(vs, c.rel, pin) :
                  /\ c.backend # "direct" => Stamped("hop", ref, repo, a, vs)
                  /\ c.backend = "bedrock" => BedrockCapable(ref, repo, a, vs)
                  /\ c.multi => Stamped("slots", ref, repo, a, vs)}
    IN UNION {{[approved |-> a, image |-> i,
                declares |-> Needs(c.backend) \cup
                             (IF Stamped("slots", ref, repo, a, vs) THEN {"slots"} ELSE {})] :
               i \in ImageSource(ref, repo, a)} : a \in fit}

\* cmd_deploy_with_kms, between the fetch and the launch.  A template or an
\* image other than the approved one is refused while it costs nothing.
Plan(pin, ref, repo) ==
    LET ok == {p \in Plans(command, pin, ref, repo) :
                 HashesMatch(Hashes(ComposeHash(command.rel, p.image, command.net), Pinned, "bare"),
                             p.approved)}
    IN /\ command # None /\ command.pc = "plan"
       /\ \/ \E p \in ok :
               command' = [pc |-> "launch", rel |-> command.rel, net |-> command.net,
                           reg |-> command.reg, first |-> command.first, kms |-> command.kms,
                           plan |-> p]
          \/ ok = {} /\ Ends
       /\ UNCHANGED <<table, echo, roots, terms, cvms, workers, deploys>>

-----------------------------------------------------------------------------
(* deploy, from the CVM on                                                 *)

\* visibility_from_status.
Visibility(status) ==
    CASE status = 200 -> "public" [] status = 403 -> "private" [] OTHER -> "probe"

\* fetch_anonymous_token and the retry of probe_with_bearer: a token service that
\* denies the anonymous caller, or a second denial, means private; anything else
\* unexpected is an error, never a verdict.
WithBearer(token, retry) ==
    CASE token = "denied" -> {FALSE}
      [] token = "failed" -> {}
      [] token = "issued" ->
           IF Visibility(retry) = "public" THEN {TRUE}
           ELSE IF retry \in {401, 403} THEN {FALSE} ELSE {}

\* image_is_public and probe_with_bearer.
ImageIsPublic(status, challenge, token, retry) ==
    CASE Visibility(status) = "public" -> {TRUE}
      [] Visibility(status) = "private" -> {FALSE}
      [] Visibility(status) = "probe" ->
           IF challenge THEN WithBearer(token, retry) ELSE IF status = 401 THEN {FALSE} ELSE {}

\* resolve_registry_credentials: an image that is not public needs the pull
\* credentials of the operator, and they go into the environment file.
PullCredentials(public, held) ==
    IF public = {} THEN {} ELSE IF public = {TRUE} THEN {FALSE} ELSE IF held THEN {TRUE} ELSE {}

\* What the registry of an image may answer.
Statuses == {200, 401, 403, 404}

PullVerdicts ==
    {ImageIsPublic(s, c, t, r) : s \in Statuses, c \in BOOLEAN,
                                 t \in {"issued", "denied", "failed"}, r \in Statuses}

\* phala deploy: Phala measures the names of the environment file with the rest;
\* a node may run another OS image than the one asked for.
Launch(held, os) ==
    LET c == command
    IN /\ c # None /\ c.pc = "launch"
       /\ \E public \in PullVerdicts :
          \/ \E creds \in PullCredentials(public, held) :
               LET v == [image |-> c.plan.image, kms |-> c.kms, first |-> c.first, reg |-> c.reg,
                         approved |-> [compose |-> c.plan.approved.compose,
                                       os |-> c.plan.approved.os],
                         measured |-> Hashes(AppCompose(Template[c.rel], c.plan.image, c.net,
                                                        IF creds THEN "extended" ELSE Canonical),
                                             os, None),
                         endpoint |-> None, declares |-> None]
               IN /\ cvms' = cvms \cup {v}
                  /\ command' = [pc |-> "poll", plan |-> c.plan, cvm |-> v]
          \/ PullCredentials(public, held) = {} /\ Ends /\ UNCHANGED cvms
       /\ UNCHANGED <<table, echo, roots, terms, workers, deploys>>

\* to_ratls_passthrough_endpoint: the -<port>s form; a host of another shape is
\* refused.
Passthrough(endpoint) == IF endpoint \in {"edge", "passthrough"} THEN {"passthrough"} ELSE {}

\* poll_phala_cvm_outcome and the save of the app id: from here on the record
\* says what was deployed.
Poll(form, endpoint) ==
    LET v == command.cvm
        seen == [v EXCEPT !.measured.form = form, !.endpoint = endpoint]
        kept == [seen EXCEPT !.declares = command.plan.declares]
    IN /\ command # None /\ command.pc = "poll"
       /\ IF Passthrough(endpoint) = {} THEN cvms' = (cvms \ {v}) \cup {seen} /\ Ends
          ELSE /\ cvms' = (cvms \ {v}) \cup {kept}
               /\ command' = [pc |-> "register", plan |-> command.plan, cvm |-> kept]
       /\ UNCHANGED <<table, echo, roots, terms, workers, deploys>>

\* WorkerImageArgs.
Worker(v, declares) ==
    [image |-> v.image, hashes |-> Normalized(v.measured), approved |-> v.approved, reg |-> v.reg,
     endpoints |-> Passthrough(v.endpoint), declares |-> declares,
     recorded |-> v.declares # None, checked |-> FALSE]

\* verify_hashes once more, on what the CVM measured, then the registration.
Register ==
    LET v == command.cvm
    IN /\ command # None /\ command.pc = "register"
       /\ workers' = IF HashesMatch(v.measured, command.plan.approved)
                     THEN workers \cup {[Worker(v, v.declares) EXCEPT !.checked = TRUE]}
                     ELSE workers
       /\ Ends
       /\ UNCHANGED <<table, echo, roots, terms, cvms, deploys>>

\* register-image of a CVM: the recorded declarations, or the backends of the
\* current configuration for a CVM without a record.  The hashes are the CVM's
\* own, whatever the deploy thought of them.
RegisterImage(v, backend) ==
    LET declares == IF v.declares # None THEN v.declares ELSE Needs(backend)
    IN /\ command = None /\ v.measured.form # None
       /\ Passthrough(v.endpoint) # {}
       /\ "hop" \in declares => EchoesModels(v.reg)
       /\ workers' = workers \cup {Worker(v, declares)}
       /\ UNCHANGED <<table, echo, roots, terms, command, cvms, deploys>>

\* A CVM that boots after its deploy gave up reports its measurements too.
LateBoot(v, form, endpoint) ==
    /\ command = None /\ v.measured.form = None
    /\ cvms' = (cvms \ {v}) \cup {[v EXCEPT !.measured.form = form, !.endpoint = endpoint]}
    /\ UNCHANGED <<table, echo, roots, terms, command, workers, deploys>>

\* Any step may fail, time out or be cut off.
Fail ==
    /\ command # None /\ Ends
    /\ UNCHANGED <<table, echo, roots, terms, cvms, workers, deploys>>

-----------------------------------------------------------------------------

ReleaseInit ==
    /\ \E old \in SUBSET Nets, r \in Releases :
          table = [n \in Nets |-> IF n \in old THEN <<LegacyRow(r, n)>> ELSE <<>>]
    /\ echo \in SUBSET Nets
    /\ roots \in RootSets
    /\ terms \in {"old", "current"}
    /\ command = None /\ cvms = {} /\ workers = {} /\ deploys = 0

Pins == 0 .. MaxPublished + 1

ReleaseNext ==
    \/ \E rel \in Releases, net, reg \in Nets : Publish(rel, net, reg)
    \/ \E reg \in Nets : Upgrade(reg) \/ \E i \in DOMAIN table[reg] : Withdraw(reg, i)
    \/ \E rel \in Releases, net, reg \in Nets, first \in BOOLEAN,
          id \in {None} \cup {r.id : r \in UNION RootSets} : StartDeploy(rel, net, reg, first, id)
    \/ \E accepts, multi \in BOOLEAN, backend \in Backends : Preflight(accepts, backend, multi)
    \/ \E pin \in Pins, ref \in {None} \cup Images, repo \in BOOLEAN : Plan(pin, ref, repo)
    \/ \E held \in BOOLEAN, os \in {Pinned, "other"} : Launch(held, os)
    \/ \E form \in {"bare", "prefixed"}, e \in {"edge", "passthrough", "odd"} :
          Poll(form, e) \/ \E v \in cvms : LateBoot(v, form, e)
    \/ Register
    \/ \E v \in cvms, backend \in Backends : RegisterImage(v, backend)
    \/ Fail

ReleaseSpec == ReleaseInit /\ [][ReleaseNext]_releaseVars

-----------------------------------------------------------------------------
(* Properties                                                              *)

\* Whatever is declared about a recorded worker, its image can do; what a deploy
\* registers was approved for exactly that image, operating system and network,
\* and is reachable where its own certificate is served.  A CVM is paid for only
\* when its approval was already certain: unless it needs pull credentials or
\* lands on a node with another OS image, what it measures is what was approved.
DeployedAsApproved ==
    /\ \A w \in workers :
         /\ w.recorded => w.declares \subseteq Understands(w.image)
         /\ w.checked => w.hashes = Hashes(w.approved.compose, w.approved.os, "bare")
         /\ w.endpoints = {"passthrough"}
         /\ "hop" \in w.declares => w.reg \in echo
    /\ \A v \in cvms :
         /\ v.measured.os = Pinned /\ v.measured.compose.envs = Canonical =>
              v.measured.compose = v.approved.compose
         /\ \E r \in roots : r.id = v.kms /\ r.forever
         /\ v.first => terms = "current"
=============================================================================
