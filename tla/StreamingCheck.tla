--------------------------- MODULE StreamingCheck ---------------------------
(***************************************************************************)
(* `gmcli check-streaming` and the self-test at the end of a deploy (cli   *)
(* commands/streaming_check.rs): which worker is probed, for which models, *)
(* through which key slot and under which execution policy.                *)
(*                                                                         *)
(* The check joins what the registry says of the worker, the miner's       *)
(* offers, the buyer catalog, the routes and the Bedrock model bindings.   *)
(* Each is fetched by itself, may be missing, and may have moved since the *)
(* previous one.  Offers belong to the miner and not to the worker, so     *)
(* that what a sibling serves must not leak into a probe.                  *)
(***************************************************************************)
EXTENDS Market

CONSTANTS Sourcing,   \* sourcing_providers
          Keyed,      \* providers the local config has a key for
          Fallback,   \* fallback_model: provider -> model
          Born,       \* the order in which the workers were registered
          Revisions,  \* revisions of a Bedrock model binding
          Snapshot,   \* the revision of the registry's document, above them
          Here,       \* the selected network
          DerivedSlot \* the slot of the configured Bedrock key

VARIABLE bindings     \* the registry's Bedrock bindings: model -> revision

checkVars == <<sel, records, rows, unsaved, offers, echo, cmd, moves, cmds, bindings>>

Models(p) == {x.model : x \in {x \in Catalog \union Routes : x.provider = p}}

ASSUME StreamingAssumption ==
  /\ Snapshot \in Nat /\ Revisions \subseteq Nat
  /\ None \notin Revisions /\ None \notin Models("anthropic") /\ None \notin {Here, DerivedSlot}
  /\ \A c \in Coverages : \A p \in DOMAIN c : None \notin DOMAIN c[p].slots

-----------------------------------------------------------------------------
\* The target of a check: [w, cover, backends, capable], and what the check could
\* not see: the worker's row.  cover is None in the self-test after a deploy.

Live == {w \in Workers : rows[w] # None}

\* The oldest worker that the registry still lists.
first_live_worker_id(w) == w \in Live /\ \A v \in Live : Born[w] <= Born[v]

\* Every published version of the image is supported and has the feature.
image_has_bedrock_policy_feature(h) ==
  h \in DOMAIN Images /\ Images[h].status = "supported" /\ Images[h].binding

\* A record without a backend map counts as a direct worker's here.
backends_from_config(record) == IF record.backends = None THEN Direct ELSE record.backends

\* A slot counts whatever its status is.
AnySlotCounts(cover) ==
  [p \in DOMAIN cover |->
     [unscoped |-> cover[p].unscoped,
      by_slot |-> [s \in DOMAIN cover[p].slots |-> cover[p].slots[s].models]]]

\* The coverage of a worker: per provider, the models known without a slot and
\* those of each verified slot.
worker_provider_models(cover) ==
  [p \in DOMAIN cover |->
     [unscoped |-> cover[p].unscoped,
      by_slot |-> [s \in {s \in DOMAIN cover[p].slots : cover[p].slots[s].verified} |->
                     cover[p].slots[s].models]]]

pick_target_worker(w, capable) ==
  [w |-> w, cover |-> worker_provider_models(rows[w].cover),
   backends |-> backends_from_config(records[w]), capable |-> capable, row |-> rows[w],
   known |-> records[w].backends # None /\ w \notin unsaved]

\* resolve_primary_worker: the image's feature is looked up for a Bedrock worker
\* only, and is taken as missing when the list of versions cannot be read.
resolve_primary_worker(w) ==
  {pick_target_worker(w, c) :
     c \in {FALSE} \union (IF backends_from_config(records[w])["anthropic"] = "bedrock"
                           THEN {image_has_bedrock_policy_feature(rows[w].hash)} ELSE {})}

Check(target) ==
  /\ cmd = None /\ cmds < MaxCmds /\ cmds' = cmds + 1
  /\ cmd' = [kind |-> "check", at |-> "gather", target |-> target, probes |-> {},
             declared |-> None, catalog |-> {}, routes |-> {}, bound |-> None,
             todo |-> {}, moved |-> {}]
  /\ UNCHANGED <<world, offers, moves, bindings>>

cmd_check_streaming ==
  \E w \in Workers : /\ first_live_worker_id(w) /\ records[w] # None
                     /\ \E target \in resolve_primary_worker(w) : Check(target)

\* The worker that a deploy of this config has just registered and recorded.
deploy_streaming_advisory ==
  \E w \in Live \ unsaved :
    /\ records[w] # None /\ records[w].backends = Backends /\ rows[w].backends = Backends
    /\ Check([w |-> w, cover |-> None, backends |-> Backends, row |-> rows[w], known |-> TRUE,
              capable |-> image_has_bedrock_policy_feature(rows[w].hash)])

-----------------------------------------------------------------------------
\* What there is to probe

providers_for_target(target) == IF target.cover = None THEN Keyed ELSE DOMAIN target.cover

Checking(step) == cmd # None /\ cmd.kind = "check" /\ cmd.at = step

\* fetch_declared_offers, fetch_catalog and fetch_routes, each of which may fail.
Gather ==
  /\ Checking("gather")
  /\ \E d \in {None, offers}, c \in {Catalog, {}}, r \in {Routes, {}} :
       cmd' = [cmd EXCEPT !.declared = d, !.catalog = c, !.routes = r, !.at = "bindings",
                          !.todo = providers_for_target(cmd.target)]
  /\ UNCHANGED <<world, offers, moves, cmds, bindings>>

\* The answers of the network's fixed registry: the bindings, or a document that
\* is another network's, older than one of its rows, or names a model twice (the
\* list of rows is a set of rows under a tag each).
Documents ==
  LET entry(m, r) == [model |-> m, revision |-> r]
      bound == {m \in DOMAIN bindings : bindings[m] # None}
      own == [network |-> Here, revision |-> Snapshot,
              rows |-> {<<m, entry(m, bindings[m])>> : m \in bound}]
  IN {own, [own EXCEPT !.network = None, !.rows = {<<m, entry(m, Snapshot)>> : m \in bound}],
      [own EXCEPT !.rows = {<<m, entry(m, Snapshot + 1)>> : m \in bound}],
      [own EXCEPT !.rows = @ \cup {<<None, entry(m, Snapshot)>> : m \in bound}]}

\* The network that a document is for is not looked at.
AnyNetwork(doc) ==
  IF \E x, y \in doc.rows : x[2].revision > doc.revision \/ (x # y /\ x[2].model = y[2].model)
  THEN None
  ELSE [m \in {x[2].model : x \in doc.rows} |->
          (CHOOSE x \in doc.rows : x[2].model = m)[2].revision]

\* One flaw, and there are no bindings at all.
parse_bindings(doc) ==
  IF \/ doc.network # Here
     \/ \E x \in doc.rows : x[2].revision > doc.revision
     \/ \E x, y \in doc.rows : x # y /\ x[2].model = y[2].model
  THEN None
  ELSE [m \in {x[2].model : x \in doc.rows} |->
          (CHOOSE x \in doc.rows : x[2].model = m)[2].revision]

FetchBindings ==
  /\ Checking("bindings")
  /\ \E b \in IF cmd.target.backends["anthropic"] = "bedrock"
              THEN {None} \cup {parse_bindings(doc) : doc \in Documents} ELSE {None} :
       cmd' = [cmd EXCEPT !.bound = b, !.at = "probe"]
  /\ UNCHANGED <<world, offers, moves, cmds, bindings>>

canonical_models(p) ==
  {x.model : x \in {x \in cmd.catalog : x.provider = p /\ x.status = "active"}}

Offered(t) == cmd.declared # None /\ cmd.declared[t].offered

Probe(m, upstream, fallback, revision) ==
  [canonical |-> m, upstream |-> upstream, fallback |-> fallback, revision |-> revision]

\* Only what is still offered; a withdrawn row stays in /miners/me.
declared_models_for_provider(p) ==
  {Probe(t[2], cmd.declared[t].upstream, FALSE, None) :
     t \in {t \in Pairs : t[1] = p /\ Offered(t)}}

resolve_probe_models(p) ==
  IF p \in Sourcing THEN declared_models_for_provider(p)
  ELSE {Probe(m, Offered(<<p, m>>) /\ cmd.declared[<<p, m>>].upstream, FALSE, None) :
          m \in canonical_models(p)}

\* The registry's bindings are the only Bedrock selector, cut to active products.
bedrock_probe_models ==
  IF cmd.bound = None THEN {}
  ELSE {Probe(m, FALSE, FALSE, cmd.bound[m]) :
          m \in {m \in canonical_models("anthropic") \intersect DOMAIN cmd.bound :
                   cmd.bound[m] # None}}

models_for(p) ==
  LET ms == IF p = "anthropic" /\ cmd.target.backends[p] = "bedrock" THEN bedrock_probe_models
            ELSE resolve_probe_models(p) IN
  IF ms # {} THEN ms ELSE {Probe(Fallback[p], FALSE, TRUE, None)}

BackendOf(target, p) == IF p \in CloudProviders THEN target.backends[p] ELSE None

\* A direct worker gets the canonical id whatever a sibling's offer says, Bedrock
\* only what has a binding, and an Azure backend nothing.
bind_models_to_worker(target, p, ms) ==
  LET b == BackendOf(target, p) IN
  IF b = None THEN {[m EXCEPT !.upstream = FALSE, !.revision = None] : m \in ms}
  ELSE IF b = "bedrock"
  THEN {[m EXCEPT !.upstream = FALSE] : m \in {m \in ms : p = "anthropic" /\ m.revision # None
                                                                      /\ ~m.fallback}}
  ELSE {}

\* The model that goes on the wire: an offer may name a deployment of its own.
wire_model(m) == IF m.upstream THEN "its deployment" ELSE m.canonical

Selected(m, slot) == [model |-> m, slot |-> slot]

\* The probes of a provider; the self-test takes one model of a direct provider.
\* None: the coverage does not say which credential serves what.
models_for_target(target, p, all) ==
  LET ms == bind_models_to_worker(target, p, all)
      c == IF target.cover = None \/ p \notin DOMAIN target.cover THEN None ELSE target.cover[p]
      Known(known, m) == {m.canonical, wire_model(m)} \intersect known # {} IN
  IF ms = {} /\ BackendOf(target, p) # None THEN {{}}
  ELSE IF c = None
  THEN IF target.cover = None /\ p \notin Sourcing THEN {{Selected(m, None)} : m \in ms}
       ELSE {{Selected(m, None) : m \in ms}}
  ELSE IF DOMAIN c.by_slot # {} /\ \A s \in DOMAIN c.by_slot : c.by_slot[s] = {} THEN {}
  ELSE IF DOMAIN c.by_slot # {}
  THEN {UNION {{Selected(m, s) : s \in {s \in DOMAIN c.by_slot : Known(c.by_slot[s], m)}} :
                m \in ms}}
  ELSE IF c.unscoped = {} THEN {}
  ELSE {{Selected(m, None) : m \in {m \in ms : Known(c.unscoped, m)}}}

\* Generation products and the routes that serve them have no chat to probe.
non_chat_probe_exclusions ==
  LET gen == {Pair(x) : x \in {x \in cmd.catalog : ~x.chat}} IN
  gen \union {Pair(r) : r \in {r \in cmd.routes : <<r.buyer_provider, r.buyer_model>> \in gen}}

IsBedrock(target, p) == p = "anthropic" /\ BackendOf(target, p) = "bedrock"

\* The slot a Bedrock probe may use: in a check the verified one that serves the
\* model, in the self-test the one derived from the key that was deployed.
probe_route_authorization(target, p, x) ==
  IF ~IsBedrock(target, p) THEN {[slot |-> x.slot, policy |-> FALSE, revision |-> None]}
  ELSE IF \/ ~target.capable \/ x.model.fallback \/ x.model.revision = None
          \/ wire_model(x.model) # x.model.canonical
  THEN {}
  ELSE IF target.cover = None
  THEN {[slot |-> DerivedSlot, policy |-> TRUE, revision |-> x.model.revision]}
  ELSE {[slot |-> s, policy |-> TRUE, revision |-> x.model.revision] :
          s \in {s \in DOMAIN target.cover[p].by_slot :
                   s = x.slot /\ x.model.canonical \in target.cover[p].by_slot[s]}}

build_probe(target, p, x, route) ==
  [p |-> p, w |-> target.w, model |-> x.model.canonical, wire |-> wire_model(x.model),
   fallback |-> x.model.fallback, slot |-> route.slot, policy |-> route.policy,
   revision |-> route.revision]

\* check_provider_streaming, up to the requests.
CheckProvider ==
  /\ Checking("probe") /\ cmd.probes = {}
  /\ \E p \in cmd.todo :
       LET choices == models_for_target(cmd.target, p, models_for(p))
           silent == choices = {} \/ (IsBedrock(cmd.target, p) /\ ~cmd.target.capable) IN
       \E xs \in IF silent THEN {{}} ELSE choices :
         cmd' = [cmd EXCEPT !.todo = @ \ {p},
                   !.probes = UNION {{build_probe(cmd.target, p, x, r) :
                                        r \in probe_route_authorization(cmd.target, p, x)} :
                                     x \in {x \in xs : <<p, x.model.canonical>>
                                                         \notin non_chat_probe_exclusions}}]
  /\ UNCHANGED <<world, offers, moves, cmds, bindings>>

\* run_provider_probe: a failure is printed, and the next probe goes out.
SendProbe ==
  /\ Checking("probe")
  /\ \E pr \in cmd.probes : cmd' = [cmd EXCEPT !.probes = @ \ {pr}]
  /\ UNCHANGED <<world, offers, moves, cmds, bindings>>

CheckDone ==
  /\ Checking("probe") /\ cmd.probes = {} /\ cmd.todo = {} /\ End
  /\ UNCHANGED <<world, offers, moves, cmds, bindings>>

\* The registry publishes another revision of a binding, or withdraws it.
Rebind ==
  /\ Move
  /\ \E m \in Models("anthropic"), r \in Revisions \union {None} :
       bindings[m] # r /\ bindings' = [bindings EXCEPT ![m] = r]
  /\ UNCHANGED <<sel, records, rows, unsaved, cmd>>

StreamingInit == MarketInit /\ bindings \in [Models("anthropic") -> Revisions]

StreamingChecks == \/ cmd_check_streaming \/ deploy_streaming_advisory
                   \/ Gather \/ FetchBindings \/ CheckProvider \/ SendProbe \/ CheckDone

StreamingNext ==
  \/ StreamingChecks \/ Rebind
  \/ (Declare \/ Withdraw \/ Finish \/ World) /\ UNCHANGED bindings

StreamingSpec == StreamingInit /\ [][StreamingNext]_checkVars

-----------------------------------------------------------------------------
(***************************************************************************)
(* Properties                                                              *)
(***************************************************************************)

\* No probe asks a worker for what it cannot serve, or under an identity that is
\* not the worker's: through a Bedrock backend only a model that the registry
\* binds goes out, under its canonical name, a revision that it has published
\* and that was just read, the execution policy and a slot that serves it, and
\* only to a capable image; an Azure backend is not probed; a direct worker gets
\* the canonical name and no policy; and a slot that is named is verified for the
\* model.  Workers whose record does not tell their backends are aside
\* (parse_bindings, models_for_target, bind_models_to_worker,
\* probe_route_authorization).
ProbesFit ==
  cmd # None /\ cmd.kind = "check" /\ cmd.target.known =>
    \A pr \in cmd.probes :
      LET b == IF pr.p \in CloudProviders THEN cmd.target.row.backends[pr.p] ELSE None
          cover == cmd.target.row.cover
          slots == IF pr.p \in DOMAIN cover THEN cover[pr.p].slots ELSE <<>> IN
      /\ pr.wire = pr.model
      /\ b \in {None, "bedrock"}
      /\ pr.policy = (b = "bedrock") /\ (pr.revision # None) = (b = "bedrock")
      /\ b = "bedrock" => /\ pr.slot # None /\ ~pr.fallback
                          /\ pr.revision = cmd.bound[pr.model] /\ pr.revision \in Revisions
                          /\ cmd.target.row.hash \in DOMAIN Images
                          /\ Images[cmd.target.row.hash].binding
      /\ pr.slot # None /\ cmd.target.cover # None =>
           slots[pr.slot].verified /\ pr.model \in slots[pr.slot].models

=============================================================================
