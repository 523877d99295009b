----------------------------- MODULE MinerKeys ------------------------------
(***************************************************************************)
(* The way of an upstream credential through the miner: `gmcli             *)
(* set-api-keys` stores it, `gmcli deploy` derives the key slots it        *)
(* registers and writes the worker's environment, the entrypoint           *)
(* image/start.sh validates that environment again and fans the keys out   *)
(* into slots, render-envoy turns the slots into the filter's table, and   *)
(* the filter picks the key of the slot that a request names.              *)
(*                                                                         *)
(* Two programs derive the slots, one on the operator's machine and one in *)
(* the enclave, and the registry only ever sees the first.  A key value is *)
(* the sequence of its semicolon-separated segments, each trimmed; a slot  *)
(* id is <<provider, key, secret>>, what its HMAC is taken over.           *)
(***************************************************************************)
EXTENDS Naturals, Sequences, FiniteSets, Option

CONSTANTS Plain,       \* providers that have no cloud variant
          Flags,       \* the updates an operator passes to set-api-keys
          Secrets,     \* node secrets
          MaxSlots,    \* MAX_PROVIDER_SLOTS
          MaxUpdates,  \* bound: set-api-keys calls in a behaviour
          MaxDeploys,  \* bound: deploys in a behaviour
          Strange      \* a slot id that nobody registered

Blank == ""            \* an empty segment

Providers == {"anthropic", "openai"} \union Plain

CloudKeys == {"bedrock_key", "foundry_key", "azure_key"}

\* The five ARM settings of an Azure backend are required and checked alike,
\* so that each backend keeps one field for them.
Settings == {"anthropic_upstream", "openai_upstream", "bedrock_region",
             "foundry_endpoint", "foundry_arm", "azure_endpoint", "azure_arm"}

\* The settings that hold a key list, in ProviderKeys' order, and all of them.
KeyFields == Providers \union CloudKeys

Fields == KeyFields \union Settings

\* What the filter answers instead of sending a request on with a key.
Rejections == {"401", "421"}

\* The segments of a key value; a key is told from an answer of the filter.
Segments == STRING \ Rejections

ASSUME MinerKeysAssumption ==
  /\ MaxSlots \in Nat \ {0} /\ MaxUpdates \in Nat /\ MaxDeploys \in Nat
  /\ Plain \intersect (CloudKeys \union Settings) = {} /\ None \notin Fields
  /\ \A u \in Flags : DOMAIN u \subseteq Fields
  /\ \A u \in Flags : \A f \in DOMAIN u \intersect KeyFields :
       u[f] \in Seq(Segments) \ {<<>>}

VARIABLES
  keys,      \* the stored ProviderKeys
  secret,    \* the worker record's node secret, once one is generated
  plan,      \* the worker record a running deploy is going to register
  row,       \* the registry's worker row: [backends, slots, secret, of]
  env,       \* what the worker was started with: [vars, secret, capable, of]
  node,      \* the worker: [st, table], the filter's slot table once it is up
  sent,      \* the last request and what the filter made of it
  updates,   \* set-api-keys calls so far
  deploys    \* deploys so far; `of` numbers them

keyVars == <<keys, secret, plan, row, env, node, sent, updates, deploys>>

NoKeys == [f \in Fields |-> None]

-----------------------------------------------------------------------------
\* set-api-keys

\* A value that is empty or blank is refused.
validate_key(f, v) == f \in KeyFields => v # <<Blank>>

validate_selector(f, v) ==
  /\ f = "anthropic_upstream" => v \in {"direct", "bedrock", "foundry"}
  /\ f = "openai_upstream" => v \in {"direct", "azure"}

validate_update(u) == \A f \in DOMAIN u : validate_key(f, u[f]) /\ validate_selector(f, u[f])

merge_update(k, u) == [f \in Fields |-> IF f \in DOMAIN u THEN u[f] ELSE k[f]]

SetApiKeys ==
  /\ updates < MaxUpdates /\ updates' = updates + 1
  /\ \E u \in Flags : validate_update(u) /\ keys' = merge_update(keys, u)
  /\ UNCHANGED <<secret, plan, row, env, node, sent, deploys>>

-----------------------------------------------------------------------------
\* The preflight of a deploy

non_empty(k, f) == k[f] # None /\ (f \in KeyFields => k[f] # <<Blank>>)

Anthropic(k) == IF k["anthropic_upstream"] = None THEN "direct" ELSE k["anthropic_upstream"]

Openai(k) == IF k["openai_upstream"] = None THEN "direct" ELSE k["openai_upstream"]

\* The key of a provider's own API, unless a cloud backend has taken its place.
direct_key(k, p) ==
  IF \/ p = "anthropic" /\ Anthropic(k) # "direct"
     \/ p = "openai" /\ Openai(k) # "direct"
  THEN None ELSE p

\* The cloud backend's key field of a provider, if one is selected.
CloudField(k, p) ==
  CASE p = "anthropic" /\ Anthropic(k) = "bedrock" -> "bedrock_key"
    [] p = "anthropic" /\ Anthropic(k) = "foundry" -> "foundry_key"
    [] p = "openai" /\ Openai(k) = "azure" -> "azure_key"
    [] OTHER -> None

\* The field a provider's traffic takes its key from: for every provider exactly
\* one of its own key and a cloud backend's counts.
ActiveField(k, p) == IF CloudField(k, p) # None THEN CloudField(k, p) ELSE direct_key(k, p)

any_set(k) == \E p \in Providers : non_empty(k, ActiveField(k, p))

has_semicolon(k, f) == k[f] # None /\ Len(k[f]) > 1

validate_cloud_backend_single_keys(k) ==
  \A p \in Providers : CloudField(k, p) # None => ~has_semicolon(k, CloudField(k, p))

require_present(k, fs) == \A f \in fs : non_empty(k, f)

\* An endpoint is [https, userinfo, host, suffix]: whether it has the scheme and
\* userinfo, whether its host is a DNS name, and the suffix the host ends in.
validate_azure_endpoint(e, suffixes) ==
  e.https /\ ~e.userinfo /\ e.host /\ e.suffix \in suffixes

FoundrySuffixes == {"services.ai.azure.com"}

OpenaiSuffixes == {"openai.azure.com", "services.ai.azure.com", "cognitiveservices.azure.com"}

\* The endpoint and the key are not asked for.
AnyAnthropicUpstream(k) ==
  CASE Anthropic(k) = "bedrock" -> k["bedrock_region"] = "us-east-1"
    [] OTHER -> TRUE

validate_anthropic_upstream(k) ==
  CASE Anthropic(k) = "direct" -> TRUE
    [] Anthropic(k) = "bedrock" ->
         require_present(k, {"bedrock_region", "bedrock_key"}) /\ k["bedrock_region"] = "us-east-1"
    [] Anthropic(k) = "foundry" ->
         /\ require_present(k, {"foundry_endpoint", "foundry_key", "foundry_arm"})
         /\ validate_azure_endpoint(k["foundry_endpoint"], FoundrySuffixes)

validate_openai_upstream(k) ==
  CASE Openai(k) = "direct" -> TRUE
    [] Openai(k) = "azure" ->
         /\ require_present(k, {"azure_endpoint", "azure_key", "azure_arm"})
         /\ validate_azure_endpoint(k["azure_endpoint"], OpenaiSuffixes)

validate_upstreams(k) ==
  /\ validate_cloud_backend_single_keys(k)
  /\ validate_anthropic_upstream(k)
  /\ validate_openai_upstream(k)

worker_backends(k) ==
  [p \in {q \in Providers : CloudField(k, q) # None} |->
     IF p = "anthropic" THEN Anthropic(k) ELSE Openai(k)]

-----------------------------------------------------------------------------
\* Key slots

derive_slot_id(p, key, s) == <<p, key, s>>

\* The places of a key list whose id no earlier one has.
SlotPlaces(p, raw, s) ==
  {i \in DOMAIN raw : \A j \in 1 .. i - 1 :
     derive_slot_id(p, raw[j], s) # derive_slot_id(p, raw[i], s)}

\* The n-th of a set of places.
Nth(at, n) == CHOOSE i \in at : Cardinality({j \in at : j < i}) = n - 1

\* The slots of a key list: each [id, key], in order, the first of each id.
parse_key_slots(p, raw, s) ==
  LET at == SlotPlaces(p, raw, s) IN
  [n \in 1 .. Cardinality(at) |->
     [id |-> derive_slot_id(p, raw[Nth(at, n)], s), key |-> raw[Nth(at, n)]]]

\* What parse_key_slots refuses: an empty segment, or too many of them.
Parses(raw) == Len(raw) <= MaxSlots /\ \A i \in 1 .. Len(raw) : raw[i] # Blank

SlotProviders(k) == {p \in Providers : non_empty(k, ActiveField(k, p))}

Ids(slots) == {slots[i].id : i \in DOMAIN slots}

\* add_provider_slots for every provider with a key.
provider_slots_for_keys(k, s) ==
  [p \in SlotProviders(k) |-> Ids(parse_key_slots(p, k[ActiveField(k, p)], s))]

SlotsDerivable(k) ==
  /\ validate_cloud_backend_single_keys(k)
  /\ \A p \in SlotProviders(k) : Parses(k[ActiveField(k, p)])

\* An image without key slots passes the raw value on as one credential.
reject_multikey_for_legacy_image(k) ==
  \A p \in Providers : direct_key(k, p) # None => ~has_semicolon(k, p)

-----------------------------------------------------------------------------
\* `gmcli deploy`: preflight, worker record, environment file, registration

deploy_preflight(k) == any_set(k) /\ validate_upstreams(k)

prepare_worker_record(k, s, capable, of) ==
  [backends |-> worker_backends(k), secret |-> s, of |-> of,
   slots |-> IF capable THEN provider_slots_for_keys(k, s) ELSE <<>>]

\* Every name is written, an unset one with an empty value.
render_provider_envs(k) ==
  [f \in Fields |-> IF f \in KeyFields /\ k[f] = None THEN <<Blank>> ELSE k[f]]

render_env_file(k, s, capable, of) ==
  [vars |-> render_provider_envs(k), secret |-> s, capable |-> capable, of |-> of]

\* The config is read once: what is registered later comes from this read.
Deploy ==
  /\ plan = None /\ deploys < MaxDeploys /\ deploys' = deploys + 1
  /\ deploy_preflight(keys)
  /\ \E s \in IF secret = None THEN Secrets ELSE {secret}, capable \in BOOLEAN :
       /\ IF capable THEN SlotsDerivable(keys) ELSE reject_multikey_for_legacy_image(keys)
       /\ secret' = s
       /\ plan' = prepare_worker_record(keys, s, capable, deploys + 1)
       /\ env' = render_env_file(keys, s, capable, deploys + 1)
  /\ node' = [st |-> "off", table |-> None] /\ sent' = None
  /\ UNCHANGED <<keys, row, updates>>

\* The registry has accepted the record of the running deploy.
Register ==
  /\ plan # None /\ row' = plan /\ plan' = None /\ sent' = None
  /\ UNCHANGED <<keys, secret, env, node, updates, deploys>>

\* The deploy ends before it registers: the worker runs beside the old row.
DeployFails ==
  /\ plan # None /\ plan' = None
  /\ UNCHANGED <<keys, secret, row, env, node, sent, updates, deploys>>

\* teardown: the CVM, the row and the local record go, and the secret with it.
Teardown ==
  /\ plan = None /\ env # None
  /\ secret' = None /\ row' = None /\ env' = None /\ sent' = None
  /\ node' = [st |-> "off", table |-> None]
  /\ UNCHANGED <<keys, plan, updates, deploys>>

-----------------------------------------------------------------------------
\* image/start.sh in the worker

parse_azure_host(u) == u.https /\ ~u.userinfo

validate_hostname(u) == u.host

require_host_suffix(u, suffixes) == u.suffix \in suffixes

require_single_slot(v) == Len(v) = 1

ResolveAnthropic(e) ==
  CASE Anthropic(e) = "direct" -> TRUE
    [] Anthropic(e) = "bedrock" -> /\ non_empty(e, "bedrock_region") /\ non_empty(e, "bedrock_key")
                                   /\ require_single_slot(e["bedrock_key"])
                                   /\ e["bedrock_region"] = "us-east-1"
    [] Anthropic(e) = "foundry" -> /\ non_empty(e, "foundry_endpoint") /\ non_empty(e, "foundry_key")
                                   /\ require_single_slot(e["foundry_key"])
                                   /\ parse_azure_host(e["foundry_endpoint"])
                                   /\ validate_hostname(e["foundry_endpoint"])
                                   /\ require_host_suffix(e["foundry_endpoint"], FoundrySuffixes)
    [] OTHER -> FALSE

ResolveOpenai(e) ==
  CASE Openai(e) = "direct" -> TRUE
    [] Openai(e) = "azure" -> /\ non_empty(e, "azure_endpoint") /\ non_empty(e, "azure_key")
                              /\ require_single_slot(e["azure_key"])
                              /\ parse_azure_host(e["azure_endpoint"])
                              /\ validate_hostname(e["azure_endpoint"])
                              /\ require_host_suffix(e["azure_endpoint"], OpenaiSuffixes)
    [] OTHER -> FALSE

HasKey(e) == \E p \in Providers : non_empty(e, ActiveField(e, p))

\* The providers whose keys are fanned out, and what may stop that.
FannedOut(e) == {p \in Providers : non_empty(e, ActiveField(e, p))}

fan_out_slots(e, p) == Parses(e[ActiveField(e, p)])

\* Each key is numbered by its place in the list, repeated ones included.
ExportsByPosition(e, p, s) ==
  LET raw == e[ActiveField(e, p)]
      ids == parse_key_slots(p, raw, s) IN
  [i \in DOMAIN ids |-> [id |-> ids[i].id, key |-> raw[i]]]

\* GM_<PROVIDER>_KEY_SLOT_<i> and GM_<PROVIDER>_SLOT_IDS.
render_slot_env_exports(e, p, s) == parse_key_slots(p, e[ActiveField(e, p)], s)

\* The filter's table: whether the selected upstream file is a cloud one, the
\* slots, and the value of the provider's own variable.
slot_config_lua(e, s) ==
  [p \in Providers |->
     [cloud |-> CloudField(e, p) # None,
      slots |-> IF p \in FannedOut(e) THEN render_slot_env_exports(e, p, s) ELSE <<>>,
      direct |-> e[p]]]

BootFails(e) ==
  \/ ~ResolveAnthropic(e) \/ ~ResolveOpenai(e) \/ ~HasKey(e)
  \/ \E p \in FannedOut(e) : ~fan_out_slots(e, p)

Boot ==
  /\ env # None /\ node.st = "off" /\ env.capable
  /\ node' = IF BootFails(env.vars) THEN [st |-> "refused", table |-> None]
             ELSE [st |-> "up", table |-> slot_config_lua(env.vars, env.secret)]
  /\ UNCHANGED <<keys, secret, plan, row, env, sent, updates, deploys>>

-----------------------------------------------------------------------------
\* The filter in image/envoy/base.yaml

node_key_accepted(key) == key = env.secret

\* The key that the request is sent on with: a cloud route always adds slot 1's.
select_upstream_slot(cfg, requested) ==
  LET at == {i \in DOMAIN cfg.slots : cfg.slots[i].id = requested} IN
  IF cfg.cloud
  THEN IF requested = None \/ at = {} THEN "421" ELSE cfg.slots[1].key
  ELSE IF requested # None
  THEN IF at = {} THEN "421" ELSE cfg.slots[CHOOSE i \in at : TRUE].key
  ELSE IF cfg.slots # <<>> THEN cfg.slots[1].key ELSE cfg.direct[1]

\* The gateway sends a request for a provider under a slot of the row.
Request(p, slot) ==
  /\ node.st = "up" /\ row # None
  /\ sent' = [p |-> p, slot |-> slot,
              key |-> IF ~node_key_accepted(row.secret) THEN "401"
                      ELSE select_upstream_slot(node.table[p], slot)]
  /\ UNCHANGED <<keys, secret, plan, row, env, node, updates, deploys>>

-----------------------------------------------------------------------------
Slots == {derive_slot_id(p, k, s) : p \in Providers, s \in Secrets,
            k \in UNION {UNION {{u[f][i] : i \in 1 .. Len(u[f])} :
                           f \in DOMAIN u \intersect KeyFields} : u \in Flags}}

Requested(p) == {None, Strange} \union {id \in Slots : id[1] = p}

KeysInit ==
  /\ keys = NoKeys /\ secret = None /\ plan = None /\ row = None /\ env = None
  /\ node = [st |-> "off", table |-> None] /\ sent = None
  /\ updates = 0 /\ deploys = 0

KeysNext ==
  \/ SetApiKeys \/ Deploy \/ Register \/ DeployFails \/ Teardown \/ Boot
  \/ \E p \in Providers : \E slot \in Requested(p) : Request(p, slot)

KeysSpec == KeysInit /\ [][KeysNext]_keyVars

-----------------------------------------------------------------------------
(***************************************************************************)
(* Properties                                                              *)
(***************************************************************************)

\* What `gmcli deploy` lets through, the entrypoint accepts: no sequence of
\* set-api-keys calls leads to a worker that start.sh refuses to start
\* (deploy_preflight and prepare_worker_record against start.sh's own checks).
DeployableBoots == node.st # "refused"

\* A request that names a slot leaves with the key that slot was derived from,
\* whatever the operator has stored, deployed or torn down since.  When the row
\* is the running deploy's, the worker serves exactly the row's slots: what
\* provider_slots_for_keys told the registry and what fan_out_slots and
\* slot_config_lua made of the environment are the same.
SlotsAgree ==
  sent # None /\ sent.slot # None =>
    LET served == sent.key \notin Rejections IN
    /\ served => sent.slot = derive_slot_id(sent.p, sent.key, env.secret)
    /\ row.of = env.of =>
         served = (sent.p \in DOMAIN row.slots /\ sent.slot \in row.slots[sent.p])

=============================================================================
