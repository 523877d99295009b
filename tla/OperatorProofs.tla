--------------------------- MODULE OperatorProofs ---------------------------
(***************************************************************************)
(* What the operator does, for every value of the constants.               *)
(*                                                                         *)
(* MinerKeys: the operator's machine and the worker agree: what a deploy   *)
(* lets through the entrypoint accepts, and a request that names a slot    *)
(* leaves with the key that the slot was derived from; for every set of    *)
(* providers, updates and node secrets, any length of a key list and any   *)
(* number of commands.                                                     *)
(* StreamingCheck, and Market with it: supply through a cloud is fenced    *)
(* off, and a probe fits its worker; for any workers, images, catalog,     *)
(* routes and coverages, whatever others do while a command runs.          *)
(***************************************************************************)
EXTENDS MinerKeys, StreamingCheck, FiniteSetTheorems, TLAPS

(* A value of a key field that holds keys.                                 *)
Lists == Seq(Segments) \ {<<>>}

(* What set-api-keys can have stored.                                      *)
KeysTyped(k) ==
  /\ DOMAIN k = Fields
  /\ \A f \in KeyFields : k[f] = None \/ k[f] \in Lists
  /\ k["anthropic_upstream"] \in {None, "direct", "bedrock", "foundry"}
  /\ k["openai_upstream"] \in {None, "direct", "azure"}

(* A stored configuration that deploy accepts for an image with key slots. *)
Accepted(k) == KeysTyped(k) /\ deploy_preflight(k) /\ SlotsDerivable(k)

(* The environment of a worker with key slots was rendered from such one.  *)
EnvAccepted ==
  env # None /\ env.capable => \E k : Accepted(k) /\ env.vars = render_provider_envs(k)

(* The slots that a worker with environment e serves, by its own account.  *)
ServedSlots(e) ==
  [p \in FannedOut(e.vars) |->
     Ids(parse_key_slots(p, e.vars[ActiveField(e.vars, p)], e.secret))]

(***************************************************************************)
(* A record made for the environment e carries its secret, and its slots   *)
(* when the image has any.                                                 *)
(***************************************************************************)
RecordFits(r, e) ==
  /\ r.secret = e.secret
  /\ e.capable => r.slots = ServedSlots(e)

(***************************************************************************)
(* A running deploy's record is for the environment that stands, a row is  *)
(* of some deploy so far, and fits the environment of the same deploy.     *)
(***************************************************************************)
RecordsFit ==
  /\ deploys \in Nat
  /\ env # None => env.of \in Nat /\ env.of <= deploys
  /\ plan # None => /\ plan.of \in Nat /\ plan.of <= deploys
                    /\ plan.of = env.of /\ RecordFits(plan, env)
  /\ row # None => row.of \in Nat /\ row.of <= deploys
  /\ row # None /\ env # None /\ row.of = env.of => RecordFits(row, env)

(* A worker that is up serves the table of its environment.                *)
NodeFits ==
  /\ node.st \in {"off", "up"}
  /\ node.st = "up" => /\ env # None /\ env.capable
                       /\ node.table = slot_config_lua(env.vars, env.secret)

KeysInv == /\ KeysTyped(keys)
           /\ EnvAccepted
           /\ RecordsFit
           /\ NodeFits
           /\ SlotsAgree

-----------------------------------------------------------------------------
(* The fields, told apart.                                                 *)
LEMMA FieldsApart ==
  /\ None \notin Fields
  /\ Settings \intersect KeyFields = {} /\ Settings \subseteq Fields
  /\ CloudKeys \subseteq KeyFields /\ KeyFields \subseteq Fields
  /\ Providers \subseteq KeyFields /\ Providers \intersect CloudKeys = {}
  /\ "anthropic" \in Providers /\ "openai" \in Providers
BY MinerKeysAssumption DEF Fields, KeyFields, Settings, CloudKeys, Providers

(***************************************************************************)
(* The field of a provider's key: its own when no cloud backend has taken  *)
(* its place, a cloud key otherwise.                                       *)
(***************************************************************************)
LEMMA FieldOf ==
  ASSUME NEW k, KeysTyped(k), NEW p \in Providers
  PROVE  /\ ActiveField(k, p) \in KeyFields
         /\ CloudField(k, p) = None => ActiveField(k, p) = p
         /\ CloudField(k, p) # None =>
              CloudField(k, p) \in CloudKeys /\ ActiveField(k, p) = CloudField(k, p)
<1>1. CASE p = "anthropic"
  <2>1. Anthropic(k) \in {"direct", "bedrock", "foundry"}
    BY DEF KeysTyped, Anthropic
  <2> QED BY <1>1, <2>1, FieldsApart DEF ActiveField, CloudField, direct_key, CloudKeys
<1>2. CASE p = "openai"
  <2>1. Openai(k) \in {"direct", "azure"}
    BY DEF KeysTyped, Openai
  <2> QED BY <1>2, <2>1, FieldsApart DEF ActiveField, CloudField, direct_key, CloudKeys
<1>3. CASE p \notin {"anthropic", "openai"}
  BY <1>3, FieldsApart DEF ActiveField, CloudField, direct_key, CloudKeys
<1> QED BY <1>1, <1>2, <1>3

(***************************************************************************)
(* The environment says the same as the configuration: the selectors, the  *)
(* fields that count, and which of them hold something.                    *)
(***************************************************************************)
LEMMA RenderedSame ==
  ASSUME NEW k, KeysTyped(k)
  PROVE  LET e == render_provider_envs(k) IN
         /\ Anthropic(e) = Anthropic(k) /\ Openai(e) = Openai(k)
         /\ \A f \in Fields : non_empty(e, f) = non_empty(k, f)
         /\ \A f \in Fields : non_empty(k, f) => e[f] = k[f]
         /\ \A p : CloudField(e, p) = CloudField(k, p)
         /\ \A p : ActiveField(e, p) = ActiveField(k, p)
<1> DEFINE e == render_provider_envs(k)
<1>1. \A f \in Fields : e[f] = IF f \in KeyFields /\ k[f] = None THEN <<Blank>> ELSE k[f]
  BY DEF render_provider_envs
<1> HIDE DEF e
<1>2. Anthropic(e) = Anthropic(k) /\ Openai(e) = Openai(k)
  BY <1>1, FieldsApart DEF Anthropic, Openai, Settings
<1>3. \A f \in Fields : non_empty(e, f) = non_empty(k, f)
  <2> SUFFICES ASSUME NEW f \in Fields PROVE non_empty(e, f) <=> non_empty(k, f)
    BY DEF non_empty
  <2>1. CASE f \in KeyFields /\ k[f] = None
    BY <1>1, <2>1 DEF non_empty
  <2>2. CASE ~(f \in KeyFields /\ k[f] = None)
    BY <1>1, <2>2 DEF non_empty
  <2> QED BY <2>1, <2>2
<1>4. \A f \in Fields : non_empty(k, f) => e[f] = k[f]
  BY <1>1 DEF non_empty
<1>5. \A p : CloudField(e, p) = CloudField(k, p)
  BY <1>2 DEF CloudField
<1>6. \A p : ActiveField(e, p) = ActiveField(k, p)
  BY <1>2, <1>5 DEF ActiveField, direct_key
<1> QED BY <1>2, <1>3, <1>4, <1>5, <1>6 DEF e

-----------------------------------------------------------------------------
(* A cloud key is one key.                                                 *)
LEMMA CloudSingle ==
  ASSUME NEW k, KeysTyped(k), validate_cloud_backend_single_keys(k),
         NEW p \in Providers, CloudField(k, p) # None, non_empty(k, CloudField(k, p))
  PROVE  k[CloudField(k, p)] \in Lists /\ require_single_slot(k[CloudField(k, p)])
<1> DEFINE f == CloudField(k, p)
<1>1. f \in KeyFields
  BY FieldOf, FieldsApart
<1>2. k[f] # None /\ k[f] \in Lists
  BY <1>1 DEF non_empty, KeysTyped
<1>3. ~(Len(k[f]) > 1)
  BY <1>2 DEF validate_cloud_backend_single_keys, has_semicolon
<1> HIDE DEF f
<1>4. k[f] \in Seq(Segments) /\ k[f] # <<>>
  BY <1>2 DEF Lists
<1> DEFINE n == Len(k[f])
<1>5. n \in Nat /\ n # 0 /\ ~(n > 1)
  BY <1>3, <1>4
<1>6. n = 1
  <2> HIDE DEF n
  <2> QED BY <1>5
<1> QED BY <1>2, <1>6 DEF f, require_single_slot

(***************************************************************************)
(* start.sh starts with the environment of a configuration that deploy     *)
(* accepts: each check of the entrypoint follows from one of gmcli's.      *)
(***************************************************************************)
LEMMA AcceptedBoots ==
  ASSUME NEW k, Accepted(k)
  PROVE  ~BootFails(render_provider_envs(k))
<1> DEFINE e == render_provider_envs(k)
<1>1. /\ KeysTyped(k) /\ any_set(k) /\ validate_cloud_backend_single_keys(k)
      /\ validate_anthropic_upstream(k) /\ validate_openai_upstream(k)
      /\ \A p \in SlotProviders(k) : Parses(k[ActiveField(k, p)])
  BY DEF Accepted, deploy_preflight, validate_upstreams, SlotsDerivable
<1>2. /\ Anthropic(e) = Anthropic(k) /\ Openai(e) = Openai(k)
      /\ \A f \in Fields : non_empty(e, f) = non_empty(k, f)
      /\ \A f \in Fields : non_empty(k, f) => e[f] = k[f]
      /\ \A p : ActiveField(e, p) = ActiveField(k, p)
  BY <1>1, RenderedSame
<1> HIDE DEF e
<1>3. "anthropic" \in Providers /\ "openai" \in Providers
  BY FieldsApart
<1>4. ResolveAnthropic(e)
  <2>1. Anthropic(k) \in {"direct", "bedrock", "foundry"}
    BY <1>1 DEF KeysTyped, Anthropic
  <2>2. CASE Anthropic(k) = "direct"
    BY <1>2, <2>2 DEF ResolveAnthropic
  <2>3. CASE Anthropic(k) = "bedrock"
    <3>1. CloudField(k, "anthropic") = "bedrock_key"
      BY <2>3 DEF CloudField
    <3>2. /\ non_empty(k, "bedrock_region") /\ non_empty(k, "bedrock_key")
          /\ k["bedrock_region"] = "us-east-1"
      BY <1>1, <2>3 DEF validate_anthropic_upstream, require_present
    <3>3. require_single_slot(k["bedrock_key"])
      BY <1>1, <1>3, <3>1, <3>2, CloudSingle, FieldsApart DEF Fields, KeyFields, CloudKeys
    <3>4. "bedrock_region" \in Fields /\ "bedrock_key" \in Fields
      BY DEF Fields, KeyFields, CloudKeys, Settings
    <3>5. e["bedrock_region"] = k["bedrock_region"] /\ e["bedrock_key"] = k["bedrock_key"]
      BY <1>2, <3>2, <3>4
    <3> QED BY <1>2, <2>3, <3>2, <3>3, <3>4, <3>5 DEF ResolveAnthropic
  <2>4. CASE Anthropic(k) = "foundry"
    <3>1. CloudField(k, "anthropic") = "foundry_key"
      BY <2>4 DEF CloudField
    <3>2. /\ non_empty(k, "foundry_endpoint") /\ non_empty(k, "foundry_key")
          /\ validate_azure_endpoint(k["foundry_endpoint"], FoundrySuffixes)
      BY <1>1, <2>4 DEF validate_anthropic_upstream, require_present
    <3>3. require_single_slot(k["foundry_key"])
      BY <1>1, <1>3, <3>1, <3>2, CloudSingle, FieldsApart DEF Fields, KeyFields, CloudKeys
    <3>4. "foundry_endpoint" \in Fields /\ "foundry_key" \in Fields
      BY DEF Fields, KeyFields, CloudKeys, Settings
    <3>5. e["foundry_endpoint"] = k["foundry_endpoint"] /\ e["foundry_key"] = k["foundry_key"]
      BY <1>2, <3>2, <3>4
    <3>6. /\ parse_azure_host(k["foundry_endpoint"])
          /\ validate_hostname(k["foundry_endpoint"])
          /\ require_host_suffix(k["foundry_endpoint"], FoundrySuffixes)
      BY <3>2 DEF validate_azure_endpoint, parse_azure_host, validate_hostname,
                  require_host_suffix
    <3> QED BY <1>2, <2>4, <3>2, <3>3, <3>4, <3>5, <3>6 DEF ResolveAnthropic
  <2> QED BY <2>1, <2>2, <2>3, <2>4
<1>5. ResolveOpenai(e)
  <2>1. Openai(k) \in {"direct", "azure"}
    BY <1>1 DEF KeysTyped, Openai
  <2>2. CASE Openai(k) = "direct"
    BY <1>2, <2>2 DEF ResolveOpenai
  <2>3. CASE Openai(k) = "azure"
    <3>1. CloudField(k, "openai") = "azure_key"
      BY <2>3 DEF CloudField
    <3>2. /\ non_empty(k, "azure_endpoint") /\ non_empty(k, "azure_key")
          /\ validate_azure_endpoint(k["azure_endpoint"], OpenaiSuffixes)
      BY <1>1, <2>3 DEF validate_openai_upstream, require_present
    <3>3. require_single_slot(k["azure_key"])
      BY <1>1, <1>3, <3>1, <3>2, CloudSingle, FieldsApart DEF Fields, KeyFields, CloudKeys
    <3>4. "azure_endpoint" \in Fields /\ "azure_key" \in Fields
      BY DEF Fields, KeyFields, CloudKeys, Settings
    <3>5. e["azure_endpoint"] = k["azure_endpoint"] /\ e["azure_key"] = k["azure_key"]
      BY <1>2, <3>2, <3>4
    <3>6. /\ parse_azure_host(k["azure_endpoint"]) /\ validate_hostname(k["azure_endpoint"])
          /\ require_host_suffix(k["azure_endpoint"], OpenaiSuffixes)
      BY <3>2 DEF validate_azure_endpoint, parse_azure_host, validate_hostname,
                  require_host_suffix
    <3> QED BY <1>2, <2>3, <3>2, <3>3, <3>4, <3>5, <3>6 DEF ResolveOpenai
  <2> QED BY <2>1, <2>2, <2>3
<1>6. \A p \in Providers : ActiveField(k, p) \in Fields
  BY <1>1, FieldOf, FieldsApart
<1>7. HasKey(e)
  BY <1>1, <1>2, <1>6 DEF HasKey, any_set
<1>8. \A p \in FannedOut(e) : fan_out_slots(e, p)
  <2> SUFFICES ASSUME NEW p \in FannedOut(e) PROVE Parses(e[ActiveField(e, p)])
    BY DEF fan_out_slots
  <2>1. p \in Providers /\ non_empty(k, ActiveField(k, p))
    BY <1>2, <1>6 DEF FannedOut
  <2>2. p \in SlotProviders(k) /\ e[ActiveField(e, p)] = k[ActiveField(k, p)]
    BY <1>2, <1>6, <2>1 DEF SlotProviders
  <2> QED BY <1>1, <2>2
<1> QED BY <1>4, <1>5, <1>7, <1>8 DEF BootFails, e

-----------------------------------------------------------------------------
(* A place has a rank among the places of a list below their number.       *)
LEMMA RankBelow ==
  ASSUME NEW S \in SUBSET Nat, IsFiniteSet(S), NEW i \in S
  PROVE  Cardinality({j \in S : j < i}) \in 0 .. Cardinality(S) - 1
<1> DEFINE T == {j \in S : j < i}
<1>1. IsFiniteSet(T) /\ T \subseteq S \ {i}
  BY FS_Subset
<1>2. IsFiniteSet(S \ {i}) /\ Cardinality(S \ {i}) = Cardinality(S) - 1
  BY FS_RemoveElement
<1>3. Cardinality(T) \in Nat /\ Cardinality(S) \in Nat
  BY <1>1, FS_CardinalityType
<1>4. Cardinality(T) <= Cardinality(S \ {i})
  BY <1>1, <1>2, FS_Subset
<1> QED BY <1>2, <1>3, <1>4

(* Of two places the later has the higher rank.                            *)
LEMMA RankGrows ==
  ASSUME NEW S \in SUBSET Nat, IsFiniteSet(S), NEW i \in S, NEW k \in S, i < k
  PROVE  Cardinality({j \in S : j < i}) < Cardinality({j \in S : j < k})
<1> DEFINE T == {j \in S : j < i}
           U == {j \in S : j < k}
<1>1. IsFiniteSet(U) /\ IsFiniteSet(T) /\ T \subseteq U \ {i} /\ i \in U
  <2>1. IsFiniteSet(U) /\ IsFiniteSet(T)
    <3>1. U \subseteq S /\ T \subseteq S
      OBVIOUS
    <3> HIDE DEF U, T
    <3> QED BY <3>1, FS_Subset
  <2>2. i \in U
    OBVIOUS
  <2>3. ASSUME NEW j \in T PROVE j \in U /\ j # i
    <3>1. j \in Nat /\ i \in Nat /\ k \in Nat /\ j < i
      OBVIOUS
    <3>2. j < k /\ j # i
      BY <3>1
    <3> QED BY <3>2
  <2> QED BY <2>1, <2>2, <2>3
<1>2. IsFiniteSet(U \ {i}) /\ Cardinality(U \ {i}) = Cardinality(U) - 1
  BY <1>1, FS_RemoveElement
<1>3. Cardinality(T) \in Nat /\ Cardinality(U) \in Nat
  BY <1>1, FS_CardinalityType
<1>4. Cardinality(T) <= Cardinality(U \ {i})
  BY <1>1, <1>2, FS_Subset
<1> QED BY <1>2, <1>3, <1>4

(***************************************************************************)
(* Every rank below their number is some place's: a set of n places whose  *)
(* ranks miss one of n numbers would have two of one rank.                 *)
(***************************************************************************)
LEMMA NthExists ==
  ASSUME NEW S \in SUBSET Nat, IsFiniteSet(S), NEW n \in 1 .. Cardinality(S)
  PROVE  Nth(S, n) \in S
<1> DEFINE N == Cardinality(S)
           rank(i) == Cardinality({j \in S : j < i})
           R == [i \in S |-> rank(i)]
           V == (0 .. N - 1) \ {n - 1}
<1>1. N \in Nat
  BY FS_CardinalityType
<1>2. SUFFICES ASSUME \A i \in S : rank(i) # n - 1 PROVE FALSE
  BY DEF Nth
<1>3. R \in [S -> V]
  BY <1>2, RankBelow
<1>4. IsFiniteSet(0 .. N - 1) /\ Cardinality(0 .. N - 1) = N
  <2>1. 0 \in Int /\ N - 1 \in Int /\ 0 <= N - 1
    BY <1>1
  <2> QED BY <1>1, <2>1, FS_Interval
<1>5. n - 1 \in 0 .. N - 1
  BY <1>1
<1>6. IsFiniteSet(V) /\ Cardinality(V) = N - 1
  <2> DEFINE W == 0 .. N - 1
             x == n - 1
  <2>1. IsFiniteSet(W) /\ Cardinality(W) = N /\ x \in W
    BY <1>4, <1>5
  <2> HIDE DEF W, x
  <2>2. IsFiniteSet(W \ {x}) /\ Cardinality(W \ {x}) = N - 1
    BY <2>1, FS_RemoveElement
  <2> QED BY <2>2 DEF W, x
<1>7. \E x, y \in S : x # y /\ R[x] = R[y]
  <2>1. Cardinality(V) < Cardinality(S)
    BY <1>1, <1>6
  <2> HIDE DEF R, V, N
  <2> QED BY <1>3, <1>6, <2>1, FS_PigeonHole
<1>8. PICK x \in S, y \in S : x # y /\ rank(x) = rank(y)
  BY <1>7
<1>9. x < y \/ y < x
  BY <1>8
<1> QED BY <1>8, <1>9, RankGrows, RankBelow

-----------------------------------------------------------------------------
(* A slot's id is derived from its own key, a segment of the key list.     *)
LEMMA SlotForm ==
  ASSUME NEW raw \in Seq(Segments), NEW p, NEW s
  PROVE  LET slots == parse_key_slots(p, raw, s) IN
         \A n \in DOMAIN slots : /\ slots[n].key \in Segments
                                 /\ slots[n].id = derive_slot_id(p, slots[n].key, s)
<1> DEFINE at == SlotPlaces(p, raw, s)
           slots == parse_key_slots(p, raw, s)
<1>1. at \in SUBSET Nat /\ at \subseteq 1 .. Len(raw) /\ Len(raw) \in Nat
  BY DEF SlotPlaces
<1>2. IsFiniteSet(at)
  <2> DEFINE I == 1 .. Len(raw)
  <2>1. IsFiniteSet(I)
    BY <1>1, FS_Interval
  <2> HIDE DEF I, at
  <2>2. at \subseteq I
    BY <1>1 DEF I
  <2> QED BY <2>1, <2>2, FS_Subset
<1> DEFINE keyAt(n) == raw[Nth(at, n)]
<1>3. \A n \in 1 .. Cardinality(at) : keyAt(n) \in Segments
  <2> SUFFICES ASSUME NEW n \in 1 .. Cardinality(at) PROVE raw[Nth(at, n)] \in Segments
    OBVIOUS
  <2> HIDE DEF at
  <2> DEFINE x == Nth(at, n)
  <2>1. x \in at
    BY <1>1, <1>2, NthExists
  <2>2. x \in 1 .. Len(raw)
    BY <1>1, <2>1
  <2> HIDE DEF x
  <2>3. raw[x] \in Segments
    BY <2>2
  <2> QED BY <2>3 DEF x
<1>4. slots = [n \in 1 .. Cardinality(at) |->
                 [id |-> derive_slot_id(p, keyAt(n), s), key |-> keyAt(n)]]
  BY DEF parse_key_slots
<1> HIDE DEF at, keyAt, slots
<1>5. \A n \in DOMAIN slots : /\ slots[n].key \in Segments
                              /\ slots[n].id = derive_slot_id(p, slots[n].key, s)
  BY <1>3, <1>4
<1> QED BY <1>5 DEF slots

(* One key makes one slot.                                                 *)
LEMMA SingleSlot ==
  ASSUME NEW raw \in Seq(Segments), Len(raw) = 1, NEW p, NEW s
  PROVE  DOMAIN parse_key_slots(p, raw, s) = {1}
<1> DEFINE at == SlotPlaces(p, raw, s)
<1>1. at = {1}
  <2>1. DOMAIN raw = {1}
    OBVIOUS
  <2>2. 1 .. 1 - 1 = {}
    OBVIOUS
  <2> QED BY <2>1, <2>2 DEF SlotPlaces
<1>2. Cardinality(at) = 1
  BY <1>1, FS_Singleton
<1>3. 1 .. Cardinality(at) = {1}
  BY <1>2
<1> HIDE DEF at
<1>4. DOMAIN parse_key_slots(p, raw, s) = 1 .. Cardinality(at)
  BY DEF parse_key_slots, at
<1> QED BY <1>3, <1>4

(***************************************************************************)
(* The filter of a worker that runs an accepted configuration answers a    *)
(* request that names a slot with the key of that slot, and it serves the  *)
(* slots of the providers that were fanned out, no others: on a cloud      *)
(* route, where slot 1's key is added whatever the slot, there is no other.*)
(***************************************************************************)
LEMMA TableServes ==
  ASSUME NEW k, Accepted(k), NEW p \in Providers, NEW s, NEW slot, slot # None
  PROVE  LET e == render_provider_envs(k)
             answer == select_upstream_slot(slot_config_lua(e, s)[p], slot) IN
         /\ answer \notin Rejections => slot = derive_slot_id(p, answer, s)
         /\ answer \notin Rejections <=>
              /\ p \in FannedOut(e)
              /\ slot \in Ids(parse_key_slots(p, e[ActiveField(e, p)], s))
<1> DEFINE e == render_provider_envs(k)
           cfg == slot_config_lua(e, s)[p]
           raw == e[ActiveField(e, p)]
           slots == parse_key_slots(p, raw, s)
           answer == select_upstream_slot(cfg, slot)
<1>1. KeysTyped(k) /\ validate_cloud_backend_single_keys(k)
  BY DEF Accepted, SlotsDerivable
<1>2. /\ \A f \in Fields : non_empty(e, f) = non_empty(k, f)
      /\ \A f \in Fields : non_empty(k, f) => e[f] = k[f]
      /\ \A q : CloudField(e, q) = CloudField(k, q)
      /\ \A q : ActiveField(e, q) = ActiveField(k, q)
  BY <1>1, RenderedSame
<1>3. /\ cfg.cloud = (CloudField(e, p) # None)
      /\ cfg.slots = IF p \in FannedOut(e) THEN slots ELSE <<>>
  BY DEF slot_config_lua, render_slot_env_exports
<1> HIDE DEF e, cfg, slots, raw
<1>4. CASE p \notin FannedOut(e)
  <2>1. cfg.slots = <<>> /\ DOMAIN cfg.slots = {}
    BY <1>3, <1>4
  <2>2. {i \in DOMAIN cfg.slots : cfg.slots[i].id = slot} = {}
    BY <2>1
  <2>3. answer = "421"
    BY <2>2 DEF select_upstream_slot
  <2> HIDE DEF answer
  <2> QED BY <1>4, <2>3 DEF Rejections, answer, cfg, e
<1>5. CASE p \in FannedOut(e)
  <2>1. ActiveField(k, p) \in KeyFields /\ ActiveField(k, p) \in Fields
    BY <1>1, FieldOf, FieldsApart
  <2>2. non_empty(k, ActiveField(k, p)) /\ raw = k[ActiveField(k, p)]
    BY <1>2, <1>5, <2>1 DEF FannedOut, raw
  <2>3. raw \in Seq(Segments)
    BY <1>1, <2>1, <2>2 DEF KeysTyped, Lists, non_empty
  <2>4. \A n \in DOMAIN slots : /\ slots[n].key \in Segments
                                /\ slots[n].id = derive_slot_id(p, slots[n].key, s)
    BY <2>3, SlotForm DEF slots
  <2>5. cfg.slots = slots
    BY <1>3, <1>5
  <2> DEFINE at == {i \in DOMAIN slots : slots[i].id = slot}
  <2>6. at # {} <=> slot \in Ids(slots)
    BY DEF Ids
  <2>7. at = {} => answer = "421"
    BY <2>5 DEF select_upstream_slot
  <2>8. at # {} => answer \in Segments /\ slot = derive_slot_id(p, answer, s)
    <3>1. SUFFICES ASSUME at # {} PROVE answer \in Segments /\ slot = derive_slot_id(p, answer, s)
      OBVIOUS
    <3>2. CASE cfg.cloud
      <4>1. CloudField(k, p) # None
        BY <1>2, <1>3, <3>2
      <4>2. raw = k[CloudField(k, p)] /\ non_empty(k, CloudField(k, p))
        BY <1>1, <2>2, <4>1, FieldOf
      <4>3. Len(raw) = 1
        BY <1>1, <4>1, <4>2, CloudSingle DEF require_single_slot
      <4>4. DOMAIN slots = {1}
        BY <2>3, <4>3, SingleSlot DEF slots
      <4>5. slots[1].id = slot
        BY <3>1, <4>4
      <4>6. answer = slots[1].key
        BY <2>5, <3>1, <3>2 DEF select_upstream_slot
      <4> QED BY <2>4, <4>4, <4>5, <4>6
    <3>3. CASE ~cfg.cloud
      <4>1. answer = slots[CHOOSE i \in at : TRUE].key
        BY <2>5, <3>1, <3>3 DEF select_upstream_slot
      <4>2. (CHOOSE i \in at : TRUE) \in at
        BY <3>1
      <4> QED BY <2>4, <4>1, <4>2
    <3> QED BY <3>2, <3>3
  <2> HIDE DEF answer, at
  <2>9. /\ answer \notin Rejections => slot = derive_slot_id(p, answer, s)
        /\ answer \notin Rejections <=> slot \in Ids(slots)
    BY <2>6, <2>7, <2>8 DEF Rejections, Segments
  <2> QED BY <1>5, <2>9 DEF answer, cfg, slots, raw, e
<1> QED BY <1>4, <1>5

(***************************************************************************)
(* What gmcli registers for a configuration is what the worker makes of the*)
(* environment that it is rendered into.                                   *)
(***************************************************************************)
LEMMA RegisteredServed ==
  ASSUME NEW k, Accepted(k), NEW s, NEW capable, NEW of
  PROVE  RecordFits(prepare_worker_record(k, s, capable, of), render_env_file(k, s, capable, of))
<1> DEFINE v == render_provider_envs(k)
           r == prepare_worker_record(k, s, capable, of)
           e == render_env_file(k, s, capable, of)
<1>1. KeysTyped(k)
  BY DEF Accepted
<1>2. /\ \A f \in Fields : non_empty(v, f) = non_empty(k, f)
      /\ \A f \in Fields : non_empty(k, f) => v[f] = k[f]
      /\ \A p : ActiveField(v, p) = ActiveField(k, p)
  BY <1>1, RenderedSame
<1>3. /\ e.vars = v /\ e.secret = s /\ e.capable = capable /\ r.secret = s
      /\ capable => r.slots = provider_slots_for_keys(k, s)
  BY DEF render_env_file, prepare_worker_record
<1> HIDE DEF v, e, r
<1>4. \A p \in Providers : ActiveField(k, p) \in Fields
  BY <1>1, FieldOf, FieldsApart
<1>5. FannedOut(v) = SlotProviders(k)
  BY <1>2, <1>4 DEF FannedOut, SlotProviders
<1>6. \A p \in SlotProviders(k) : v[ActiveField(v, p)] = k[ActiveField(k, p)]
  BY <1>2, <1>4 DEF SlotProviders
<1>7. provider_slots_for_keys(k, s) = ServedSlots(e)
  BY <1>3, <1>5, <1>6 DEF provider_slots_for_keys, ServedSlots
<1> QED BY <1>3, <1>7 DEF RecordFits, r, e

-----------------------------------------------------------------------------
(* set-api-keys stores what it has validated.                              *)
LEMMA UpdateTyped ==
  ASSUME NEW k, KeysTyped(k), NEW u \in Flags, validate_update(u)
  PROVE  KeysTyped(merge_update(k, u))
<1> DEFINE m == merge_update(k, u)
<1>1. DOMAIN m = Fields /\ \A f \in Fields : m[f] = IF f \in DOMAIN u THEN u[f] ELSE k[f]
  BY DEF merge_update
<1> HIDE DEF m
<1>2. \A f \in KeyFields : m[f] = None \/ m[f] \in Lists
  <2> SUFFICES ASSUME NEW f \in KeyFields PROVE m[f] = None \/ m[f] \in Lists
    OBVIOUS
  <2>1. CASE f \in DOMAIN u
    BY <1>1, <2>1, MinerKeysAssumption, FieldsApart DEF Lists
  <2>2. CASE f \notin DOMAIN u
    BY <1>1, <2>2, FieldsApart DEF KeysTyped
  <2> QED BY <2>1, <2>2
<1>3. m["anthropic_upstream"] \in {None, "direct", "bedrock", "foundry"}
  BY <1>1, FieldsApart DEF validate_update, validate_selector, KeysTyped, Settings
<1>4. m["openai_upstream"] \in {None, "direct", "azure"}
  BY <1>1, FieldsApart DEF validate_update, validate_selector, KeysTyped, Settings
<1> QED BY <1>1, <1>2, <1>3, <1>4 DEF KeysTyped, m

(* Nothing is stored, deployed or asked for at first.                      *)
LEMMA InitInv == KeysInit => KeysInv
<1> SUFFICES ASSUME KeysInit PROVE KeysInv
  OBVIOUS
<1>1. KeysTyped(keys)
  BY FieldsApart DEF KeysInit, NoKeys, KeysTyped, Settings
<1>2. EnvAccepted /\ RecordsFit /\ NodeFits /\ SlotsAgree
  BY DEF KeysInit, EnvAccepted, RecordsFit, NodeFits, SlotsAgree
<1> QED BY <1>1, <1>2 DEF KeysInv

(* set-api-keys changes the stored keys alone.                             *)
LEMMA SetApiKeysInv ==
  ASSUME KeysInv, SetApiKeys
  PROVE  KeysInv'
<1>1. /\ KeysTyped(keys')
      /\ UNCHANGED <<secret, plan, row, env, node, sent, deploys>>
  BY UpdateTyped DEF KeysInv, SetApiKeys
<1>2. EnvAccepted' /\ RecordsFit' /\ NodeFits' /\ SlotsAgree'
  BY <1>1 DEF KeysInv, EnvAccepted, RecordsFit, NodeFits, SlotsAgree, ServedSlots, RecordFits
<1> QED BY <1>1, <1>2 DEF KeysInv

(***************************************************************************)
(* A deploy makes the record and the environment from one read of the keys,*)
(* under a number that no row has.                                         *)
(***************************************************************************)
LEMMA DeployInv ==
  ASSUME KeysInv, Deploy
  PROVE  KeysInv'
<1>1. /\ KeysTyped(keys) /\ deploy_preflight(keys)
      /\ deploys \in Nat /\ deploys' = deploys + 1
      /\ row # None => row.of \in Nat /\ row.of <= deploys
      /\ keys' = keys /\ row' = row /\ sent' = None
      /\ node' = [st |-> "off", table |-> None]
  BY DEF KeysInv, RecordsFit, Deploy
<1> DEFINE S == IF secret = None THEN Secrets ELSE {secret}
<1>2. PICK s \in S, capable \in BOOLEAN :
        /\ capable => SlotsDerivable(keys)
        /\ ~capable => reject_multikey_for_legacy_image(keys)
        /\ plan' = prepare_worker_record(keys, s, capable, deploys + 1)
        /\ env' = render_env_file(keys, s, capable, deploys + 1)
  <2>1. \E s \in S, capable \in BOOLEAN :
          /\ IF capable THEN SlotsDerivable(keys) ELSE reject_multikey_for_legacy_image(keys)
          /\ plan' = prepare_worker_record(keys, s, capable, deploys + 1)
          /\ env' = render_env_file(keys, s, capable, deploys + 1)
    BY Zenon DEF Deploy
  <2> HIDE DEF S
  <2> QED BY <2>1
<1>3. /\ env'.vars = render_provider_envs(keys) /\ env'.capable = capable
      /\ env'.secret = s /\ env'.of = deploys'
      /\ plan'.of = deploys' /\ plan'.secret = s
  BY <1>1, <1>2 DEF render_env_file, prepare_worker_record
<1>4. EnvAccepted'
  BY <1>1, <1>2, <1>3 DEF EnvAccepted, Accepted
<1>5. RecordFits(plan', env')
  <2>1. CASE capable
    BY <1>1, <1>2, <2>1, RegisteredServed DEF Accepted
  <2>2. CASE ~capable
    BY <1>3, <2>2 DEF RecordFits
  <2> QED BY <2>1, <2>2
<1>6. deploys' \in Nat /\ (row # None => row.of <= deploys' /\ row.of # deploys')
  <2>1. deploys' \in Nat
    BY <1>1
  <2>2. ASSUME row # None PROVE row.of <= deploys' /\ row.of # deploys'
    <3> DEFINE n == row.of
    <3>1. n \in Nat /\ n <= deploys
      BY <1>1, <2>2
    <3> HIDE DEF n
    <3>2. n <= deploys' /\ n # deploys'
      BY <1>1, <3>1
    <3> QED BY <3>2 DEF n
  <2> QED BY <2>1, <2>2
<1>7. RecordsFit'
  BY <1>1, <1>3, <1>5, <1>6 DEF RecordsFit
<1>8. NodeFits' /\ SlotsAgree' /\ KeysTyped(keys')
  BY <1>1 DEF NodeFits, SlotsAgree
<1> QED BY <1>4, <1>7, <1>8 DEF KeysInv

(* Registering, failing to, and tearing down.                              *)
LEMMA RecordStepsInv ==
  ASSUME KeysInv, Register \/ DeployFails \/ Teardown
  PROVE  KeysInv'
<1>1. CASE Register
  BY <1>1 DEF Register, KeysInv, EnvAccepted, RecordsFit, NodeFits, SlotsAgree, ServedSlots,
              RecordFits
<1>2. CASE DeployFails
  BY <1>2 DEF DeployFails, KeysInv, EnvAccepted, RecordsFit, NodeFits, SlotsAgree, ServedSlots,
              RecordFits
<1>3. CASE Teardown
  BY <1>3 DEF Teardown, KeysInv, EnvAccepted, RecordsFit, NodeFits, SlotsAgree, ServedSlots,
              RecordFits
<1> QED BY <1>1, <1>2, <1>3

(* A worker that boots comes up with the table of its environment.         *)
LEMMA BootInv ==
  ASSUME KeysInv, Boot
  PROVE  KeysInv'
<1>1. /\ env # None /\ env.capable
      /\ UNCHANGED <<keys, plan, row, env, sent, deploys>>
  BY DEF Boot
<1>2. ~BootFails(env.vars)
  BY <1>1, AcceptedBoots DEF KeysInv, EnvAccepted
<1>3. node' = [st |-> "up", table |-> slot_config_lua(env.vars, env.secret)]
  BY <1>2 DEF Boot
<1>4. NodeFits'
  BY <1>1, <1>3 DEF NodeFits
<1>5. KeysTyped(keys)' /\ EnvAccepted' /\ RecordsFit' /\ SlotsAgree'
  BY <1>1 DEF KeysInv, EnvAccepted, RecordsFit, SlotsAgree, ServedSlots, RecordFits, KeysTyped
<1> QED BY <1>4, <1>5 DEF KeysInv

(***************************************************************************)
(* A request is answered from the table of an accepted configuration; and  *)
(* the row, when it is that deploy's, lists the slots of the table.        *)
(***************************************************************************)
LEMMA RequestInv ==
  ASSUME KeysInv, NEW p \in Providers, NEW slot, Request(p, slot)
  PROVE  KeysInv'
<1>1. /\ UNCHANGED <<keys, plan, row, env, node, deploys>>
      /\ node.st = "up" /\ row # None /\ env # None /\ env.capable
      /\ node.table = slot_config_lua(env.vars, env.secret)
  BY DEF Request, KeysInv, NodeFits
<1> DEFINE answer == select_upstream_slot(node.table[p], slot)
<1>2. /\ sent'.p = p /\ sent'.slot = slot
      /\ sent'.key = IF row.secret # env.secret THEN "401" ELSE answer
  BY DEF Request, node_key_accepted
<1>3. PICK k : Accepted(k) /\ env.vars = render_provider_envs(k)
  BY <1>1 DEF KeysInv, EnvAccepted
<1> DEFINE served == answer \notin Rejections
           listed == /\ p \in FannedOut(env.vars)
                     /\ slot \in Ids(parse_key_slots(p, env.vars[ActiveField(env.vars, p)],
                                                     env.secret))
<1>4. slot # None => (served => slot = derive_slot_id(p, answer, env.secret)) /\ (served <=> listed)
  BY <1>1, <1>3, TableServes
<1>5. row.of = env.of => row.secret = env.secret /\ row.slots = ServedSlots(env)
  BY <1>1 DEF KeysInv, RecordsFit, RecordFits
<1>6. listed <=> p \in DOMAIN ServedSlots(env) /\ slot \in ServedSlots(env)[p]
  BY DEF ServedSlots
<1> HIDE DEF answer, listed
<1>7. SlotsAgree'
  <2> SUFFICES ASSUME slot # None
               PROVE  /\ sent'.key \notin Rejections =>
                           slot = derive_slot_id(p, sent'.key, env.secret)
                      /\ row.of = env.of =>
                           (sent'.key \notin Rejections <=>
                              (p \in DOMAIN row.slots /\ slot \in row.slots[p]))
    BY <1>1, <1>2 DEF SlotsAgree
  <2>1. CASE row.secret # env.secret
    BY <1>2, <1>5, <2>1 DEF Rejections
  <2>2. CASE row.secret = env.secret
    BY <1>2, <1>4, <1>5, <1>6, <2>2
  <2> QED BY <2>1, <2>2
<1>8. KeysTyped(keys)' /\ EnvAccepted' /\ RecordsFit' /\ NodeFits'
  BY <1>1 DEF KeysInv, EnvAccepted, RecordsFit, NodeFits, ServedSlots, RecordFits, KeysTyped
<1> QED BY <1>7, <1>8 DEF KeysInv

-----------------------------------------------------------------------------
(***************************************************************************)
(* The stored keys, the environment, the worker's table, the running       *)
(* deploy's record and the registry's row fit together in every behaviour. *)
(***************************************************************************)
THEOREM Invariance == KeysSpec => []KeysInv
<1>1. KeysInit => KeysInv
  BY InitInv
<1>2. KeysInv /\ [KeysNext]_keyVars => KeysInv'
  <2> SUFFICES ASSUME KeysInv, [KeysNext]_keyVars PROVE KeysInv'
    OBVIOUS
  <2>1. CASE SetApiKeys
    BY <2>1, SetApiKeysInv
  <2>2. CASE Deploy
    BY <2>2, DeployInv
  <2>3. CASE Register \/ DeployFails \/ Teardown
    BY <2>3, RecordStepsInv
  <2>4. CASE Boot
    BY <2>4, BootInv
  <2>5. CASE \E p \in Providers : \E slot \in Requested(p) : Request(p, slot)
    BY <2>5, RequestInv
  <2>6. CASE UNCHANGED keyVars
    BY <2>6 DEF keyVars, KeysInv, EnvAccepted, RecordsFit, NodeFits, SlotsAgree, ServedSlots,
                RecordFits, KeysTyped
  <2> QED BY <2>1, <2>2, <2>3, <2>4, <2>5, <2>6 DEF KeysNext
<1> QED BY <1>1, <1>2, PTL DEF KeysSpec

(***************************************************************************)
(* What `gmcli deploy` lets through, image/start.sh starts: every check of *)
(* the entrypoint follows from one of the deploy's.                        *)
(***************************************************************************)
THEOREM BootsAlways == KeysSpec => []DeployableBoots
<1>1. KeysInv => DeployableBoots
  BY DEF KeysInv, NodeFits, DeployableBoots
<1> QED BY <1>1, Invariance, PTL

(***************************************************************************)
(* A request that names a slot leaves with the key that the slot was       *)
(* derived from, and a worker of the row's own deploy serves the slots that*)
(* the row lists, no others.                                               *)
(***************************************************************************)
THEOREM SlotsServed == KeysSpec => []SlotsAgree
<1>1. KeysInv => SlotsAgree
  BY DEF KeysInv
<1> QED BY <1>1, Invariance, PTL

-----------------------------------------------------------------------------
(* The market and the streaming checks.                                    *)

(* The registry's row of a worker, and the record that this machine keeps. *)
RowRecords ==
  [backends : BackendMaps, hash : DOMAIN Images \cup {Unlisted}, cover : Coverages \cup {<<>>}]

LocalRecords == [backends : BackendMaps \cup {None}]

(* This machine has no record of another machine's worker.                 *)
OwnRecords(recs) ==
  /\ recs \in [Workers -> LocalRecords \cup {None}]
  /\ \A w \in Foreign : recs[w] = None

(* A record that tells a live worker's backends tells them as they are.    *)
Agrees(recs, w) ==
  recs[w] # None /\ recs[w].backends # None /\ rows[w] # None =>
    recs[w].backends = rows[w].backends

WorldInv ==
  /\ sel \in BackendMaps
  /\ OwnRecords(records)
  /\ rows \in [Workers -> RowRecords \cup {None}]
  /\ unsaved \subseteq Workers \ Foreign
  /\ \A w \in Workers \ unsaved : Agrees(records, w)
  /\ bindings \in [Models("anthropic") -> Revisions \cup {None}]

(* The fields of a command on the market, and of a check.                  *)
MarketFields(c) ==
  c \in [kind : {c.kind}, at : {c.at}, todo : {c.todo}, bp : {c.bp}, upstream : {c.upstream},
         cfg : {c.cfg}, policy : {c.policy}, truth : {c.truth}, moved : {c.moved},
         failed : {c.failed}]

CheckFields(c) ==
  c \in [kind : {c.kind}, at : {c.at}, target : {c.target}, probes : {c.probes},
         declared : {c.declared}, catalog : {c.catalog}, routes : {c.routes},
         bound : {c.bound}, todo : {c.todo}, moved : {c.moved}]

(* No policy takes a provider for direct that a settled worker served      *)
(* through a cloud.                                                        *)
PoliciesTrue(c) ==
  /\ DOMAIN c.truth = DOMAIN c.policy
  /\ \A p \in DOMAIN c.policy : c.truth[p] # {} => c.policy[p] = FENCED

(***************************************************************************)
(* A declaration works on the records of its start, which are right about  *)
(* every worker that has not been deployed anew since; and past the fence  *)
(* it is what CloudSupplyFenced asks.                                      *)
(***************************************************************************)
MarketCmdInv(c) ==
  /\ MarketFields(c)
  /\ c.at \in IF c.kind = "sweep" THEN {"delete"} ELSE {"policy", "confirm", "post"}
  /\ c.at = "policy" =>
       /\ OwnRecords(c.cfg.records)
       /\ \A w \in Workers \ c.moved : Agrees(c.cfg.records, w)
       /\ PoliciesTrue(c)
  /\ c.at \in {"confirm", "post"} =>
       \A t \in c.todo : c.truth[t[1]] # {} => c.kind = "one" /\ echo

(* The target of a check is what its row says, if its record knows.        *)
TargetTrue(g) ==
  g.known =>
    /\ g.row \in RowRecords /\ g.backends = g.row.backends
    /\ g.cover = None \/ g.cover = worker_provider_models(g.row.cover)
    /\ g.capable => image_has_bedrock_policy_feature(g.row.hash)

(* What ProbesFit asks of one probe of a check.                            *)
ProbeFits(c, pr) ==
  LET b == IF pr.p \in CloudProviders THEN c.target.row.backends[pr.p] ELSE None
      cover == c.target.row.cover
      slots == IF pr.p \in DOMAIN cover THEN cover[pr.p].slots ELSE <<>> IN
  /\ pr.wire = pr.model
  /\ b \in {None, "bedrock"}
  /\ pr.policy = (b = "bedrock") /\ (pr.revision # None) = (b = "bedrock")
  /\ b = "bedrock" => /\ pr.slot # None /\ ~pr.fallback
                      /\ pr.revision = c.bound[pr.model] /\ pr.revision \in Revisions
                      /\ c.target.row.hash \in DOMAIN Images
                      /\ Images[c.target.row.hash].binding
  /\ pr.slot # None /\ c.target.cover # None =>
       slots[pr.slot].verified /\ pr.model \in slots[pr.slot].models

(* A check goes over the providers of its target, under bindings that were *)
(* published.                                                              *)
CheckCmdInv(c) ==
  /\ CheckFields(c)
  /\ c.at \in {"gather", "bindings", "probe"}
  /\ TargetTrue(c.target)
  /\ c.at # "gather" => c.todo \subseteq providers_for_target(c.target)
  /\ c.at # "probe" => c.probes = {}
  /\ c.at = "probe" /\ c.bound # None =>
       \A m \in DOMAIN c.bound : c.bound[m] \in Revisions \cup {None}
  /\ c.target.known => \A pr \in c.probes : ProbeFits(c, pr)

CommandInv ==
  cmd # None =>
    /\ cmd.kind \in {"bulk", "one", "sweep", "check"}
    /\ cmd.kind \in {"bulk", "one", "sweep"} => MarketCmdInv(cmd)
    /\ cmd.kind = "check" => CheckCmdInv(cmd)

OperatorInv == WorldInv /\ CommandInv

-----------------------------------------------------------------------------
(* A settled worker that serves a provider through a cloud fences it off,  *)
(* whichever of the live workers and the image list could be read.         *)
LEMMA CloudFenced ==
  ASSUME NEW cfg, NEW p \in CloudProviders, NEW w \in Workers, NEW live \in {None, rows},
         NEW listed \in BOOLEAN, OwnRecords(cfg.records), Agrees(cfg.records, w),
         rows[w] # None, rows[w].backends[p] # None
  PROVE  declaration_policy(cfg, p, live, listed) = FENCED
<1>1. CASE has_explicit_cloud_provenance(cfg, p) \/ live = None
  BY <1>1 DEF declaration_policy
<1>2. CASE ~has_explicit_cloud_provenance(cfg, p) /\ live # None
  <2>1. live[w] # None
    BY <1>2
  <2>2. declaration_policy(cfg, p, live, listed) =
          IF ~listed THEN FENCED ELSE LivePolicy(cfg, p, live)
    BY <1>2, <2>1 DEF declaration_policy
  <2>3. cfg.records[w] = None \/ cfg.records[w].backends = None
    <3>1. SUFFICES ASSUME cfg.records[w] # None, cfg.records[w].backends # None
                   PROVE  FALSE
      OBVIOUS
    <3>2. cfg.records[w].backends[p] # None
      BY <3>1 DEF Agrees
    <3>3. w \in Recorded(cfg)
      BY <3>1 DEF Recorded
    <3> QED  BY <1>2, <3>1, <3>2, <3>3 DEF has_explicit_cloud_provenance
  <2>4. LivePolicy(cfg, p, live) = FENCED
    <3> DEFINE ws == {v \in Workers : live[v] # None}
               unknown == {v \in ws : live[v].hash \notin DOMAIN Images \/ cfg.records[v] = None}
               cloud == {v \in ws \ unknown :
                           recorded_worker_requires_cloud_fence(cfg.records[v], p)}
    <3>1. w \in unknown \/ w \in cloud
      BY <2>1, <2>3 DEF recorded_worker_requires_cloud_fence
    <3>2. cloud \union unknown # {}
      BY <3>1
    <3> QED  BY <3>2 DEF LivePolicy
  <2> QED  BY <2>2, <2>4
<1> QED  BY <1>1, <1>2

-----------------------------------------------------------------------------
(* What others do keeps what a command relies on: a worker that it had not *)
(* seen deployed anew serves as before, or is gone.                        *)
RowsKept(known) ==
  \A w \in known : rows'[w] # None => rows[w] # None /\ rows'[w].backends = rows[w].backends

(* A row that serves as before agrees with the records it agreed with.     *)
LEMMA AgreesKept ==
  ASSUME NEW recs, NEW w, Agrees(recs, w), RowsKept({w})
  PROVE  Agrees(recs, w)'
BY DEF Agrees, RowsKept

(* A command is kept while others move.                                    *)
LEMMA CommandKept ==
  ASSUME CommandInv, UNCHANGED echo, NEW moved, NEW W \in SUBSET Workers,
         RowsKept(Workers \ W),
         cmd' = None \/ cmd' = cmd \/ (cmd # None /\ cmd' = [cmd EXCEPT !.moved = moved]),
         cmd # None /\ cmd' # None => (cmd.moved \cup (W \ Foreign)) \subseteq cmd'.moved
  PROVE  CommandInv'
<1> SUFFICES ASSUME cmd' # None
             PROVE  /\ cmd'.kind \in {"bulk", "one", "sweep", "check"}
                    /\ cmd'.kind \in {"bulk", "one", "sweep"} => MarketCmdInv(cmd)'
                    /\ cmd'.kind = "check" => CheckCmdInv(cmd)'
  BY DEF CommandInv
<1>1. cmd # None
  OBVIOUS
<1>2. cmd.kind \in {"bulk", "one", "sweep", "check"}
  BY <1>1 DEF CommandInv
<1>c. PICK c : c = cmd
  OBVIOUS
<1>d. PICK d : d = cmd'
  OBVIOUS
<1>e. (c.moved \cup (W \ Foreign)) \subseteq d.moved
  BY <1>1, <1>c, <1>d
<1>3. CASE c.kind \in {"bulk", "one", "sweep"}
  <2>1. MarketCmdInv(c)
    BY <1>1, <1>3, <1>c DEF CommandInv
  <2>2. d = c \/ d = [c EXCEPT !.moved = moved]
    BY <1>c, <1>d
  <2>3. /\ MarketFields(d) /\ d.kind = c.kind /\ d.at = c.at /\ d.todo = c.todo /\ d.cfg = c.cfg
        /\ d.policy = c.policy /\ d.truth = c.truth
    BY <2>1, <2>2 DEF MarketFields, MarketCmdInv
  <2>4. ASSUME c.at = "policy"
        PROVE  \A w \in Workers \ d.moved : Agrees(c.cfg.records, w)'
    <3>1. SUFFICES ASSUME NEW w \in Workers \ d.moved
                   PROVE  Agrees(c.cfg.records, w)'
      OBVIOUS
    <3>2. CASE w \in Foreign
      BY <2>1, <2>4, <3>2 DEF MarketCmdInv, OwnRecords, Agrees
    <3>3. CASE w \notin Foreign
      <4>1. w \in Workers \ W /\ w \in Workers \ c.moved
        BY <1>e, <3>1, <3>3
      <4>2. RowsKept({w})
        BY <4>1 DEF RowsKept
      <4> QED  BY <2>1, <2>4, <4>1, <4>2, AgreesKept DEF MarketCmdInv
    <3> QED  BY <3>2, <3>3
  <2>5. MarketCmdInv(d)'
    BY <2>1, <2>3, <2>4 DEF MarketCmdInv, PoliciesTrue
  <2> QED  BY <1>3, <1>d, <2>3, <2>5
<1>4. CASE c.kind = "check"
  <2>1. CheckCmdInv(c)
    BY <1>1, <1>4, <1>c DEF CommandInv
  <2>2. d = c \/ d = [c EXCEPT !.moved = moved]
    BY <1>c, <1>d
  <2>3. /\ CheckFields(d) /\ d.kind = c.kind /\ d.at = c.at /\ d.todo = c.todo
        /\ d.target = c.target /\ d.probes = c.probes /\ d.bound = c.bound
    BY <2>1, <2>2 DEF CheckFields, CheckCmdInv
  <2>4. CheckCmdInv(d)
    <3>1. ASSUME NEW pr, ProbeFits(c, pr)
          PROVE  ProbeFits(d, pr)
      BY <2>3, <3>1 DEF ProbeFits
    <3> QED  BY <2>1, <2>3, <3>1 DEF CheckCmdInv
  <2> QED  BY <1>4, <1>d, <2>3, <2>4
<1> QED  BY <1>2, <1>3, <1>4, <1>c

(* In particular when no worker is deployed anew.                          *)
LEMMA CommandStays ==
  ASSUME CommandInv, UNCHANGED <<echo, cmd>>, RowsKept(Workers)
  PROVE  CommandInv'
<1> DEFINE W == {}
<1>1. W \in SUBSET Workers /\ RowsKept(Workers \ W) /\ UNCHANGED echo /\ cmd' = cmd
  BY DEF RowsKept
<1>2. cmd # None /\ cmd' # None => (cmd.moved \cup (W \ Foreign)) \subseteq cmd'.moved
  BY <1>1
<1> HIDE DEF W
<1> QED  BY <1>1, <1>2, CommandKept

(* What the selectors ask for is a map of backends.                        *)
LEMMA BackendsTyped ==
  ASSUME sel \in BackendMaps
  PROVE  Backends \in BackendMaps
BY DEF Backends, BackendMaps, configured_cloud_backend, Adapters, CloudProviders

(* The steps of others.                                                    *)
LEMMA SelectInv == OperatorInv /\ Select /\ UNCHANGED bindings => OperatorInv'
<1> SUFFICES ASSUME OperatorInv, Select, UNCHANGED bindings PROVE OperatorInv'
  OBVIOUS
<1>1. UNCHANGED <<records, rows, unsaved, echo, cmd, bindings>>
  BY DEF Select, Move
<1>2. sel' \in BackendMaps
  <2>1. PICK p \in CloudProviders :
          \E a \in Adapters[p] \union {None} : sel' = [sel EXCEPT ![p] = a]
    BY DEF Select
  <2>2. PICK a \in Adapters[p] \union {None} : sel' = [sel EXCEPT ![p] = a]
    BY <2>1
  <2>3. sel \in [CloudProviders -> {None} \union UNION {Adapters[q] : q \in CloudProviders}]
        /\ \A q \in CloudProviders : sel[q] \in Adapters[q] \union {None}
    BY DEF OperatorInv, WorldInv, BackendMaps
  <2>4. a \in {None} \union UNION {Adapters[q] : q \in CloudProviders}
    <3>1. Adapters[p] \in {Adapters[q] : q \in CloudProviders}
      OBVIOUS
    <3>2. CASE a \in Adapters[p]
      BY <3>1, <3>2
    <3> QED  BY <2>2, <3>2
  <2>5. sel' \in [CloudProviders -> {None} \union UNION {Adapters[q] : q \in CloudProviders}]
        /\ \A q \in CloudProviders : sel'[q] = IF q = p THEN a ELSE sel[q]
    BY <2>2, <2>3, <2>4
  <2> QED  BY <2>2, <2>3, <2>5 DEF BackendMaps
<1>3. CommandInv'
  BY <1>1, CommandStays DEF OperatorInv, RowsKept
<1> QED  BY <1>1, <1>2, <1>3 DEF OperatorInv, WorldInv, OwnRecords, Agrees

(* A worker that is deployed anew is unsettled, for its record and for a   *)
(* running command.                                                        *)
LEMMA DeployRegistersInv == OperatorInv /\ DeployRegisters /\ UNCHANGED bindings => OperatorInv'
<1> SUFFICES ASSUME OperatorInv, DeployRegisters, UNCHANGED bindings PROVE OperatorInv'
  OBVIOUS
<1>1. UNCHANGED <<sel, records, echo, bindings>>
  BY DEF DeployRegisters, Move
<1>2. PICK w \in Workers \ Foreign : \E h \in DOMAIN Images \union {Unlisted} :
           /\ rows' = [rows EXCEPT ![w] = [backends |-> Backends, hash |-> h, cover |-> <<>>]]
           /\ unsaved' = unsaved \union {w}
           /\ Touched(w)
  BY DEF DeployRegisters
<1>3. PICK h \in DOMAIN Images \union {Unlisted} :
           /\ rows' = [rows EXCEPT ![w] = [backends |-> Backends, hash |-> h, cover |-> <<>>]]
           /\ unsaved' = unsaved \union {w}
           /\ Touched(w)
  BY <1>2
<1>4. [backends |-> Backends, hash |-> h, cover |-> <<>>] \in RowRecords
  BY BackendsTyped DEF RowRecords, OperatorInv, WorldInv
<1>5. /\ rows' \in [Workers -> RowRecords \cup {None}]
      /\ \A v \in Workers \ {w} : rows'[v] = rows[v]
  BY <1>3, <1>4 DEF OperatorInv, WorldInv
<1>6. WorldInv'
  BY <1>1, <1>3, <1>5 DEF OperatorInv, WorldInv, OwnRecords, Agrees
<1>7. CommandInv'
  <2>1. RowsKept(Workers \ {w})
    BY <1>5 DEF RowsKept
  <2>2. CASE cmd = None
    <3>1. cmd' = None
      BY <1>3, <2>2 DEF Touched
    <3> QED  BY <3>1 DEF CommandInv
  <2>3. CASE cmd # None
    <3>1. PICK c : c = cmd
      OBVIOUS
    <3>2. cmd' = [c EXCEPT !.moved = c.moved \union {w}]
      BY <1>3, <2>3, <3>1 DEF Touched
    <3>3. MarketFields(c) \/ CheckFields(c)
      BY <2>3, <3>1 DEF OperatorInv, CommandInv, MarketCmdInv, CheckCmdInv
    <3>4. cmd'.moved = c.moved \union {w}
      BY <3>2, <3>3 DEF MarketFields, CheckFields
    <3> QED  BY <1>1, <2>1, <2>3, <3>1, <3>2, <3>4, CommandKept DEF OperatorInv
  <2> QED  BY <2>2, <2>3
<1> QED  BY <1>6, <1>7 DEF OperatorInv

(* The saved record tells what was registered, so that the worker is       *)
(* settled again.                                                          *)
LEMMA SaveRecordInv == OperatorInv /\ SaveRecord /\ UNCHANGED bindings => OperatorInv'
<1> SUFFICES ASSUME OperatorInv, SaveRecord, UNCHANGED bindings PROVE OperatorInv'
  OBVIOUS
<1>1. UNCHANGED <<sel, rows, echo, cmd, bindings>>
  BY DEF SaveRecord
<1>2. PICK w \in unsaved : /\ rows[w] # None
                           /\ records' = [records EXCEPT ![w] = [backends |-> rows[w].backends]]
                           /\ unsaved' = unsaved \ {w}
  BY DEF SaveRecord
<1>3. w \in Workers /\ w \notin Foreign /\ rows[w].backends \in BackendMaps
  BY <1>2 DEF OperatorInv, WorldInv, RowRecords
<1>4. OwnRecords(records')
  BY <1>2, <1>3 DEF OperatorInv, WorldInv, OwnRecords, LocalRecords
<1>5. \A v \in Workers \ unsaved' : Agrees(records, v)'
  BY <1>1, <1>2, <1>3 DEF OperatorInv, WorldInv, OwnRecords, Agrees
<1>6. CommandInv'
  BY <1>1, CommandStays DEF OperatorInv, RowsKept
<1> QED  BY <1>1, <1>2, <1>4, <1>5, <1>6 DEF OperatorInv, WorldInv, OwnRecords

(* Another image under a worker leaves its backends alone.                 *)
LEMMA RegisterImageInv == OperatorInv /\ RegisterImage /\ UNCHANGED bindings => OperatorInv'
<1> SUFFICES ASSUME OperatorInv, RegisterImage, UNCHANGED bindings PROVE OperatorInv'
  OBVIOUS
<1>1. UNCHANGED <<sel, records, unsaved, echo, cmd, bindings>>
  BY DEF RegisterImage, Move
<1>2. PICK w \in Workers \ Foreign : \E h \in DOMAIN Images :
           rows[w] # None /\ rows' = [rows EXCEPT ![w].hash = h]
  BY DEF RegisterImage
<1>3. PICK h \in DOMAIN Images : rows' = [rows EXCEPT ![w].hash = h]
  BY <1>2
<1>4. rows[w] \in RowRecords
  BY <1>2 DEF OperatorInv, WorldInv
<1>5. /\ [rows[w] EXCEPT !.hash = h] \in RowRecords
      /\ [rows[w] EXCEPT !.hash = h].backends = rows[w].backends
  BY <1>4 DEF RowRecords
<1>6. /\ rows' \in [Workers -> RowRecords \cup {None}]
      /\ rows'[w] = [rows[w] EXCEPT !.hash = h]
      /\ \A v \in Workers \ {w} : rows'[v] = rows[v]
  BY <1>3, <1>5 DEF OperatorInv, WorldInv
<1>7. RowsKept(Workers)
  BY <1>2, <1>5, <1>6 DEF RowsKept
<1>8. \A v \in Workers \ unsaved' : Agrees(records, v)'
  BY <1>1, <1>7 DEF OperatorInv, WorldInv, RowsKept, Agrees
<1>9. CommandInv'
  BY <1>1, <1>7, CommandStays DEF OperatorInv
<1> QED  BY <1>1, <1>6, <1>8, <1>9 DEF OperatorInv, WorldInv, OwnRecords

(* Another machine only deploys workers that have no record here.          *)
LEMMA DeployElsewhereInv == OperatorInv /\ DeployElsewhere /\ UNCHANGED bindings => OperatorInv'
<1> SUFFICES ASSUME OperatorInv, DeployElsewhere, UNCHANGED bindings PROVE OperatorInv'
  OBVIOUS
<1>1. UNCHANGED <<sel, records, unsaved, echo, cmd, bindings>>
  BY DEF DeployElsewhere, Move
<1>2. PICK w \in Foreign, h \in DOMAIN Images \union {Unlisted}, b \in Elsewhere :
           rows' = [rows EXCEPT ![w] = [backends |-> b, hash |-> h, cover |-> <<>>]]
  BY DEF DeployElsewhere
<1>3. w \in Workers /\ b \in BackendMaps
  BY MarketAssumption
<1>4. [backends |-> b, hash |-> h, cover |-> <<>>] \in RowRecords
  BY <1>3 DEF RowRecords
<1>5. /\ rows' \in [Workers -> RowRecords \cup {None}]
      /\ \A v \in Workers \ {w} : rows'[v] = rows[v]
  BY <1>2, <1>3, <1>4 DEF OperatorInv, WorldInv
<1>6. \A v \in Workers \ unsaved' : Agrees(records, v)'
  BY <1>1, <1>5 DEF OperatorInv, WorldInv, OwnRecords, Agrees
<1>7. RowsKept(Workers \ {w})
  BY <1>5 DEF RowsKept
<1>8. CommandInv'
  BY <1>1, <1>3, <1>7, CommandKept DEF OperatorInv
<1> QED  BY <1>1, <1>5, <1>6, <1>8 DEF OperatorInv, WorldInv, OwnRecords

(* A worker that is gone serves nothing.                                   *)
LEMMA WorkerGoneInv == OperatorInv /\ WorkerGone /\ UNCHANGED bindings => OperatorInv'
<1> SUFFICES ASSUME OperatorInv, WorkerGone, UNCHANGED bindings PROVE OperatorInv'
  OBVIOUS
<1>1. UNCHANGED <<sel, echo, cmd, bindings>>
  BY DEF WorkerGone, Move
<1>2. PICK w \in Workers : /\ rows' = [rows EXCEPT ![w] = None]
                           /\ records' \in {records, [records EXCEPT ![w] = None]}
                           /\ unsaved' = unsaved \ {w}
  BY DEF WorkerGone
<1>3. /\ rows' \in [Workers -> RowRecords \cup {None}]
      /\ rows'[w] = None /\ \A v \in Workers \ {w} : rows'[v] = rows[v]
  BY <1>2 DEF OperatorInv, WorldInv
<1>4. OwnRecords(records') /\ \A v \in Workers \ {w} : records'[v] = records[v]
  <2>1. CASE records' = records
    BY <2>1 DEF OperatorInv, WorldInv, OwnRecords
  <2>2. CASE records' = [records EXCEPT ![w] = None]
    BY <2>2 DEF OperatorInv, WorldInv, OwnRecords
  <2> QED  BY <1>2, <2>1, <2>2
<1>5. \A v \in Workers \ unsaved' : Agrees(records, v)'
  BY <1>2, <1>3, <1>4 DEF OperatorInv, WorldInv, Agrees
<1>6. RowsKept(Workers)
  BY <1>3 DEF RowsKept
<1>7. CommandInv'
  BY <1>1, <1>6, CommandStays DEF OperatorInv
<1> QED  BY <1>1, <1>2, <1>3, <1>4, <1>5, <1>7 DEF OperatorInv, WorldInv, OwnRecords

(* What probes find out does not change the backends.                      *)
LEMMA ProbedInv == OperatorInv /\ Probed /\ UNCHANGED bindings => OperatorInv'
<1> SUFFICES ASSUME OperatorInv, Probed, UNCHANGED bindings PROVE OperatorInv'
  OBVIOUS
<1>1. UNCHANGED <<sel, records, unsaved, echo, cmd, bindings>>
  BY DEF Probed, Move
<1>2. PICK w \in Workers, k \in Coverages :
           rows[w] # None /\ rows' = [rows EXCEPT ![w].cover = k]
  BY DEF Probed
<1>3. rows[w] \in RowRecords
  BY <1>2 DEF OperatorInv, WorldInv
<1>4. /\ [rows[w] EXCEPT !.cover = k] \in RowRecords
      /\ [rows[w] EXCEPT !.cover = k].backends = rows[w].backends
  BY <1>3 DEF RowRecords
<1>5. /\ rows' \in [Workers -> RowRecords \cup {None}]
      /\ rows'[w] = [rows[w] EXCEPT !.cover = k]
      /\ \A v \in Workers \ {w} : rows'[v] = rows[v]
  BY <1>2, <1>4 DEF OperatorInv, WorldInv
<1>6. RowsKept(Workers)
  BY <1>2, <1>4, <1>5 DEF RowsKept
<1>7. \A v \in Workers \ unsaved' : Agrees(records, v)'
  BY <1>1, <1>6 DEF OperatorInv, WorldInv, RowsKept, Agrees
<1>8. CommandInv'
  BY <1>1, <1>6, CommandStays DEF OperatorInv
<1> QED  BY <1>1, <1>5, <1>7, <1>8 DEF OperatorInv, WorldInv, OwnRecords

(* A binding that moves touches no worker and no running command.          *)
LEMMA RebindInv == OperatorInv /\ Rebind => OperatorInv'
<1> SUFFICES ASSUME OperatorInv, Rebind PROVE OperatorInv'
  OBVIOUS
<1>1. UNCHANGED <<sel, records, rows, unsaved, echo, cmd>>
  BY DEF Rebind, Move
<1>2. bindings' \in [Models("anthropic") -> Revisions \cup {None}]
  BY DEF Rebind, OperatorInv, WorldInv
<1>3. CommandInv'
  BY <1>1, CommandStays DEF OperatorInv, RowsKept
<1> QED  BY <1>1, <1>2, <1>3 DEF OperatorInv, WorldInv, OwnRecords, Agrees

-----------------------------------------------------------------------------
(* The commands on the market.                                             *)

(* No command on the market or check touches what others change.           *)
LEMMA WorldStays ==
  ASSUME WorldInv, UNCHANGED <<sel, records, rows, unsaved, echo, bindings>>
  PROVE  WorldInv'
BY DEF WorldInv, OwnRecords, Agrees

(* A command begins with the records of now, and mistrusts the unsettled   *)
(* workers.                                                                *)
LEMMA StartInv ==
  ASSUME OperatorInv, UNCHANGED bindings,
         NEW kind \in {"bulk", "one", "sweep"}, NEW at, NEW todo, NEW bp, NEW upstream,
         at = IF kind = "sweep" THEN "delete" ELSE "policy",
         Start(kind, at, todo, bp, upstream)
  PROVE  OperatorInv'
<1>1. WorldInv'
  BY WorldStays DEF OperatorInv, Start, world
<1>d. PICK d : d = cmd'
  OBVIOUS
<1>2. d = [kind |-> kind, at |-> at, todo |-> todo, bp |-> bp, upstream |-> upstream,
           cfg |-> [sel |-> sel, records |-> records],
           policy |-> <<>>, truth |-> <<>>, moved |-> unsaved, failed |-> FALSE]
  BY <1>d DEF Start
<1>3. /\ MarketFields(d) /\ d.kind = kind /\ d.at = at
      /\ d.cfg.records = records /\ d.moved = unsaved
      /\ d.policy = <<>> /\ d.truth = <<>>
  BY <1>2 DEF MarketFields
<1>4. MarketCmdInv(d)'
  <2>1. PoliciesTrue(d)
    BY <1>3 DEF PoliciesTrue
  <2>2. \A w \in Workers \ d.moved : Agrees(d.cfg.records, w)'
    BY <1>3 DEF OperatorInv, WorldInv, Agrees, Start, world
  <2>3. OwnRecords(d.cfg.records)
    BY <1>3 DEF OperatorInv, WorldInv
  <2> QED  BY <1>3, <2>1, <2>2, <2>3 DEF MarketCmdInv
<1> QED  BY <1>1, <1>3, <1>4, <1>d DEF OperatorInv, CommandInv

(* The bulk declaration starts.                                            *)
LEMMA DeclareProductsInv == OperatorInv /\ DeclareProducts /\ UNCHANGED bindings => OperatorInv'
<1> SUFFICES ASSUME OperatorInv, DeclareProducts, UNCHANGED bindings PROVE OperatorInv'
  OBVIOUS
<1>1. PICK filter, bp, lookup : Start("bulk", "policy", BulkTargets(filter, lookup), bp, FALSE)
  BY DEF DeclareProducts, declare_products
<1> QED  BY <1>1, StartInv

(* The declaration of one product starts.                                  *)
LEMMA DeclareProductInv == OperatorInv /\ DeclareProduct /\ UNCHANGED bindings => OperatorInv'
<1> SUFFICES ASSUME OperatorInv, DeclareProduct, UNCHANGED bindings PROVE OperatorInv'
  OBVIOUS
<1>1. PICK t, bp, upstream : Start("one", "policy", {t}, bp, upstream)
  BY DEF DeclareProduct, declare_product
<1> QED  BY <1>1, StartInv

(* A withdrawal starts, and has no policy to get wrong.                    *)
LEMMA UndeclareInv ==
  OperatorInv /\ (UndeclareProducts \/ UndeclareProduct) /\ UNCHANGED bindings => OperatorInv'
<1> SUFFICES ASSUME OperatorInv, UndeclareProducts \/ UndeclareProduct, UNCHANGED bindings
             PROVE  OperatorInv'
  OBVIOUS
<1>1. PICK todo : Start("sweep", "delete", todo, 0, FALSE)
  BY DEF UndeclareProducts, UndeclareProduct
<1> QED  BY <1>1, StartInv

(* A step of a running command, from what it makes of the command.         *)
LEMMA MarketStepInv ==
  ASSUME OperatorInv, UNCHANGED <<world, bindings>>, cmd' # None =>
           cmd'.kind \in {"bulk", "one", "sweep"} /\ MarketCmdInv(cmd)'
  PROVE  OperatorInv'
BY WorldStays DEF OperatorInv, CommandInv, world

(* The policy is right about the workers that the command may trust its    *)
(* records on.                                                             *)
LEMMA ResolvePolicyInv == OperatorInv /\ ResolvePolicy /\ UNCHANGED bindings => OperatorInv'
<1> SUFFICES ASSUME OperatorInv, ResolvePolicy, UNCHANGED bindings PROVE OperatorInv'
  OBVIOUS
<1>c. PICK c : c = cmd
  OBVIOUS
<1>d. PICK d : d = cmd'
  OBVIOUS
<1>0. c # None /\ c.at = "policy" /\ UNCHANGED world
  BY <1>c DEF ResolvePolicy
<1>1. c.kind \in {"bulk", "one", "sweep"} /\ MarketCmdInv(c)
  BY <1>0, <1>c DEF OperatorInv, CommandInv, CheckCmdInv
<1>p. PICK p \in ProvidersOf(cmd.todo) \ DOMAIN cmd.policy, live \in {None, rows},
           listed \in BOOLEAN :
        cmd' = [cmd EXCEPT !.policy = With(@, p, declaration_policy(cmd.cfg, p, live, listed)),
                           !.truth = With(@, p, CloudServing(p) \ cmd.moved)]
  BY DEF ResolvePolicy
<1>2. d = [c EXCEPT !.policy = With(@, p, declaration_policy(c.cfg, p, live, listed)),
                    !.truth = With(@, p, CloudServing(p) \ c.moved)]
  BY <1>c, <1>d, <1>p
<1> DEFINE pol == declaration_policy(c.cfg, p, live, listed)
           served == CloudServing(p) \ c.moved
<1>3. ASSUME served # {} PROVE pol = FENCED
  <2>1. PICK w \in CloudServing(p) : w \notin c.moved
    BY <1>3
  <2>2. /\ w \in Workers /\ p \in CloudProviders
        /\ rows[w] # None /\ rows[w].backends[p] # None
    BY <2>1 DEF CloudServing
  <2>3. OwnRecords(c.cfg.records) /\ Agrees(c.cfg.records, w)
    BY <1>0, <1>1, <2>1, <2>2 DEF MarketCmdInv
  <2> QED  BY <2>2, <2>3, CloudFenced
<1> HIDE DEF pol, served
<1>4. /\ MarketFields(d) /\ d.kind = c.kind /\ d.at = c.at /\ d.cfg = c.cfg /\ d.moved = c.moved
      /\ d.policy = With(c.policy, p, pol) /\ d.truth = With(c.truth, p, served)
  BY <1>1, <1>2 DEF MarketFields, MarketCmdInv, pol, served
<1>5. PoliciesTrue(d)
  <2>1. PoliciesTrue(c)
    BY <1>0, <1>1 DEF MarketCmdInv
  <2> QED  BY <1>3, <1>4, <2>1 DEF PoliciesTrue, With
<1>6. MarketCmdInv(d)'
  <2>1. OwnRecords(c.cfg.records) /\ \A w \in Workers \ c.moved : Agrees(c.cfg.records, w)'
    BY <1>0, <1>1 DEF MarketCmdInv, Agrees, world
  <2> QED  BY <1>0, <1>1, <1>4, <1>5, <2>1 DEF MarketCmdInv
<1> QED  BY <1>0, <1>1, <1>4, <1>6, <1>d, MarketStepInv

(* The fence: what is left over is not excluded, and the registry checks   *)
(* echoes where that is needed.                                            *)
LEMMA FenceInv == OperatorInv /\ Fence /\ UNCHANGED bindings => OperatorInv'
<1> SUFFICES ASSUME OperatorInv, Fence, UNCHANGED bindings PROVE OperatorInv'
  OBVIOUS
<1>c. PICK c : c = cmd
  OBVIOUS
<1>d. PICK d : d = cmd'
  OBVIOUS
<1>0. /\ c # None /\ c.at = "policy" /\ UNCHANGED world
      /\ ProvidersOf(c.todo) \subseteq DOMAIN c.policy
  BY <1>c DEF Fence, Resolved
<1>1. c.kind \in {"bulk", "one", "sweep"} /\ MarketCmdInv(c)
  BY <1>0, <1>c DEF OperatorInv, CommandInv, CheckCmdInv
<1>2. PoliciesTrue(c) /\ c.kind # "sweep"
  BY <1>0, <1>1 DEF MarketCmdInv
<1>3. CASE d = None
  BY <1>0, <1>3, <1>d, MarketStepInv
<1>4. CASE d # None
  <2>1. /\ require_cloud_bulk_capability
        /\ d = [c EXCEPT !.at = "confirm", !.todo = skip_cloud_bulk_targets,
                         !.policy = <<>>, !.cfg = None]
    BY <1>4, <1>c, <1>d DEF Fence, End
  <2>2. /\ MarketFields(d) /\ d.kind = c.kind /\ d.at = "confirm" /\ d.truth = c.truth
        /\ d.todo = skip_cloud_bulk_targets
    BY <1>1, <2>1 DEF MarketFields, MarketCmdInv
  <2>3. ASSUME NEW t \in d.todo, d.truth[t[1]] # {}
        PROVE  d.kind = "one" /\ echo
    <3>1. t \in c.todo /\ (c.kind # "one" => ~c.policy[t[1]].exclude)
      BY <2>2, <1>c DEF skip_cloud_bulk_targets
    <3>2. t[1] \in DOMAIN c.policy
      BY <1>0, <3>1 DEF ProvidersOf
    <3>3. c.policy[t[1]] = FENCED
      BY <1>2, <2>2, <2>3, <3>2 DEF PoliciesTrue
    <3>4. c.kind = "one"
      BY <3>1, <3>3 DEF FENCED
    <3>5. echo
      BY <1>c, <2>1, <3>2, <3>3 DEF require_cloud_bulk_capability, FENCED
    <3> QED  BY <2>2, <3>4, <3>5
  <2>4. echo' = echo
    BY <1>0 DEF world
  <2>5. MarketCmdInv(d)'
    BY <1>2, <2>2, <2>3, <2>4 DEF MarketCmdInv
  <2> QED  BY <1>0, <1>1, <1>d, <2>2, <2>5, MarketStepInv
<1> QED  BY <1>3, <1>4

(* Past the fence a command only gets shorter.                             *)
Shorter(d) ==
  /\ MarketFields(d) /\ d.kind = cmd.kind /\ d.truth = cmd.truth /\ d.todo \subseteq cmd.todo
  /\ \/ cmd.at \in {"confirm", "post"} /\ d.at \in {"confirm", "post"}
     \/ cmd.at = "delete" /\ d.at = "delete"

(* Such a step keeps what the fence has established.                       *)
LEMMA FencedStepInv ==
  ASSUME OperatorInv, UNCHANGED <<world, bindings>>, NEW d, d = cmd',
         cmd # None, cmd.kind \in {"bulk", "one", "sweep"}, d # None => Shorter(d)
  PROVE  OperatorInv'
<1>c. PICK c : c = cmd
  OBVIOUS
<1>1. MarketCmdInv(c) /\ c.kind \in {"bulk", "one", "sweep"}
  BY <1>c DEF OperatorInv, CommandInv
<1>2. CASE d = None
  BY <1>2, MarketStepInv
<1>3. CASE d # None
  <2>1. echo' = echo
    BY DEF world
  <2>2. MarketCmdInv(d)'
    BY <1>1, <1>3, <1>c, <2>1 DEF MarketCmdInv, Shorter
  <2> QED  BY <1>1, <1>3, <1>c, <2>2, MarketStepInv DEF Shorter
<1> QED  BY <1>2, <1>3

(* The operator's answer changes no target.                                *)
LEMMA ConfirmInv == OperatorInv /\ Confirm /\ UNCHANGED bindings => OperatorInv'
<1> SUFFICES ASSUME OperatorInv, Confirm, UNCHANGED bindings PROVE OperatorInv'
  OBVIOUS
<1>c. PICK c : c = cmd
  OBVIOUS
<1>d. PICK d : d = cmd'
  OBVIOUS
<1>0. c # None /\ c.at = "confirm" /\ UNCHANGED <<world, bindings>>
  BY <1>c DEF Confirm
<1>1. c.kind \in {"bulk", "one", "sweep"} /\ MarketFields(c)
  BY <1>0, <1>c DEF OperatorInv, CommandInv, CheckCmdInv, MarketCmdInv
<1>2. d = None \/ d = [c EXCEPT !.at = "post"]
  BY <1>c, <1>d DEF Confirm, End
<1>3. d # None => Shorter(d)
  BY <1>0, <1>1, <1>2, <1>c DEF Shorter, MarketFields
<1> QED  BY <1>0, <1>1, <1>3, <1>c, <1>d, FencedStepInv

(* An offer that is sent is taken off the list.                            *)
LEMMA PostInv == OperatorInv /\ Post /\ UNCHANGED bindings => OperatorInv'
<1> SUFFICES ASSUME OperatorInv, Post, UNCHANGED bindings PROVE OperatorInv'
  OBVIOUS
<1>c. PICK c : c = cmd
  OBVIOUS
<1>d. PICK d : d = cmd'
  OBVIOUS
<1>0. c # None /\ c.at = "post" /\ UNCHANGED <<world, bindings>>
  BY <1>c DEF Post
<1>1. c.kind \in {"bulk", "one", "sweep"} /\ MarketFields(c)
  BY <1>0, <1>c DEF OperatorInv, CommandInv, CheckCmdInv, MarketCmdInv
<1>n. PICK t, result : cmd' = Note(t, result)
  BY DEF Post
<1>f. PICK failed : failed = (c.failed \/ result = "error")
  OBVIOUS
<1>2. d = [c EXCEPT !.todo = c.todo \ {t}, !.failed = failed]
  BY <1>c, <1>d, <1>f, <1>n DEF Note
<1>3. d # None => Shorter(d)
  BY <1>0, <1>1, <1>2, <1>c DEF Shorter, MarketFields
<1> QED  BY <1>0, <1>1, <1>3, <1>c, <1>d, FencedStepInv

(* A withdrawal likewise.                                                  *)
LEMMA DeleteOfferInv == OperatorInv /\ delete_offer /\ UNCHANGED bindings => OperatorInv'
<1> SUFFICES ASSUME OperatorInv, delete_offer, UNCHANGED bindings PROVE OperatorInv'
  OBVIOUS
<1>c. PICK c : c = cmd
  OBVIOUS
<1>d. PICK d : d = cmd'
  OBVIOUS
<1>0. c # None /\ c.at = "delete" /\ UNCHANGED <<world, bindings>>
  BY <1>c DEF delete_offer
<1>1. c.kind \in {"bulk", "one", "sweep"} /\ MarketFields(c)
  BY <1>0, <1>c DEF OperatorInv, CommandInv, CheckCmdInv, MarketCmdInv
<1>n. PICK t, result : cmd' = Note(t, result)
  BY DEF delete_offer
<1>f. PICK failed : failed = (c.failed \/ result = "error")
  OBVIOUS
<1>2. d = [c EXCEPT !.todo = c.todo \ {t}, !.failed = failed]
  BY <1>c, <1>d, <1>f, <1>n DEF Note
<1>3. d # None => Shorter(d)
  BY <1>0, <1>1, <1>2, <1>c DEF Shorter, MarketFields
<1> QED  BY <1>0, <1>1, <1>3, <1>c, <1>d, FencedStepInv

(* The end of a command leaves nothing to be wrong about.                  *)
LEMMA FinishInv == OperatorInv /\ Finish /\ UNCHANGED bindings => OperatorInv'
BY MarketStepInv DEF Finish, End

-----------------------------------------------------------------------------
(* The checks.                                                             *)

(* A step of a check, from what it makes of the command.                   *)
LEMMA CheckStepInv ==
  ASSUME OperatorInv, UNCHANGED <<world, bindings>>,
         cmd' # None => cmd'.kind = "check" /\ CheckCmdInv(cmd')
  PROVE  OperatorInv'
<1>1. WorldInv'
  BY WorldStays DEF OperatorInv, world
<1> QED  BY <1>1 DEF OperatorInv, CommandInv

(* A check starts with a target that is what its row says.                 *)
LEMMA CheckInv ==
  ASSUME OperatorInv, NEW target, TargetTrue(target), Check(target)
  PROVE  OperatorInv'
<1>d. PICK d : d = cmd'
  OBVIOUS
<1>1. d = [kind |-> "check", at |-> "gather", target |-> target, probes |-> {},
           declared |-> None, catalog |-> {}, routes |-> {}, bound |-> None,
           todo |-> {}, moved |-> {}]
  BY <1>d DEF Check
<1>2. /\ CheckFields(d) /\ d.kind = "check" /\ d.at = "gather" /\ d.target = target
      /\ d.probes = {}
  BY <1>1 DEF CheckFields
<1>3. CheckCmdInv(d)
  BY <1>2 DEF CheckCmdInv
<1> QED  BY <1>2, <1>3, <1>d, CheckStepInv DEF Check

(* The target of check-streaming is a live worker, as its record describes *)
(* it.                                                                     *)
LEMMA CmdCheckStreamingInv == OperatorInv /\ cmd_check_streaming => OperatorInv'
<1> SUFFICES ASSUME OperatorInv, cmd_check_streaming PROVE OperatorInv'
  OBVIOUS
<1>1. PICK w \in Workers : /\ first_live_worker_id(w) /\ records[w] # None
                           /\ \E g \in resolve_primary_worker(w) : Check(g)
  BY DEF cmd_check_streaming
<1>2. PICK g \in resolve_primary_worker(w) : Check(g)
  BY <1>1
<1>3. PICK capable \in {FALSE} \union
                         (IF backends_from_config(records[w])["anthropic"] = "bedrock"
                          THEN {image_has_bedrock_policy_feature(rows[w].hash)} ELSE {}) :
        g = pick_target_worker(w, capable)
  BY <1>2 DEF resolve_primary_worker
<1>4. capable => image_has_bedrock_policy_feature(rows[w].hash)
  OBVIOUS
<1>5. rows[w] \in RowRecords
  BY <1>1 DEF first_live_worker_id, Live, OperatorInv, WorldInv
<1>6. /\ g.cover = worker_provider_models(rows[w].cover) /\ g.row = rows[w]
      /\ g.backends = backends_from_config(records[w]) /\ g.capable = capable
      /\ g.known = (records[w].backends # None /\ w \notin unsaved)
  BY <1>3 DEF pick_target_worker
<1>7. ASSUME g.known PROVE g.backends = rows[w].backends
  <2>1. records[w].backends # None /\ w \notin unsaved
    BY <1>6, <1>7
  <2>2. rows[w] # None
    BY <1>1 DEF first_live_worker_id, Live
  <2>3. Agrees(records, w)
    BY <2>1 DEF OperatorInv, WorldInv
  <2> QED  BY <1>1, <1>6, <2>1, <2>2, <2>3 DEF Agrees, backends_from_config
<1>8. g.capable => image_has_bedrock_policy_feature(rows[w].hash)
  BY <1>4, <1>6
<1>9. TargetTrue(g)
  BY <1>5, <1>6, <1>7, <1>8 DEF TargetTrue
<1> QED  BY <1>2, <1>9, CheckInv

(* The target after a deploy is the worker that was just registered.       *)
LEMMA AdvisoryInv == OperatorInv /\ deploy_streaming_advisory => OperatorInv'
<1> SUFFICES ASSUME OperatorInv, deploy_streaming_advisory PROVE OperatorInv'
  OBVIOUS
<1>1. PICK w \in Live \ unsaved :
        /\ rows[w].backends = Backends
        /\ Check([w |-> w, cover |-> None, backends |-> Backends, row |-> rows[w], known |-> TRUE,
                  capable |-> image_has_bedrock_policy_feature(rows[w].hash)])
  BY DEF deploy_streaming_advisory
<1>g. PICK g : g = [w |-> w, cover |-> None, backends |-> Backends, row |-> rows[w],
                    known |-> TRUE,
                    capable |-> image_has_bedrock_policy_feature(rows[w].hash)]
  OBVIOUS
<1>2. rows[w] \in RowRecords
  BY DEF Live, OperatorInv, WorldInv
<1>3. /\ g.row = rows[w] /\ g.backends = rows[w].backends /\ g.cover = None
      /\ g.capable => image_has_bedrock_policy_feature(rows[w].hash)
  BY <1>1, <1>g
<1>4. TargetTrue(g)
  BY <1>2, <1>3 DEF TargetTrue
<1> QED  BY <1>1, <1>g, <1>4, CheckInv

(* The offers, the catalog and the routes do not change the target.        *)
LEMMA GatherInv == OperatorInv /\ Gather => OperatorInv'
<1> SUFFICES ASSUME OperatorInv, Gather PROVE OperatorInv'
  OBVIOUS
<1>c. PICK c : c = cmd
  OBVIOUS
<1>1. c # None /\ c.kind = "check" /\ c.at = "gather" /\ CheckCmdInv(c)
  BY <1>c DEF Gather, Checking, OperatorInv, CommandInv
<1>d. PICK d : d = cmd'
  OBVIOUS
<1>2. PICK declared, catalog, rs :
        d = [c EXCEPT !.declared = declared, !.catalog = catalog, !.routes = rs,
                      !.at = "bindings", !.todo = providers_for_target(c.target)]
  BY <1>c, <1>d DEF Gather
<1>3. /\ CheckFields(d) /\ d.kind = "check" /\ d.at = "bindings" /\ d.target = c.target
      /\ d.probes = c.probes /\ d.todo = providers_for_target(c.target)
  BY <1>1, <1>2 DEF CheckFields, CheckCmdInv
<1>4. CheckCmdInv(d)
  BY <1>1, <1>3 DEF CheckCmdInv
<1> QED  BY <1>d, <1>3, <1>4, CheckStepInv DEF Gather

(* A probe that is sent is taken off the list.                             *)
LEMMA SendProbeInv == OperatorInv /\ SendProbe => OperatorInv'
<1> SUFFICES ASSUME OperatorInv, SendProbe PROVE OperatorInv'
  OBVIOUS
<1>c. PICK c : c = cmd
  OBVIOUS
<1>1. c # None /\ c.kind = "check" /\ c.at = "probe" /\ CheckCmdInv(c)
  BY <1>c DEF SendProbe, Checking, OperatorInv, CommandInv
<1>d. PICK d : d = cmd'
  OBVIOUS
<1>2. PICK pr : d = [c EXCEPT !.probes = c.probes \ {pr}]
  BY <1>c, <1>d DEF SendProbe
<1>3. /\ CheckFields(d) /\ d.kind = "check" /\ d.at = "probe" /\ d.target = c.target
      /\ d.probes = c.probes \ {pr} /\ d.todo = c.todo /\ d.bound = c.bound
  BY <1>1, <1>2 DEF CheckFields, CheckCmdInv
<1>4. ASSUME NEW x, ProbeFits(c, x) PROVE ProbeFits(d, x)
  BY <1>3, <1>4 DEF ProbeFits
<1>5. CheckCmdInv(d)
  BY <1>1, <1>3, <1>4 DEF CheckCmdInv
<1> QED  BY <1>d, <1>3, <1>5, CheckStepInv DEF SendProbe

(* The end of a check.                                                     *)
LEMMA CheckDoneInv == OperatorInv /\ CheckDone => OperatorInv'
BY CheckStepInv DEF CheckDone, End

(* Whatever the registry's answer, the bindings read from it are published *)
(* ones: a document with a flaw binds nothing.                             *)
LEMMA ParsedPublished ==
  ASSUME WorldInv, NEW doc \in Documents, NEW b, b = parse_bindings(doc), b # None,
         NEW m \in DOMAIN b
  PROVE  b[m] \in Revisions
<1> DEFINE entry(n, r) == [model |-> n, revision |-> r]
           bound == {n \in DOMAIN bindings : bindings[n] # None}
           own == [network |-> Here, revision |-> Snapshot,
                   rows |-> {<<n, entry(n, bindings[n])>> : n \in bound}]
           later(r) == {<<n, entry(n, r)>> : n \in bound}
           twice == {<<None, entry(n, Snapshot)>> : n \in bound}
<1>1. /\ doc.network = Here
      /\ \A x \in doc.rows : ~(x[2].revision > doc.revision)
      /\ \A x, y \in doc.rows : x[2].model = y[2].model => x = y
      /\ b = [n \in {x[2].model : x \in doc.rows} |->
                (CHOOSE x \in doc.rows : x[2].model = n)[2].revision]
  BY DEF parse_bindings
<1>2. PICK x \in doc.rows : x[2].model = m /\ b[m] = x[2].revision
  <2>1. \E x \in doc.rows : x[2].model = m
    BY <1>1
  <2> QED  BY <1>1, <2>1
<1>3. \/ doc = own
      \/ doc = [own EXCEPT !.network = None, !.rows = later(Snapshot)]
      \/ doc = [own EXCEPT !.rows = later(Snapshot + 1)]
      \/ doc = [own EXCEPT !.rows = @ \cup twice]
  BY DEF Documents
<1>4. CASE doc = own
  <2>1. PICK n \in bound : x = <<n, entry(n, bindings[n])>>
    BY <1>2, <1>4
  <2> QED  BY <1>2, <2>1 DEF WorldInv
<1>5. CASE doc = [own EXCEPT !.network = None, !.rows = later(Snapshot)]
  BY <1>1, <1>5, StreamingAssumption
<1>6. CASE doc = [own EXCEPT !.rows = later(Snapshot + 1)]
  <2>1. doc.revision = Snapshot /\ x \in later(Snapshot + 1)
    BY <1>2, <1>6
  <2>2. x[2].revision = Snapshot + 1
    BY <2>1
  <2> QED  BY <1>1, <2>1, <2>2, StreamingAssumption
<1>7. CASE doc = [own EXCEPT !.rows = @ \cup twice]
  <2>1. doc.rows = own.rows \cup twice
    BY <1>7
  <2>2. PICK n \in bound : x = <<n, entry(n, bindings[n])>> \/ x = <<None, entry(n, Snapshot)>>
    BY <1>2, <2>1
  <2>3. /\ <<n, entry(n, bindings[n])>> \in doc.rows
        /\ <<None, entry(n, Snapshot)>> \in doc.rows
    BY <2>1, <2>2
  <2>4. n # None
    BY StreamingAssumption DEF WorldInv
  <2>5. <<n, entry(n, bindings[n])>> = <<None, entry(n, Snapshot)>>
    BY <1>1, <2>3
  <2> QED  BY <2>4, <2>5
<1> QED  BY <1>3, <1>4, <1>5, <1>6, <1>7

(* The bindings of a check were all published.                             *)
LEMMA FetchBindingsInv == OperatorInv /\ FetchBindings => OperatorInv'
<1> SUFFICES ASSUME OperatorInv, FetchBindings PROVE OperatorInv'
  OBVIOUS
<1>c. PICK c : c = cmd
  OBVIOUS
<1>1. c # None /\ c.kind = "check" /\ c.at = "bindings" /\ CheckCmdInv(c)
  BY <1>c DEF FetchBindings, Checking, OperatorInv, CommandInv
<1>d. PICK d : d = cmd'
  OBVIOUS
<1>2. PICK b \in {None} \cup {parse_bindings(doc) : doc \in Documents} :
        d = [c EXCEPT !.bound = b, !.at = "probe"]
  BY <1>c, <1>d DEF FetchBindings
<1>3. /\ CheckFields(d) /\ d.kind = "check" /\ d.at = "probe" /\ d.target = c.target
      /\ d.probes = {} /\ d.todo = c.todo /\ d.bound = b
  BY <1>1, <1>2 DEF CheckFields, CheckCmdInv
<1>4. ASSUME b # None PROVE \A m \in DOMAIN b : b[m] \in Revisions
  <2>1. PICK doc \in Documents : b = parse_bindings(doc)
    BY <1>4
  <2> QED  BY <1>4, <2>1, ParsedPublished DEF OperatorInv
<1>5. CheckCmdInv(d)
  BY <1>1, <1>3, <1>4 DEF CheckCmdInv
<1> QED  BY <1>d, <1>3, <1>5, CheckStepInv DEF FetchBindings

-----------------------------------------------------------------------------
(* The models that may be probed, as records.                              *)
IsModel(m) ==
  m \in [canonical : {m.canonical}, upstream : {m.upstream}, fallback : {m.fallback},
         revision : {m.revision}]

(* A model for a Bedrock worker that is not a fallback has a binding.      *)
LEMMA ModelsBound ==
  ASSUME NEW p, NEW m \in models_for(p)
  PROVE  /\ IsModel(m)
         /\ p = "anthropic" /\ cmd.target.backends[p] = "bedrock" /\ ~m.fallback =>
              /\ cmd.bound # None /\ m.canonical \in DOMAIN cmd.bound
              /\ m.revision = cmd.bound[m.canonical]
<1>1. CASE m = Probe(Fallback[p], FALSE, TRUE, None)
  BY <1>1 DEF Probe, IsModel
<1>2. CASE p = "anthropic" /\ cmd.target.backends[p] = "bedrock" /\ m \in bedrock_probe_models
  BY <1>2 DEF bedrock_probe_models, Probe, IsModel
<1>3. CASE ~(p = "anthropic" /\ cmd.target.backends[p] = "bedrock") /\ m \in resolve_probe_models(p)
  <2>1. IsModel(m)
    <3>1. CASE p \in Sourcing
      BY <1>3, <3>1 DEF resolve_probe_models, declared_models_for_provider, Probe, IsModel
    <3>2. CASE p \notin Sourcing
      <4>1. PICK n : m = Probe(n, Offered(<<p, n>>) /\ cmd.declared[<<p, n>>].upstream, FALSE, None)
        BY <1>3, <3>2 DEF resolve_probe_models
      <4>2. PICK u : u = (Offered(<<p, n>>) /\ cmd.declared[<<p, n>>].upstream)
        OBVIOUS
      <4>3. m = Probe(n, u, FALSE, None)
        BY <4>1, <4>2
      <4> QED  BY <4>3 DEF Probe, IsModel
    <3> QED  BY <3>1, <3>2
  <2> QED  BY <1>3, <2>1
<1> QED  BY <1>1, <1>2, <1>3 DEF models_for

(* What is bound to a worker fits its backend.                             *)
LEMMA BindFits ==
  ASSUME NEW g, NEW p, NEW all, \A n \in all : IsModel(n),
         NEW m \in bind_models_to_worker(g, p, all)
  PROVE  /\ BackendOf(g, p) \in {None, "bedrock"}
         /\ m.upstream = FALSE
         /\ BackendOf(g, p) = None => m.revision = None
         /\ BackendOf(g, p) # None =>
              /\ p = "anthropic" /\ m.revision # None /\ ~m.fallback
              /\ \E n \in all : /\ ~n.fallback /\ n.canonical = m.canonical
                                /\ n.revision = m.revision
<1>1. CASE BackendOf(g, p) = None
  <2>1. PICK n \in all : m = [n EXCEPT !.upstream = FALSE, !.revision = None]
    BY <1>1 DEF bind_models_to_worker
  <2> QED  BY <1>1, <2>1 DEF IsModel
<1>2. CASE BackendOf(g, p) # None /\ BackendOf(g, p) = "bedrock"
  <2>1. PICK n \in all : /\ m = [n EXCEPT !.upstream = FALSE]
                         /\ p = "anthropic" /\ n.revision # None /\ ~n.fallback
    BY <1>2 DEF bind_models_to_worker
  <2>2. /\ m.upstream = FALSE /\ m.revision = n.revision /\ m.fallback = n.fallback
        /\ m.canonical = n.canonical
    BY <2>1 DEF IsModel
  <2> QED  BY <1>2, <2>1, <2>2
<1>3. BackendOf(g, p) = None \/ BackendOf(g, p) = "bedrock"
  BY DEF bind_models_to_worker
<1> QED  BY <1>1, <1>2, <1>3

(* A probe goes to a slot that serves its model, or names none.            *)
LEMMA ChosenSlot ==
  ASSUME NEW g, NEW p, NEW all, NEW xs \in models_for_target(g, p, all), NEW x \in xs
  PROVE  /\ x.model \in bind_models_to_worker(g, p, all)
         /\ x.slot # None =>
              /\ g.cover # None /\ p \in DOMAIN g.cover
              /\ x.slot \in DOMAIN g.cover[p].by_slot
              /\ {x.model.canonical, wire_model(x.model)} \intersect g.cover[p].by_slot[x.slot] # {}
<1> DEFINE ms == bind_models_to_worker(g, p, all)
           k == IF g.cover = None \/ p \notin DOMAIN g.cover THEN None ELSE g.cover[p]
           Known(known, m) == {m.canonical, wire_model(m)} \intersect known # {}
<1>1. \/ \E m \in ms : x = Selected(m, None)
      \/ /\ k # None
         /\ \E m \in ms : \E s \in DOMAIN k.by_slot :
              x = Selected(m, s) /\ Known(k.by_slot[s], m)
  <2> HIDE DEF ms, k, Known
  <2>1. xs \in
          IF ms = {} /\ BackendOf(g, p) # None THEN {{}}
          ELSE IF k = None
          THEN IF g.cover = None /\ p \notin Sourcing THEN {{Selected(m, None)} : m \in ms}
               ELSE {{Selected(m, None) : m \in ms}}
          ELSE IF DOMAIN k.by_slot # {} /\ \A s \in DOMAIN k.by_slot : k.by_slot[s] = {} THEN {}
          ELSE IF DOMAIN k.by_slot # {}
          THEN {UNION {{Selected(m, s) : s \in {s \in DOMAIN k.by_slot : Known(k.by_slot[s], m)}} :
                        m \in ms}}
          ELSE IF k.unscoped = {} THEN {}
          ELSE {{Selected(m, None) : m \in {m \in ms : Known(k.unscoped, m)}}}
    BY DEF models_for_target, ms, k, Known
  <2>2. CASE \E m \in ms : xs = {Selected(m, None)}
    BY <2>2
  <2>3. CASE xs = {Selected(m, None) : m \in ms}
    BY <2>3
  <2>4. CASE k # None /\ xs = UNION {{Selected(m, s) : s \in {s \in DOMAIN k.by_slot :
                                                                Known(k.by_slot[s], m)}} : m \in ms}
    <3>1. PICK m \in ms : x \in {Selected(m, s) : s \in {s \in DOMAIN k.by_slot :
                                                           Known(k.by_slot[s], m)}}
      BY <2>4
    <3> QED  BY <2>4, <3>1
  <2>5. CASE xs = {Selected(m, None) : m \in {m \in ms : Known(k.unscoped, m)}}
    BY <2>5
  <2> QED  BY <2>1, <2>2, <2>3, <2>4, <2>5
<1>2. CASE \E m \in ms : x = Selected(m, None)
  BY <1>2 DEF Selected
<1>3. CASE k # None /\ \E m \in ms : \E s \in DOMAIN k.by_slot :
                         x = Selected(m, s) /\ Known(k.by_slot[s], m)
  <2>1. g.cover # None /\ p \in DOMAIN g.cover /\ k = g.cover[p]
    BY <1>3
  <2>2. PICK m \in ms, s \in DOMAIN g.cover[p].by_slot :
          x = Selected(m, s) /\ Known(g.cover[p].by_slot[s], m)
    BY <1>3, <2>1
  <2> QED  BY <2>1, <2>2 DEF Selected
<1> QED  BY <1>1, <1>2, <1>3

(* What a coverage says of a slot, the registry's row said of it.          *)
LEMMA SlotVerified ==
  ASSUME NEW cover, NEW p \in DOMAIN worker_provider_models(cover),
         NEW s \in DOMAIN worker_provider_models(cover)[p].by_slot
  PROVE  /\ p \in DOMAIN cover /\ s \in DOMAIN cover[p].slots /\ cover[p].slots[s].verified
         /\ worker_provider_models(cover)[p].by_slot[s] = cover[p].slots[s].models
BY DEF worker_provider_models

(* Every probe that is built fits the target of its check.                 *)
LEMMA ProbeFitsTarget ==
  ASSUME WorldInv, NEW c, c = cmd, CheckCmdInv(c), c.at = "probe", c.target.known,
         NEW p \in c.todo, NEW xs \in models_for_target(c.target, p, models_for(p)), NEW x \in xs,
         NEW r \in probe_route_authorization(c.target, p, x)
  PROVE  ProbeFits(c, build_probe(c.target, p, x, r))
<1>g. PICK g : g = c.target
  OBVIOUS
<1>m. PICK m : m = x.model
  OBVIOUS
<1>b. PICK b : b = BackendOf(g, p)
  OBVIOUS
<1>1. /\ g.row \in RowRecords /\ g.backends = g.row.backends
      /\ g.cover = None \/ g.cover = worker_provider_models(g.row.cover)
      /\ g.capable => image_has_bedrock_policy_feature(g.row.hash)
  BY <1>g DEF CheckCmdInv, TargetTrue
<1>2. /\ m \in bind_models_to_worker(g, p, models_for(p))
      /\ x.slot # None =>
           /\ g.cover # None /\ p \in DOMAIN g.cover /\ x.slot \in DOMAIN g.cover[p].by_slot
           /\ {m.canonical, wire_model(m)} \intersect g.cover[p].by_slot[x.slot] # {}
  BY <1>g, <1>m, ChosenSlot
<1>3. /\ b \in {None, "bedrock"} /\ m.upstream = FALSE
      /\ b = None => m.revision = None
      /\ b # None =>
           /\ p = "anthropic" /\ m.revision # None /\ ~m.fallback
           /\ \E n \in models_for(p) : /\ ~n.fallback /\ n.canonical = m.canonical
                                       /\ n.revision = m.revision
  <2>1. \A n \in models_for(p) : IsModel(n)
    BY ModelsBound
  <2> QED  BY <1>2, <1>b, <2>1, BindFits
<1>4. wire_model(m) = m.canonical
  BY <1>3 DEF wire_model
<1>5. b = IF p \in CloudProviders THEN g.row.backends[p] ELSE None
  BY <1>1, <1>b DEF BackendOf
<1>6. None # "bedrock"
  BY MarketAssumption DEF Adapters, CloudProviders
<1>q. PICK pr : pr = build_probe(g, p, x, r)
  OBVIOUS
<1>7. /\ pr.p = p /\ pr.model = m.canonical /\ pr.wire = m.canonical /\ pr.fallback = m.fallback
      /\ pr.slot = r.slot /\ pr.policy = r.policy /\ pr.revision = r.revision
  BY <1>4, <1>m, <1>q DEF build_probe
<1> DEFINE slots == IF p \in DOMAIN g.row.cover THEN g.row.cover[p].slots ELSE <<>>
<1>8. ASSUME g.cover # None, NEW s \in DOMAIN g.cover[p].by_slot, p \in DOMAIN g.cover,
             m.canonical \in g.cover[p].by_slot[s]
      PROVE  /\ slots[s].verified /\ m.canonical \in slots[s].models
             /\ s # None
  <2>1. g.cover = worker_provider_models(g.row.cover)
    BY <1>1, <1>8
  <2>2. /\ p \in DOMAIN g.row.cover /\ s \in DOMAIN g.row.cover[p].slots
        /\ g.row.cover[p].slots[s].verified
        /\ g.cover[p].by_slot[s] = g.row.cover[p].slots[s].models
    BY <1>8, <2>1, SlotVerified
  <2>3. g.row.cover \in Coverages
    BY <1>1, <2>2 DEF RowRecords
  <2>4. s # None
    BY <2>2, <2>3, StreamingAssumption
  <2> QED  BY <1>8, <2>2, <2>4
<1>9. CASE b = None
  <2>1. r = [slot |-> x.slot, policy |-> FALSE, revision |-> None]
    BY <1>6, <1>9, <1>b, <1>g DEF probe_route_authorization, IsBedrock
  <2>2. r.slot = x.slot /\ r.policy = FALSE /\ r.revision = None
    BY <2>1
  <2>3. pr.slot # None => slots[pr.slot].verified /\ pr.model \in slots[pr.slot].models
    <3>1. SUFFICES ASSUME pr.slot # None
                   PROVE  slots[pr.slot].verified /\ pr.model \in slots[pr.slot].models
      OBVIOUS
    <3>2. /\ g.cover # None /\ p \in DOMAIN g.cover /\ x.slot \in DOMAIN g.cover[p].by_slot
          /\ m.canonical \in g.cover[p].by_slot[x.slot]
      BY <1>2, <1>4, <1>7, <2>2, <3>1
    <3> HIDE DEF slots
    <3> QED  BY <1>7, <1>8, <2>2, <3>2
  <2> QED  BY <1>5, <1>6, <1>7, <1>9, <1>g, <1>q, <2>2, <2>3 DEF ProbeFits
<1>10. CASE b = "bedrock"
  <2>1. p = "anthropic" /\ IsBedrock(g, p)
    BY <1>3, <1>6, <1>10, <1>b DEF IsBedrock
  <2>2. /\ g.capable
        /\ \/ /\ g.cover = None
              /\ r = [slot |-> DerivedSlot, policy |-> TRUE, revision |-> m.revision]
           \/ /\ g.cover # None
              /\ \E s \in DOMAIN g.cover[p].by_slot :
                   /\ m.canonical \in g.cover[p].by_slot[s]
                   /\ r = [slot |-> s, policy |-> TRUE, revision |-> m.revision]
    BY <1>g, <1>m, <2>1 DEF probe_route_authorization
  <2>3. g.row.hash \in DOMAIN Images /\ Images[g.row.hash].binding
    BY <1>1, <2>2 DEF image_has_bedrock_policy_feature
  <2>4. m.revision = c.bound[m.canonical] /\ m.revision \in Revisions
    <3>1. PICK n \in models_for(p) : /\ ~n.fallback /\ n.canonical = m.canonical
                                     /\ n.revision = m.revision
      BY <1>3, <1>6, <1>10
    <3>2. cmd.target.backends[p] = "bedrock"
      BY <1>10, <1>b, <1>g, <2>1 DEF IsBedrock, BackendOf, CloudProviders
    <3>3. /\ c.bound # None /\ m.canonical \in DOMAIN c.bound
          /\ m.revision = c.bound[m.canonical]
      BY <2>1, <3>1, <3>2, ModelsBound
    <3> QED  BY <1>3, <1>6, <1>10, <3>3 DEF CheckCmdInv
  <2>5. r.policy = TRUE /\ r.revision = m.revision /\ r.revision # None
    BY <1>3, <1>6, <1>10, <2>2
  <2>6. /\ r.slot # None
        /\ g.cover # None => slots[r.slot].verified /\ m.canonical \in slots[r.slot].models
    <3>1. CASE /\ g.cover = None
               /\ r = [slot |-> DerivedSlot, policy |-> TRUE, revision |-> m.revision]
      BY <3>1, StreamingAssumption
    <3>2. CASE g.cover # None
      <4>1. PICK s \in DOMAIN g.cover[p].by_slot :
              /\ m.canonical \in g.cover[p].by_slot[s]
              /\ r = [slot |-> s, policy |-> TRUE, revision |-> m.revision]
        BY <2>2, <3>2
      <4>2. p \in DOMAIN g.cover
        BY <1>g, <3>2 DEF CheckCmdInv, providers_for_target
      <4>3. r.slot = s
        BY <4>1
      <4> HIDE DEF slots
      <4> QED  BY <1>8, <3>2, <4>1, <4>2, <4>3
    <3> QED  BY <2>2, <3>1, <3>2
  <2> QED  BY <1>3, <1>5, <1>6, <1>7, <1>10, <1>g, <1>q, <2>3, <2>4, <2>5, <2>6 DEF ProbeFits
<1> QED  BY <1>3, <1>9, <1>10

(* The probes of one more provider fit the target as well.                 *)
LEMMA CheckProviderInv == OperatorInv /\ CheckProvider => OperatorInv'
<1> SUFFICES ASSUME OperatorInv, CheckProvider PROVE OperatorInv'
  OBVIOUS
<1>c. PICK c : c = cmd
  OBVIOUS
<1>1. c # None /\ c.kind = "check" /\ c.at = "probe" /\ CheckCmdInv(c)
  BY <1>c DEF CheckProvider, Checking, OperatorInv, CommandInv
<1>d. PICK d : d = cmd'
  OBVIOUS
<1> DEFINE probes(p, xs) ==
             UNION {{build_probe(cmd.target, p, x, r) :
                       r \in probe_route_authorization(cmd.target, p, x)} :
                    x \in {x \in xs : <<p, x.model.canonical>> \notin non_chat_probe_exclusions}}
           choices(p) == models_for_target(cmd.target, p, models_for(p))
           silent(p) == choices(p) = {} \/ (IsBedrock(cmd.target, p) /\ ~cmd.target.capable)
<1>2. PICK p \in cmd.todo :
        \E xs \in IF silent(p) THEN {{}} ELSE choices(p) :
          cmd' = [cmd EXCEPT !.todo = @ \ {p}, !.probes = probes(p, xs)]
  BY DEF CheckProvider
<1>3. PICK xs \in {{}} \cup choices(p) :
        d = [c EXCEPT !.todo = @ \ {p}, !.probes = probes(p, xs)]
  <2> HIDE DEF probes, choices, silent
  <2> QED  BY <1>2, <1>c, <1>d
<1>4. ASSUME c.target.known, NEW pr \in probes(p, xs)
      PROVE  ProbeFits(c, pr)
  <2>1. PICK x \in xs : pr \in {build_probe(cmd.target, p, x, r) :
                                  r \in probe_route_authorization(cmd.target, p, x)}
    BY <1>4
  <2>2. PICK r \in probe_route_authorization(cmd.target, p, x) :
          pr = build_probe(cmd.target, p, x, r)
    BY <2>1
  <2>3. xs \in choices(p)
    BY <2>1
  <2> HIDE DEF probes
  <2> QED  BY <1>1, <1>2, <1>4, <1>c, <2>2, <2>3, ProbeFitsTarget DEF OperatorInv
<1> HIDE DEF probes
<1>5. /\ CheckFields(d) /\ d.kind = "check" /\ d.at = "probe" /\ d.target = c.target
      /\ d.probes = probes(p, xs) /\ d.todo = c.todo \ {p} /\ d.bound = c.bound
  BY <1>1, <1>3 DEF CheckFields, CheckCmdInv
<1>6. ASSUME NEW pr, ProbeFits(c, pr) PROVE ProbeFits(d, pr)
  BY <1>5, <1>6 DEF ProbeFits
<1>7. CheckCmdInv(d)
  BY <1>1, <1>4, <1>5, <1>6 DEF CheckCmdInv
<1> QED  BY <1>d, <1>5, <1>7, CheckStepInv DEF CheckProvider

-----------------------------------------------------------------------------
(* An older record without a backend map tells nothing wrong.              *)
LEMMA StreamingInitInv == StreamingInit => OperatorInv
<1> SUFFICES ASSUME StreamingInit PROVE OperatorInv
  OBVIOUS
<1>1. PICK old \in {{}, Workers \ Foreign},
           h \in {h \in DOMAIN Images : ~Images[h].binding} \union {Unlisted} :
        /\ records = [w \in Workers |-> IF w \in old THEN [backends |-> None] ELSE None]
        /\ rows = [w \in Workers |->
             IF w \in old
             THEN [backends |-> [Direct EXCEPT !["anthropic"] = "bedrock"], hash |-> h,
                   cover |-> <<>>]
             ELSE None]
  BY DEF StreamingInit, MarketInit
<1> DEFINE bedrock == [Direct EXCEPT !["anthropic"] = "bedrock"]
<1>2. Direct \in BackendMaps /\ bedrock \in BackendMaps
  BY DEF Direct, BackendMaps, Adapters, CloudProviders
<1>3. sel \in BackendMaps /\ unsaved = {} /\ cmd = None
  BY <1>2 DEF StreamingInit, MarketInit
<1> HIDE DEF bedrock
<1>4. [backends |-> bedrock, hash |-> h, cover |-> <<>>] \in RowRecords
  BY <1>2 DEF RowRecords
<1>5. rows \in [Workers -> RowRecords \cup {None}]
  BY <1>1, <1>4 DEF bedrock
<1>6. OwnRecords(records) /\ \A w \in Workers : Agrees(records, w)
  <2>1. \A w \in Workers : /\ records[w] = [backends |-> None] \/ records[w] = None
                           /\ w \in Foreign => records[w] = None
    BY <1>1
  <2>2. [backends |-> None] \in LocalRecords
    BY DEF LocalRecords
  <2>3. records \in [Workers -> LocalRecords \cup {None}]
    BY <1>1, <2>2
  <2>4. [backends |-> None].backends = None
    OBVIOUS
  <2> QED  BY <2>1, <2>3, <2>4, MarketAssumption DEF OwnRecords, Agrees
<1>7. bindings \in [Models("anthropic") -> Revisions \cup {None}]
  BY DEF StreamingInit
<1> QED  BY <1>3, <1>5, <1>6, <1>7 DEF OperatorInv, WorldInv, CommandInv

(***************************************************************************)
(* The commands on the market and the checks keep OperatorInv: records are *)
(* right about the workers that are settled, running commands about the    *)
(* records of their start.                                                 *)
(***************************************************************************)
THEOREM OperatorInvariance == StreamingSpec => []OperatorInv
<1>1. StreamingInit => OperatorInv
  BY StreamingInitInv
<1>2. OperatorInv /\ [StreamingNext]_checkVars => OperatorInv'
  <2> SUFFICES ASSUME OperatorInv, [StreamingNext]_checkVars PROVE OperatorInv'
    OBVIOUS
  <2>1. CASE StreamingChecks
    BY <2>1, CmdCheckStreamingInv, AdvisoryInv, GatherInv, FetchBindingsInv, CheckProviderInv,
       SendProbeInv, CheckDoneInv DEF StreamingChecks
  <2>2. CASE Rebind
    BY <2>2, RebindInv
  <2>3. CASE Declare /\ UNCHANGED bindings
    BY <2>3, DeclareProductsInv, DeclareProductInv, ResolvePolicyInv, FenceInv, ConfirmInv, PostInv
       DEF Declare
  <2>4. CASE (Withdraw \/ Finish) /\ UNCHANGED bindings
    BY <2>4, UndeclareInv, DeleteOfferInv, FinishInv DEF Withdraw
  <2>5. CASE World /\ UNCHANGED bindings
    BY <2>5, SelectInv, DeployRegistersInv, SaveRecordInv, RegisterImageInv, DeployElsewhereInv,
       WorkerGoneInv, ProbedInv DEF World
  <2>6. CASE UNCHANGED checkVars
    <3>1. WorldInv' /\ UNCHANGED <<echo, cmd>> /\ RowsKept(Workers)
      BY <2>6, WorldStays DEF checkVars, OperatorInv, RowsKept
    <3> QED  BY <3>1, CommandStays DEF OperatorInv
  <2> QED  BY <2>1, <2>2, <2>3, <2>4, <2>5, <2>6 DEF StreamingNext
<1> QED  BY <1>1, <1>2, PTL DEF StreamingSpec

(***************************************************************************)
(* Supply through a cloud is never declared as direct supply, whatever     *)
(* other terminals and machines do while a command runs                    *)
(* (declaration_policy, require_cloud_bulk_capability,                     *)
(* skip_cloud_bulk_targets).                                               *)
(***************************************************************************)
THEOREM FencedAlways == StreamingSpec => []CloudSupplyFenced
<1>1. OperatorInv => CloudSupplyFenced
  BY DEF OperatorInv, CommandInv, MarketCmdInv, CheckCmdInv, CloudSupplyFenced
<1> QED  BY <1>1, OperatorInvariance, PTL

(***************************************************************************)
(* No probe asks a worker for what it cannot serve, or under an identity   *)
(* that is not the worker's (parse_bindings, bind_models_to_worker,        *)
(* models_for_target, probe_route_authorization).                          *)
(***************************************************************************)
THEOREM ProbesFitAlways == StreamingSpec => []ProbesFit
<1>1. OperatorInv => ProbesFit
  <2> SUFFICES ASSUME OperatorInv, cmd # None, cmd.kind = "check", cmd.target.known,
                      NEW pr \in cmd.probes
               PROVE  ProbeFits(cmd, pr)
    BY DEF ProbesFit, ProbeFits
  <2> QED  BY DEF OperatorInv, CommandInv, CheckCmdInv
<1> QED  BY <1>1, OperatorInvariance, PTL
=============================================================================
