------------------------------- MODULE Market -------------------------------
(***************************************************************************)
(* The operator's commands on the market: declare-product(s) and           *)
(* undeclare-product(s) (cli commands/products.rs, sources.rs) and the     *)
(* cloud fence they observe (cloud_policy.rs).                             *)
(*                                                                         *)
(* A command loads the local config once and then makes one registry call  *)
(* after another, while other terminals change the config and deploy, and  *)
(* other machines register workers for the same hotkey.  Whether a         *)
(* provider's supply is direct is pieced together from the local selector, *)
(* the local worker records, the registry's live workers and the published *)
(* images; the fence has to hold whatever piece is missing.                *)
(***************************************************************************)
EXTENDS Naturals, FiniteSets, Option

CONSTANTS Workers,    \* worker ids of the hotkey
          Foreign,    \* those that another machine deploys
          Elsewhere,  \* the backends it gives them
          Images,     \* the published images: hash -> [status, binding]
          Unlisted,   \* a hash that the registry does not publish
          Catalog,    \* buyer products: [provider, model, status, chat]
          Routes,     \* supplier routes: [provider, model, buyer_provider, buyer_model]
          Lookups,    \* what the routes endpoints answer
          Discounts,  \* basis points that an operator asks for
          Coverages,  \* what the registry's probes may find out about a worker
          MaxMoves,   \* bound: changes by others in a behaviour
          MaxCmds     \* bound: commands in a behaviour

CloudProviders == {"anthropic", "openai"}

Adapters == [anthropic |-> {"bedrock", "foundry"}, openai |-> {"azure"}]

Direct == [p \in CloudProviders |-> None]

\* What a worker may be deployed with: for each provider, a cloud or none.
BackendMaps ==
  {b \in [CloudProviders -> {None} \union UNION {Adapters[p] : p \in CloudProviders}] :
     \A p \in CloudProviders : b[p] \in Adapters[p] \union {None}}

ASSUME MarketAssumption ==
  /\ Foreign \subseteq Workers /\ Elsewhere \subseteq BackendMaps
  /\ None \notin UNION {Adapters[p] : p \in CloudProviders}

VARIABLES
  sel,       \* the upstream selectors of the local config
  records,   \* local worker records: [backends], backends None when unknown
  rows,      \* the registry's live workers: [backends, hash, cover]
  unsaved,   \* workers re-registered by a deploy that has not saved its record
  offers,    \* the miner's offers: [offered, discount, pending, upstream]
  echo,      \* the registry has the upstream-model-echo capability
  cmd,       \* the running command
  moves, cmds

world == <<sel, records, rows, unsaved, echo>>

marketVars == <<sel, records, rows, unsaved, offers, echo, cmd, moves, cmds>>

Pair(x) == <<x.provider, x.model>>

Pairs == {Pair(x) : x \in Catalog \union Routes}

NoOffer == [offered |-> FALSE, discount |-> 0, pending |-> None, upstream |-> FALSE]

\* An offer that names an upstream deployment of its own.
Standing == [offered |-> TRUE, discount |-> 9990, pending |-> None, upstream |-> TRUE]

-----------------------------------------------------------------------------
\* The cloud fence

DIRECT == [capability |-> FALSE, exclude |-> FALSE]
FENCED == [capability |-> TRUE, exclude |-> TRUE]
FENCED_BUT_DIRECT == [capability |-> TRUE, exclude |-> FALSE]

\* The cloud adapter that the config selects for a provider.
configured_cloud_backend(cfg, p) ==
  IF p \in CloudProviders /\ cfg.sel[p] \in Adapters[p] THEN cfg.sel[p] ELSE None

Recorded(cfg) == {w \in Workers : cfg.records[w] # None}

\* A record without a backend map is taken for a direct worker's.
UnknownIsDirect(record, p) == record.backends # None /\ record.backends[p] # None

\* A record without a backend map has unknown provenance, which is not direct.
recorded_worker_requires_cloud_fence(record, p) ==
  record.backends = None \/ record.backends[p] # None

has_explicit_cloud_provenance(cfg, p) ==
  \/ configured_cloud_backend(cfg, p) # None
  \/ \E w \in Recorded(cfg) : cfg.records[w].backends # None /\ cfg.records[w].backends[p] # None

\* What the loop over the live workers makes of them.
LivePolicy(cfg, p, live) ==
  LET ws == {w \in Workers : live[w] # None}
      unknown == {w \in ws : live[w].hash \notin DOMAIN Images \/ cfg.records[w] = None}
      cloud == {w \in ws \ unknown : recorded_worker_requires_cloud_fence(cfg.records[w], p)}
      binding == \E w \in ws : live[w].hash \in DOMAIN Images /\ Images[live[w].hash].binding IN
  IF cloud \union unknown # {} THEN FENCED
  ELSE IF binding THEN FENCED_BUT_DIRECT ELSE DIRECT

\* fetch_live_workers answers with the live rows, or fails.
declaration_policy(cfg, p, live, listed) ==
  IF p \notin CloudProviders THEN DIRECT
  ELSE IF has_explicit_cloud_provenance(cfg, p) THEN FENCED
  ELSE IF live = None THEN FENCED
  ELSE IF \A w \in Workers : live[w] = None
  THEN IF \E w \in Recorded(cfg) : cfg.records[w].backends = None THEN FENCED ELSE DIRECT
  ELSE IF ~listed THEN FENCED
  ELSE LivePolicy(cfg, p, live)

\* Registering or recovering a worker passes the same fence.
cloud_fence_required_for_worker(cfg, w, backends) ==
  \/ \E p \in CloudProviders : configured_cloud_backend(cfg, p) # None \/ backends[p] # None
  \/ /\ cfg.records[w] # None
     /\ \E p \in CloudProviders : recorded_worker_requires_cloud_fence(cfg.records[w], p)

cloud_fence_required_for_image_recovery(cfg, w) ==
  \/ \E p \in CloudProviders : configured_cloud_backend(cfg, p) # None
  \/ cfg.records[w] = None
  \/ \E p \in CloudProviders : recorded_worker_requires_cloud_fence(cfg.records[w], p)

-----------------------------------------------------------------------------
\* Products, routes and offers

\* What fetch_sources found: the complete route set, the older endpoint's, or none.
routes(lookup) == IF lookup = "unsupported" THEN {} ELSE Routes

is_complete(lookup) == lookup = "routes"

filter_catalog(filter) ==
  {p \in Catalog : p.status = "active" /\ p.provider # "benchmark" /\ filter \in {None, p.provider}}

\* The products a bulk declaration goes over: those with a self route.
BulkTargets(filter, lookup) ==
  {Pair(p) : p \in {p \in filter_catalog(filter) :
     \E r \in routes(lookup) : Pair(r) = Pair(p) /\ r.buyer_provider = p.provider
                                             /\ r.buyer_model = p.model}}

\* A single declaration needs a route, or a catalog product where the registry
\* does not publish the complete set.
Declarable(t, lookup) ==
  \/ t \in {Pair(r) : r \in routes(lookup)}
  \/ t \in {Pair(p) : p \in Catalog} /\ ~is_complete(lookup)

validate_bedrock_offer_selector(cfg, t, upstream) ==
  ~(t[1] = "anthropic" /\ configured_cloud_backend(cfg, t[1]) = "bedrock" /\ upstream)

\* external: the registry's upsert.  A lower discount on a standing offer is a
\* price increase and only gets scheduled.
Upsert(o, bp, upstream) ==
  IF o.offered /\ bp < o.discount THEN [o EXCEPT !.pending = bp]
  ELSE [offered |-> TRUE, discount |-> bp, pending |-> None, upstream |-> upstream]

\* A 202 answer is believed when it tells of this very increase.
post_declare_product(o, bp, answer) ==
  CASE answer.status = 202 ->
         IF /\ answer.pending = bp
            /\ answer.active > answer.pending /\ answer.active <= 9990
         THEN "scheduled" ELSE "error"
    [] answer.status = 200 -> "ok"
    [] OTHER -> "error"

withdrawable_offers(filter) == {t \in Pairs : offers[t].offered /\ filter \in {None, t[1]}}

-----------------------------------------------------------------------------
\* A command: [kind, at, cfg, todo, bp, upstream, policy, failed, truth, moved].
\* truth[p] is what the command could not know: the workers that did serve the
\* provider through a cloud when its policy was resolved, the ones aside that
\* changed hands since the command read its config.

Start(kind, at, todo, bp, upstream) ==
  /\ cmd = None /\ cmds < MaxCmds /\ cmds' = cmds + 1
  /\ cmd' = [kind |-> kind, at |-> at, todo |-> todo, bp |-> bp, upstream |-> upstream,
             cfg |-> [sel |-> sel, records |-> records],
             policy |-> <<>>, truth |-> <<>>, moved |-> unsaved, failed |-> FALSE]
  /\ UNCHANGED <<world, offers, moves>>

End == cmd' = None

ProvidersOf(todo) == {t[1] : t \in todo}

declare_products(filter, bp, lookup) ==
  Start("bulk", "policy", BulkTargets(filter, lookup), bp, FALSE)

\* The catalog or the routes cannot be had, or the route set is not complete.
BulkRefused(filter, lookup) == ~is_complete(lookup) \/ BulkTargets(filter, lookup) = {}

DeclareProducts ==
  \E filter \in {None} \union {p.provider : p \in Catalog}, bp \in Discounts, lookup \in Lookups :
    ~BulkRefused(filter, lookup) /\ declare_products(filter, bp, lookup)

\* The routes are asked for after the policy, but they do not change here.
declare_product(t, bp, upstream, lookup) ==
  /\ Declarable(t, lookup)
  /\ validate_bedrock_offer_selector([sel |-> sel], t, upstream)
  /\ Start("one", "policy", {t}, bp, upstream)

DeclareProduct ==
  \E t \in Pairs, bp \in Discounts, upstream \in BOOLEAN, lookup \in Lookups :
    declare_product(t, bp, upstream, lookup)

\* A map with one more entry.
With(f, p, x) == [q \in DOMAIN f \union {p} |-> IF q = p THEN x ELSE f[q]]

\* The workers that do serve a provider through a cloud.
CloudServing(p) ==
  {w \in Workers : p \in CloudProviders /\ rows[w] # None /\ rows[w].backends[p] # None}

\* resolve_bulk_policies: one provider's policy, from the live workers of now.
ResolvePolicy ==
  /\ cmd # None /\ cmd.at = "policy"
  /\ \E p \in ProvidersOf(cmd.todo) \ DOMAIN cmd.policy, live \in {None, rows},
        listed \in BOOLEAN :
       cmd' = [cmd EXCEPT
         !.policy = With(@, p, declaration_policy(cmd.cfg, p, live, listed)),
         !.truth = With(@, p, CloudServing(p) \ cmd.moved)]
  /\ UNCHANGED <<world, offers, moves, cmds>>

Resolved == cmd # None /\ cmd.at = "policy" /\ ProvidersOf(cmd.todo) \subseteq DOMAIN cmd.policy

require_cloud_bulk_capability ==
  (\E p \in DOMAIN cmd.policy : cmd.policy[p].capability) => echo

\* What a bulk declaration leaves out.
skip_cloud_bulk_targets ==
  IF cmd.kind = "one" THEN cmd.todo ELSE {t \in cmd.todo : ~cmd.policy[t[1]].exclude}

Fence ==
  /\ Resolved
  /\ IF require_cloud_bulk_capability /\ skip_cloud_bulk_targets # {}
     THEN cmd' = [cmd EXCEPT !.at = "confirm", !.todo = skip_cloud_bulk_targets,
                             !.policy = <<>>, !.cfg = None]
     ELSE End
  /\ UNCHANGED <<world, offers, moves, cmds>>

\* The operator sees the prices and agrees or not.
Confirm ==
  /\ cmd # None /\ cmd.at = "confirm"
  /\ cmd' = [cmd EXCEPT !.at = "post"] \/ End
  /\ UNCHANGED <<world, offers, moves, cmds>>

\* The answers of one POST: applied and told, applied and lost, or refused.
Answers(o, bp, upstream) ==
  LET n == Upsert(o, bp, upstream)
      told == IF n.pending = None THEN [status |-> 200]
              ELSE [status |-> 202, pending |-> n.pending, active |-> n.discount] IN
  {[offer |-> n, answer |-> told], [offer |-> n, answer |-> [status |-> 504]],
   [offer |-> o, answer |-> [status |-> 409]]}

\* The exit status tells whether any of them failed.
Note(t, result) == [cmd EXCEPT !.todo = @ \ {t}, !.failed = @ \/ result = "error"]

\* One offer at a time; a failure does not end the loop.
Post ==
  /\ cmd # None /\ cmd.at = "post" /\ cmd.todo # {}
  /\ \E t \in cmd.todo : \E a \in Answers(offers[t], cmd.bp, cmd.upstream) :
       /\ offers' = [offers EXCEPT ![t] = a.offer]
       /\ cmd' = Note(t, post_declare_product(offers[t], cmd.bp, a.answer))
  /\ UNCHANGED <<world, moves, cmds>>

UndeclareProducts ==
  \E filter \in {None} \union {t[1] : t \in Pairs} :
    /\ withdrawable_offers(filter) # {}
    /\ Start("sweep", "delete", withdrawable_offers(filter), 0, FALSE)

\* undeclare-product names one pair, and asks the registry whether it stands.
UndeclareProduct ==
  \E t \in Pairs : Start("sweep", "delete", {t}, 0, FALSE)

\* DELETE: withdrawn, withdrawn with the answer lost, refused, or no such offer.
delete_offer ==
  /\ cmd # None /\ cmd.at = "delete" /\ cmd.todo # {}
  /\ \E t \in cmd.todo, told \in BOOLEAN, applied \in BOOLEAN :
       /\ told => applied = offers[t].offered
       /\ offers' = IF applied THEN [offers EXCEPT ![t].offered = FALSE, ![t].pending = None]
                    ELSE offers
       /\ cmd' = Note(t, IF told /\ applied THEN "ok" ELSE "error")
  /\ UNCHANGED <<world, moves, cmds>>

Finish ==
  /\ cmd # None /\ cmd.at \in {"post", "delete"} /\ cmd.todo = {} /\ End
  /\ UNCHANGED <<world, offers, moves, cmds>>

-----------------------------------------------------------------------------
\* What others do meanwhile

Move == moves < MaxMoves /\ moves' = moves + 1 /\ UNCHANGED <<offers, echo, cmds>>

Touched(w) == cmd' = IF cmd = None THEN None ELSE [cmd EXCEPT !.moved = @ \union {w}]

\* set-api-keys in another terminal.
Select ==
  /\ Move
  /\ \E p \in CloudProviders : \E a \in Adapters[p] \union {None} :
       a # sel[p] /\ sel' = [sel EXCEPT ![p] = a]
  /\ UNCHANGED <<records, rows, unsaved, cmd>>

Backends == [p \in CloudProviders |-> configured_cloud_backend([sel |-> sel], p)]

\* deploy registers a worker, past the fence, and saves its record afterwards.
DeployRegisters ==
  /\ Move
  /\ \E w \in Workers \ Foreign, h \in DOMAIN Images \union {Unlisted} :
       /\ cloud_fence_required_for_worker([sel |-> sel, records |-> records], w, Backends) => echo
       /\ rows' = [rows EXCEPT ![w] = [backends |-> Backends, hash |-> h, cover |-> <<>>]]
       /\ unsaved' = unsaved \union {w}
       /\ Touched(w)
  /\ UNCHANGED <<sel, records>>

SaveRecord ==
  /\ \E w \in unsaved : /\ rows[w] # None
                        /\ records' = [records EXCEPT ![w] = [backends |-> rows[w].backends]]
                        /\ unsaved' = unsaved \ {w}
  /\ UNCHANGED <<sel, rows, echo, offers, cmd, moves, cmds>>

\* register-image moves a worker to another image.
RegisterImage ==
  /\ Move
  /\ \E w \in Workers \ Foreign, h \in DOMAIN Images :
       /\ rows[w] # None
       /\ cloud_fence_required_for_image_recovery([sel |-> sel, records |-> records], w) => echo
       /\ rows' = [rows EXCEPT ![w].hash = h]
  /\ UNCHANGED <<sel, records, unsaved, cmd>>

\* Another machine of the same hotkey, which keeps its own records.
DeployElsewhere ==
  /\ Move
  /\ \E w \in Foreign, h \in DOMAIN Images \union {Unlisted}, b \in Elsewhere :
       rows' = [rows EXCEPT ![w] = [backends |-> b, hash |-> h, cover |-> <<>>]]
  /\ UNCHANGED <<sel, records, unsaved, cmd>>

\* The registry drops a worker; `worker remove` forgets its record.
WorkerGone ==
  /\ Move
  /\ \E w \in Workers : /\ rows[w] # None /\ rows' = [rows EXCEPT ![w] = None]
                        /\ records' \in {records, [records EXCEPT ![w] = None]}
                        /\ unsaved' = unsaved \ {w}
  /\ UNCHANGED <<sel, cmd>>

\* The registry's probes find out what a worker serves.
Probed ==
  /\ Move
  /\ \E w \in Workers, c \in Coverages :
       /\ rows[w] # None /\ rows' = [rows EXCEPT ![w].cover = c]
  /\ UNCHANGED <<sel, records, unsaved, cmd>>

MarketInit ==
  /\ sel \in {Direct, [Direct EXCEPT !["anthropic"] = "bedrock"]}
  /\ unsaved = {} /\ cmd = None /\ moves = 0 /\ cmds = 0
  /\ offers = [t \in Pairs |-> IF t[1] = "anthropic" THEN Standing ELSE NoOffer]
  /\ echo \in BOOLEAN
  \* an older gmcli may have left a Bedrock worker and a record without a backend map
  /\ \E old \in {{}, Workers \ Foreign},
        h \in {h \in DOMAIN Images : ~Images[h].binding} \union {Unlisted} :
       /\ records = [w \in Workers |-> IF w \in old THEN [backends |-> None] ELSE None]
       /\ rows = [w \in Workers |->
            IF w \in old
            THEN [backends |-> [Direct EXCEPT !["anthropic"] = "bedrock"], hash |-> h,
                  cover |-> <<>>]
            ELSE None]

Declare == DeclareProducts \/ DeclareProduct \/ ResolvePolicy \/ Fence \/ Confirm \/ Post

Withdraw == UndeclareProducts \/ UndeclareProduct \/ delete_offer

World == \/ Select \/ DeployRegisters \/ SaveRecord \/ RegisterImage
         \/ DeployElsewhere \/ WorkerGone \/ Probed

-----------------------------------------------------------------------------
(***************************************************************************)
(* Properties                                                              *)
(***************************************************************************)

\* Supply through a cloud is never declared as direct supply: when a command is
\* about to send an offer and some live worker served that provider through a
\* cloud backend at the moment its policy was resolved, then the command is a
\* single declaration and the registry checks model echoes.  Which of the local
\* selector, the local record and the image list was missing does not matter
\* (declaration_policy, require_cloud_bulk_capability, skip_cloud_bulk_targets).
\* Left out of "some live worker" are those the command cannot be right about:
\* workers that changed hands after it read the config (`moved`), which include
\* those a deploy has registered and not recorded yet, or never will, having
\* crashed in between (`unsaved`).
CloudSupplyFenced ==
  cmd # None /\ cmd.at \in {"confirm", "post"} =>
    \A t \in cmd.todo : cmd.truth[t[1]] # {} => cmd.kind = "one" /\ echo

=============================================================================
