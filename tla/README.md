# gm-miner in TLA+

`gm-miner` is what a miner of the gm marketplace runs: an image with an
attestation server, an Envoy front and a set of loopback adapters that verify
and relay buyers' requests to model suppliers, and `gmcli`, the command line
that configures, deploys and registers it. This directory models the parts of
that code whose correctness depends on orders of events, deadlines and failures,
or on two programs deriving the same thing, checks them with TLC on small
instances and proves the most important ones with TLAPS for every size.

## 1. The system and its parts

| Part (source) | State it keeps | Operations | Talks to |
| --- | --- | --- | --- |
| Attested pool (`attestd/src/attested_pool.rs`, `upstream_proxy.rs`) | per target, the idle connections that passed attestation, with age, idle age, request count and deadline | `take`, `give_back`, `usable_at`, `retire`, dropping a lease or a connection, `connect`, `retry_attestation` | both verifying proxies |
| NEAR proxy (`near_verify.rs`) | one pool per model | `forward`: checkout, attest, send, lease the body | NEAR endpoints, NRAS, the buyer's Envoy |
| KubeTEE proxy (`kubetee_verify/`) | one pool, each connection with the deadline of its keyset statement | `forward`, `models`, checkout, attest | KubeTEE endpoint |
| Evidence checks (`tee_evidence*`, `eventlog.rs`, `references.rs`, `binding.rs`, ...) | none | the checks of quotes, event logs, keys, GPU verdicts and their expiry | the three verifiers |
| Chutes admissions (`chutes_verify/admission.rs`, `client.rs`) | per (credential, chute): verdicts, generations, nonce pool, renewal task; per process: the nonce ledger | `ticket`, `retry_ticket`, `issue`, `record`, `refill`, `renew_while_warm`, `invalidate`, `forget` | Chutes API |
| Chutes budgets (same file) | per credential: gate, call times, backoffs per chute | `claim`, `charge`, `charge_evidence`, `failed`, `evidence_failed`, `succeeded` | admissions and renewals |
| Chutes exchange (`forward.rs`, `crypto.rs`, `stream.rs`) | the attempts of one request, the decryptor of one response | prepare, invoke, complete, push of a chunk, finish | Chutes' relay |
| Bedrock adapter (`bedrock_mantle.rs`) | the binding cache, the refresher's status and nudge, one request, the guard of a stream | start-up, lookup, refresh, wait, forward, guard | gm registry, AWS |
| Attestation server and image start (`main.rs`, `image/start.sh`) | the processes of a container, readiness | boot, gates, `/readyz`, supervision, fatal exit | Azure verification, Envoy, all adapters |
| Azure verification (`azure-verify/`) | per account, the last good binding, failure counts of two loops | `sweep`, boot gate, refresh of expired evidence, two periodic loops | ARM |
| CLI state (`cli/src/config.rs`, `commands/persist.rs`, `auth.rs`) | config file, tokens per network, lock file | load, save, refresh, login, persist a record | auth gateway, other `gmcli` processes |
| CLI deploy (`commands/deploy.rs`, `deploy/`, `workers.rs`) | worker records | deploy, worker add/remove, register-image | Phala, registry |
| Releases and the deploy plan (`image_version.rs`, `compose_hash.rs`, `deploy/`) | the registries' allow-lists | publish, choose a version, image and KMS root, compare hashes, register | registries, Phala |
| Key slots (`commands/keys.rs`, `slots.rs`, `envoy_render.rs`, `start.sh`) | provider keys, the worker's environment, the filter's table | set-api-keys, deploy preflight, slot derivation on both sides, the filter's choice | registry, the image |
| Products and the cloud fence (`commands/products.rs`, `cloud_policy.rs`, `sources.rs`) | offers | declare, undeclare | registry |
| Pricing (`pricing.rs`, `commands/pricing.rs`) | a discount on its way from a prompt to the registry and back | parse, preview, confirm, views | registry |
| Streaming check (`commands/streaming_check.rs`, `bedrock_bindings.rs`) | a plan of probes, the arrival times of one response | choose, probe, parse, classify | registry, workers |
| Notification inbox (`notifications.rs`) | a listing under way | one page, all pages | registry |
| Onboarding (`commands/wizard.rs`, `hotkey.rs`, `doctor.rs`, `dependency.rs`, `phala.rs`) | the wizard's steps and what they stored | init, register-hotkey, doctor | chain, tools, all commands |

What is hard in it: the proxies run one task per request over shared pools, with
`await` points between a check and its use; a connection, a caller or a body can
go away at each of them. Chutes admissions mix a request path that holds a lock
across network calls with renewals that do not, both recording verdicts on the
same instances; nonces must be spent once process-wide although discoveries
overlap; rates are shared between paths and swept when idle. Evidence arrives
from caches, other replicas and from before a restart. The container must stop
serving when an audit finds something and must not stop for a hiccup, while
anything in it may die at any moment. The CLI's hard part is several processes, a
rotating refresh token, three stores that no transaction joins, and documents
that are fetched one by one while other terminals and machines change them.

What makes each part correct:

* pool and proxies: one owner per connection, nothing unread in the pool, no
  transport without an owner once it is wrapped in an `Attested`, a bounded pool,
  a prompt delivered at most once, and only to a connection verified for it and
  usable at that moment; every request ends;
* evidence: whatever mixture of answers arrives, what is accepted was quoted for
  this attempt, with the key of the machine that quoted it, and does not outlive
  any of its parts;
* admissions: a later rejection is never undone, a nonce is issued once while it
  lives, tickets rest on live admissions and live nonces, the issue loop ends;
* budgets: the evidence rate holds across sweeps, discoveries are single flight
  per credential, a refusal silences the chute for its whole wait;
* Chutes exchange: only what the instance sealed for this attempt is released,
  usage and `[DONE]` once, together and last;
* bindings: a model's row never rolls back whatever the registry serves, a
  request is never bound to an older row than an earlier one, a nudge is never
  lost and never breaks the spacing of refreshes, a wait ends by itself; an answer
  was produced under the revision the caller asked for;
* relayed stream: no illegal event reaches the buyer, however the stream was cut,
  and it is reported complete exactly when it is;
* node: a finding outranks a transport error, no binding serves past two poll
  intervals, a sink that stays stops the serving for good, and a node without
  faults serves;
* shared configuration: saves are serial, each changes the file as it is at that
  moment and none writes from a stale copy; a refresh token traded at the
  gateway has its successor stored or on its way, a run against another registry
  stores nothing of what it obtains there;
* workers: records and rows are true of the CVMs they name, secrets are neither
  shared nor lost, and an operator who follows the messages gets served;
* releases: what a deploy registers was approved for that worker;
* keys: what deploy accepts boots, and the worker serves exactly the slots that
  were registered for it;
* market: supply that may pass through a cloud is never declared as direct;
  probes ask a worker only for what it can serve and judge it by its own timing;
  figures and listings are true.

`PROJECT.json` lists every component with its status, and under `hazards` the
places where the code is hard to test most, with the properties that cover them.
Three more are known and have no property: a ledger full of live nonces makes a
ticket fail (`admission.rs:401`, a guard of one line); `failed` and
`evidence_failed` re-create a swept credential's budget without the capacity test
(`admission.rs:607`; the model does the same and nothing depends on the exact
cap); and a crash after the gateway traded a refresh token leaves the spent one in
the file (`persist.rs:125`), from which the next command recovers by a device
login, as `CliTokens` models with `lost`.

## 2. Modules

| Module | Models | Composed of |
| --- | --- | --- |
| `AttestedPool` | the pool, the lease, the connection attempt and the exchange on a connection, shared by both proxies; the properties they share | |
| `NearProxy` | NEAR's `forward`, `checkout`, `attest`, `send_inference` | extends `AttestedPool` |
| `KubeteeProxy` | KubeTEE's `forward`, `models`, `checkout`, `attest`, binding deadline | extends `AttestedPool` |
| `Attestation` | what NEAR, Chutes and KubeTEE evidence has to show | |
| `ChutesAdmission` | scopes, verdicts, nonces, ledger, issue loop, retry, renewal | |
| `ChutesBudgets` | credentials' budgets and their callers | |
| `ChutesExchange` | one request to Chutes, its attempts and the decryption of its answer | |
| `BindingLog` | what the binding cache promises: per model a log of rows to which only newer rows are appended | |
| `BedrockBindings` | the Bedrock adapter's binding cache, its refresher task, the nudge and status channels, the requests that wait | instances `BindingLog` |
| `BedrockRequest` | start-up and one request through the Bedrock adapter | |
| `BedrockStream` | the Bedrock adapter's relay of a streamed answer: the preamble, the guard, framing and parsing | |
| `AzureSweep` | the audit of one Azure account, read by read | |
| `Node` | a container: entrypoint, supervised processes, attestation server, the verifier's loops | extends `AzureSweep` |
| `CliTokens` | `gmcli` processes that share the configuration file and one login per network | |
| `Deploy` | worker commands over records, CVMs and registry rows | |
| `Release` | publishing of images and the plan of a deploy | |
| `Onboarding` | `gmcli init`, register-hotkey, doctor | |
| `MinerKeys` | a credential from set-api-keys to the filter in the worker | |
| `Market` | declare and undeclare under the cloud fence | |
| `StreamingCheck` | what check-streaming probes | extends `Market` |
| `Arrivals` | how one probe's response is parsed and classified | |
| `Pricing` | percentages, price vectors, printed amounts | |
| `Inbox` | the listing of notifications | |
| `ProxiesProofs` | proofs about the pool and both proxies | extends `NearProxy`, `KubeteeProxy` |
| `UpstreamProofs` | proofs about the binding cache, the Bedrock request, the evidence and the Chutes exchange | extends `BedrockBindings`, `BedrockRequest`, `Attestation`, `ChutesExchange` |
| `Option` | the constant `None`, which several modules share | |
| `WorkerProofs` | proofs about the container, the releases and the wizard: how a worker comes about and stays true | extends `Node`, `Release`, `Onboarding` |
| `OperatorProofs` | proofs about the key slots, the market commands and the probes | extends `MinerKeys`, `StreamingCheck` |
| `ChutesBudgetsProofs`, `ChutesAdmissionProofs`, `CliTokensProofs`, `DeployProofs` | proofs about the module of that name | extend it |
| `MC*` | instances for TLC | extend or instance the components |

Some MC modules hold several instances that share nothing, with a variable
(`part` or `proxy`) that is fixed initially and says which one a behaviour is
of: `MCProxies` (the two proxies), `MCUpstream` (the four modules on what the
worker takes from upstreams), `MCOperator` (keys, market and probes, prices, the
response to a probe, the inbox) and `MCOnboarding` (the wizard and the releases). The modules
whose variables they extend, rather than instance, rest in one of their initial
states in a behaviour of another part. Modules that share an MC or a proof module
carry their name in their specification (`KeysSpec`, `ReleaseSpec`). What both
proxies call by one name and do differently carries the supplier's name in
`KubeteeProxy` (`KubeteeCheckout`), so that one module can extend both.

### AttestedPool, NearProxy, KubeteeProxy

`link[c]` is a connection: its transport (`open`), whether an `Attested`, whose
`Drop` aborts the driver, owns it (`guarded`), whether `attest` verified it
and for which target, `attested_at`, `idle_since`, `expires_at`, the request
count, and what is outstanding on it (`exchange`: nothing, an attestation fetch,
a request queued in hyper, a request on the wire, a body being read). `idle[t]`
is a target's pool. `task[r]` is a request: its place in `forward`, the
connection it holds, its attempts, and how often its prompt has been serialised
(`delivered`). A task's steps are the code between two awaits. `Cancel` is the
caller going away at any await, with the drops the code then runs (`Abandon`).
NEAR wraps a connection in an `Attested` as soon as it is up. KubeTEE attests a
bare `UpstreamConnection` and wraps it when `attest` has returned
(`kubetee_verify/mod.rs:288`), so a caller that leaves during `attest` leaves the
driver running until it or the peer ends the connection (`PeerClose`). `NoOrphans`
allows exactly that one: never wrapped, never attested, no request on it.
`Dispatch` is hyper starting to serialise a queued request,
which is what decides whether `InferenceSendError` is retryable.

The order of the idle list matters only through `Latest`: `Vec::pop` takes the
connection given back last, so a take picks one with the latest idle time.
Attestation is a record with one named fault; each check of `verify_identity`,
`verify_compose_binding`, `verify_gpu`, `verify_served_keyset`,
`verify_attestation` and `verify_tls_possession` rejects its own faults.

### ChutesAdmission

`state[s]` is a `ChuteState`: `admitted`, `rejected`, `decided` (generations),
`generation`, `renewal_since`, the nonce pool with `issue_until` and
`valid_until`, `last_served`, `last_recorded`. `req[q]` is a request: waiting
for the scope lock, inside `issue` (between two awaits: `issue`, `admit`,
`discover`), or holding a ticket for an invocation that may be retried once.
`renewal[s]` is the scope's renewal task. `ledger` is the process-wide nonce
ledger. `life`, `uses` and `judged` are history: until when Chutes accepts a
nonce, how often one was issued while it lived, when the evidence behind an
admission was begun and an instance was last rejected. Callers leave (`Abandon`:
the spawned task goes on), admission tasks panic (`Panic`, then `invalidate`),
scopes are evicted (`Evict`). A supplier's answer is any subset of verdicts with
any of the evidence lifetimes, and any assignment of nonces to instances,
including nonces it has listed before. Aborting a renewal is immediate in the
model; in the code the task may run to its next await, where its weak reference
no longer upgrades. A panic whose caller has left is not followed by
`invalidate`, as in the code, where only the awaiting caller runs it.

### ChutesBudgets

`budget[c]` is a `Budget` with its gate, the times of recent discoveries and
evidence calls and both backoff maps; `held` is the domain of the map. Workers
are requests and renewals inside a call. `with_budget` sweeps idle budgets
first, as the code does; `failed` and `evidence_failed` re-create a swept budget
without the capacity test. `with_budget` reads the clock just before it takes the
lock; the model takes both as one step. `log` and `quiet` are history.

### BedrockBindings

`cache` is the `BindingCache`: the rows of the last accepted snapshot and, per
model, the last row it ever had, which is what `apply` compares a new snapshot
with. `RollsBack` is the test of one row, `Refused` of a snapshot, `Applied` the
merge. The refresher (`task`) is a loop of `Plan` (compute the two due times),
`Due` or `Nudged` (its `select!`), `Fetch`, `Land` or `FetchFails`, and
`Publish`. A `watch` channel keeps only
its last value and, per subscriber, whether it has been seen. A
request (`req`) looks up, is bound to a row and sent, or waits: `Bind` is what
`forward_request` does under the cache's read lock, the lookup and the building
of the upstream request; `Send` is `execute`, after the lock is dropped, so
refreshes and other requests may come in between. `Subscribe` takes the status version,
`Check` reads it, `Nudge` bumps the channel, and it wakes on a change or its
timeout. The code's failure count is kept as the base of the backoff it implies.
The registry may answer any well-formed snapshot, in any order, and a caller may
leave at any await (`Leaves`).

### BedrockStream

A byte is a line-end character or a symbol for the lines of one whole event, so
that the properties speak of separators cut anywhere and of events in any order,
and not of text. `buffer`, `scanned`, `preamble` are the locals of
`validate_stream_identity`; `pending`, `total`, `started`, `terminal` the state
`guard_stream` carries from poll to poll, `consumed`, `base`, `chunk` the locals
of one poll, whose loop takes a step per frame. `stream` (what the guard was
given) is history; `out` is what the buyer has. The reference is `Frames` and
`Rest`, which split the whole string at once. The two bounds the guard applies
to a frame differ on purpose: a complete frame counts without its separator, a
partial one with the part of the separator that has arrived, as its tests state.

### CliTokens

`disk` is `config.json`: the selected network and, per network, the tokens and
the names of the worker records. `lock` is the lock file. `proc[p]` is a command:
what it holds in memory (network, token entry, whether its tokens still descend
from the stored login) and its place. `Lock` takes the lock and reloads, `Save`
renames; the two are separate steps, so another process may run, or this one be
killed, in between. `Edited` is what each persist function changes. A token pair
is named by the order in which the gateway issued it; `tokens` records whose login
it descends from, for which registry and against which refresh token it was
issued; `live` is what the gateway still accepts, `fresh` what is outside
the expiry margin. `lost` is history: a grant was carried out and its answer or its holder
lost, which the protocol cannot undo. `doctor` runs the same refresh without the
device login; it is the command that ends where the others go on.

Assumed of the gateway, which is not in the repository: it rotates every refresh
token or none (`Rotates`); a device login comes with a refresh token and revokes
no earlier one. A gateway that rotated only some would let a late save
put back a spent token, since the code keeps the token it holds when a response
names none. A login names the network's own registry; one with `--api-url`, which
moves the network there, is not modelled.

### Attestation

Machines boot with measurements and a key, restart with another key, and quote
what they are asked to; an answer's parts are put together freely from what the
machines have made, since the front may answer from a cache or another replica.
Hashes and signatures are symbolic: a hash is the value it covers, and only a
machine makes its quotes. The verifiers' checks are taken in the order of the
code, and time passes between them. NEAR and KubeTEE pin no measurements, so that
what `AcceptedGenuine` says about the key's owner is about machines that run the
provider's code; Chutes' compiled references make that part of the check.

### ChutesExchange

One request: `prepare`, an attempt per instance (the key of an attempt is its
number), the plain or streamed answer, and the `StreamDecryptor`'s `usage`,
`held` and `done`. The relay between them loses, repeats and reorders sealed
chunks, which carry no numbers, and adds plain text.

### BedrockRequest

The environment checks at start-up, the checks of headers and body, the lookup,
the rewrite and the answers, with the texts as records of what the checks look
at. The cache advances between the steps of the request as `BedrockBindings`
allows it to. The run has one request; two of them share only the cache.

### AzureSweep, Node

A sweep is a record that one ARM read advances. An account is the set of places
(a collection and a page) at which something that the checks reject sits; a read
that fails after n pages has still seen the places on them. `Node` is the
entrypoint from its Azure gate on, the processes it starts and watches, the
attestation server's boot, `/readyz`, its two loops per account and its fatal
exit. Time is kept as ages and countdowns. Any process may die at any moment, any
read may fail transiently or for good, the owner attaches and removes sinks, and
the runtime restarts the container.

### Deploy

`recs` are the worker records, `cvms` the operator's CVMs, `rows` the registry's
workers, `procs` the commands with what each has read. A step fails before or
after its remote effect, a process crashes between two, the registry drops a
worker, a CVM is torn down. `Recovers` is about an operator (`Guided`) who does what the
messages say. Assumed: one command per CVM name at a time apart from `worker
remove`, nobody tears down a CVM that a command is working on, and the
semantics of `POST /miners/register` that the comments describe. An id is used
again only when nothing refers to it.

### Release

A release has a number, a compose template and the features its image really
has; a hash is the record of what it covers. Publishing, withdrawal, the choice
of a version, an image, a KMS root and pull credentials, the comparison of hashes
before and after the CVM exists, and what is then registered. It is assumed that the release
workflow publishes an image with the `gmcli` of the same tag; the registry's list
is read once by a deploy, so that a change during it is like one before or after it.

### Onboarding

The wizard's steps with their gates and outcomes, interactively and under
`--yes`, over a configuration that other sessions change, a chain on which
hotkeys come and go, and tools that are missing, installed or broken. `closing`,
what the wizard says at its end, and what it stored are compared with what is true.

### MinerKeys

A key value is the sequence of its segments; a slot id is what its HMAC is taken
over. The operator's machine and the entrypoint derive the slots independently.
The slots of a key list are given by their places in it: the n-th slot is at the
n-th place whose id no earlier place has, which is what the code's loop with its
set of seen ids collects. The filter's answer is the key it adds or a status, so
that a segment is any string but those two.
The module covers `start.sh` up to the Azure gate, from which `Node` goes on.
The five ARM settings of an Azure backend are one field. Images from before key
slots are deployed but not booted.

### Market, StreamingCheck, Arrivals

A command loads the config once and fetches documents one by one; each may be
missing, and others deploy, switch selectors and register workers between two
fetches. `unsaved` and `moved` name the workers that came into being after what
the command holds, which it cannot know about; the fence is claimed for the
others. `StreamingCheck` joins the documents into probes, refuses a
flawed document of bindings as a whole, and sends the probes one at a time.
`Arrivals` is one response: pieces of lines in chunks that are cut
at any of the listed places, stamped and classified with the code's own constants
in milliseconds; its reference looks at the whole response and at all arrivals
at once.

### Pricing, Inbox

`Pricing` keeps the code's integer arithmetic digit by digit: a typed percentage
is a sequence of characters. TLC's integers limit retail prices to about 200,000
nano-dollars and `U32Max` stands for the width of the basis points; products in
the code are 128 bits wide and cannot overflow. The ranking of offers is the
registry's and external. `Inbox` is a listing page by page while the registry
records more; pages may be short, a cursor may have nothing behind it, and the
query of a request may be lost on the way.

## 3. Runs

| Run | Question | Bounds |
| --- | --- | --- |
| `proxies` | the pool's invariants, the hand-over rule and the end of every request, for NEAR or KubeTEE | 2 connections, 2 requests, 2 targets (1 for KubeTEE), pool of 1, 2 attempts, 2 requests a connection, times 0..1, keyset deadline 1 |
| `chutes_admissions` | verdicts from a request and a renewal in any order, what a ticket rests on, and a nonce that is listed again | 1 scope, 1 instance, 2 nonces valid for 3, ledger of 1, one discovery per issue, generations to 3, evidence valid for 1 or 3, times 0..3 |
| `chutes_retry` | the issue loop ends, with a retry on another instance and a ledger that fills | 2 instances, 2 nonces, ledger of 2, times 0..1 |
| `chutes_budgets` | rates, gates, backoffs | 1 credential, 1 chute, 2 workers, window 2, times 0..5 |
| `bedrock` | what the cache accepts from the registry, what requests then use, and a request and the refresher over the two watch channels | 1 model, 2 selectors, revisions to 3, 1 request, three refreshes of any snapshot, backoff 1 then 2, timeout 1, times 0..3 |
| `upstream` | relayed Bedrock streams, one Bedrock request, evidence, a Chutes exchange | streams to 9 bytes of 6 symbols, chunks to 2; 3 machines, 4 keys, 2 nonces, 2 quotes; 2 instances, 6 relayed lines |
| `cli_tokens` | two processes over one file and one login | 2 networks, 1 worker name, 3 token pairs (a login, a device login against another registry and a refresh of it), rotation on |
| `cli_network` | what the comment on `load_config` says of a selected network | violated, see section 6 |
| `deploy` | two sessions over records, CVMs and rows | 2 processes (one guided), 2 names, 4 CVMs and rows, 2 commands of the other session, 1 fault, 1 drop, 2 key versions |
| `node` | a container through faults, sinks, crashes and restarts | three configurations, 2 pages, audits every 2 ticks, polls every tick, 2 transient failures tolerated |
| `operator` | keys, market, probes, prices, inbox | 3 key updates of 13 kinds and 2 deploys; 2 workers, 2 changes by others; percentages to 3 characters and a few longer; another machine deploys one worker, with one of 3 backend maps; responses of 21 pieces cut at 7 places with 4 gaps; ids to 6, pages of 2, cap of 3 |
| `onboarding` | the wizard; releases to workers | 1 hotkey, 2 Phala keys, 2 runs of init, 1 other session; 2 releases, 2 networks, 2 published rows, 1 deploy |

Why the bounds suffice for what they ask: two requests and two connections
have every race of two owners over one pool, and the proofs of the safety
properties cover every number; one instance is enough for the order of two
verdicts, and one scope for a nonce that Chutes lists a second time while the
ledger still has it, has just swept it or is full (the proof covers nonces that
several scopes are given); two machines and a stranger
are enough for every confusion of one with another; times reach past every
deadline of the instance so each can pass between any two steps (in `proxies`
KubeTEE's age limit lies beyond the clock, so that there the keyset's deadline is
what expires). In `deploy` one fault, one drop and a second session reach every
half-finished state that the recovery messages speak of; a fault may hit any step
of any command. The key updates are chosen so that configurations arise which the
preflight refuses for each of its reasons, and which it accepts with every
combination of backends.

Deadlock is checked, but where the system may really stop: runs whose commands
and moves are bounded (`operator`, `onboarding` and the like) say so in their
configuration.

Fairness: weak fairness of each task's own steps and of the network's answers,
since tokio polls a woken task and every network call has a timeout; strong
fairness of `PooledReady`, because `checkout` loops on the pool without a bound
of its own and only ends when a pooled connection is ready or the pool is empty.
No fairness is assumed of `Cancel`, `PeerClose`, `Panic` or `Evict`. In
`BedrockBindings`, where what ends a wait is a timeout, time passes and each
request takes its own steps, and the refresher has no fairness at all. In
`ChutesAdmission` an awaiting caller runs `invalidate` after a panic (strong
fairness). In `Deploy` a command takes its steps and the guided operator types
what the messages say. In `Node` the entrypoint, the server, its loops and the
clock go on, and a server that is again and again able to report ready does so
once (strong fairness of `Ready`); nothing obliges a fault, a sink or its removal
to happen, and `CalmServes` asks for serving only once faults have ceased.

Every property has a mutant: an operator next to the definition it replaces,
written as the bug a change to that code could introduce. The properties of the
merged runs have one for each part.

## 4. Proofs

The proofs hold for every number of connections, requests, instances, nonces,
credentials, processes, names, CVMs, accounts, providers and keys, and for every
value of the limits. What they assume are the modules' assumptions on their
constants: limits are naturals, `None` is no member of the other sets, and where
the code fixes an order between two of its constants (a backoff starts above zero
and below its maximum, the registry's timeout and the longest backoff fit into the
refresh interval) that order. `MarketAssumption` has other machines deploy with backends that
exist, `StreamingAssumption` revisions be numbers, `OnboardingAssumption` funded keys be
keys and `ReleaseAssumption` an operator's own build be no release. TLC evaluates every one of them.

**Pool and proxies** (`ProxiesProofs`). The inductive invariant is `PoolInv`: the type
invariant; each task holds a connection exactly in the phases that own one, in
the exchange state its phase says (`TaskOK`); idle sets are finite
(`FiniteIdle`); single ownership; clean idle connections; no orphans; the bound;
delivery; and that a connection is wrapped before it counts as attested or carries
a request (`WrappedFirst`), from which an open connection without an owner can
only be one that was left bare. For NEAR, where every connection is wrapped from
the start (`AllWrapped`), `NearAllOwned` proves the stronger claim that there is
none. `SingleOwner` alone is not inductive: giving a connection back keeps
it only if no other task and no pool has it, and `DeliveredOnce` needs to know
that a request still queued has not been delivered, which is `TaskOK`. The lemmas
are about the pool's operations (`TakeInv`, `GiveBackInv`, `RetireInv`,
`DispatchInv`, ...) and are used by both proxies, whose own actions are then
short cases. For KubeTEE there is in addition that a verified connection has a
deadline (`DeadlineKnown`).

**Bedrock bindings** (`UpstreamProofs`) has four inductive invariants, the
last three each on top of the first: `TypeInv`; `CacheInv`, that the row in force
of a model is the highest it has had and the row last bound is that one or an older
one, without which `BoundForward` says nothing about the next lookup; `NudgeInv`,
that the status channel mirrors the refresher's phase and generation, and a pending
nudge is one for this generation that the refresher has planned for (`NoLostNudge`
alone is lost when the refresher publishes); and `SpacingInv`, that the due times
computed before the sleep respect the interval and the backoff, which
`FetchSpacing` reads after it. `RowsAdvance` is a refinement proof: the initial
cache maps to an empty log, and each step is an append to it or a stutter.

**Bedrock request** (`UpstreamProofs`). `RequestInv` says which variables a request has
filled at which step, and that the row it was built with is the one asked for. From
it `AnsweredAsBound` follows by the kinds of answers: what the adapter refuses of its
own (`OwnRefusal`) never drains, reroutes or delays, and what an upstream's refusal
turns into (`RejectionFit`) does so only for the statuses that say it.

**Evidence** (`UpstreamProofs`). `EvidenceInv`: a key is its maker's and a machine serves
with one of its own, across restarts (`KeysFit`); the provider's code quotes only
for its own machine and for keys that machine made (`QuotesFit`); and a quote under
judgement has passed the checks of its step for this attempt (`QuoteFit`).
`AcceptedGenuine` alone is not inductive, because between the first check and the
last the machine may restart with another key, and the quote may be one of another
attempt. `Honest` machines are by definition those whose boot log matches a
reference; the theorem has Chutes accept no other, and of NEAR and KubeTEE, whose
verifiers hold no boot log against published references, it says that the key is the quoting machine's own
if that machine is honest.

**Chutes exchange** (`UpstreamProofs`). `ExchangeInv` describes a stream in two halves,
what the buyer has and what the running call of `feed` has put out: while the
decryptor has not seen `[DONE]` both hold content only (`Open`), and afterwards the
usage and `[DONE]` stand at the end of one of them, in one piece (`Closed`), so that
an error before `feed` returns takes both away. What is held for the end is
billable and equals the running count, above which nothing decrypted counts
(`HeldFit`). `ReleaseFit`, `TextFit` and `EventFit` carry this through a line, a sealed
text and a line of the relay. A text has at most two lines, as in the model. The
assumption that within a text nothing but a blank line comes after `[DONE]` is
needed: the attempt without it fails, see section 6.

**Chutes budgets** (`ChutesBudgetsProofs`). A budget forgets what its window no
longer needs, and all of it when an idle credential is swept, so that the rate
cannot be read off the budget. `BudgetInv` ties it to the history: the queue of
a budget is a suffix of the credential's calls, and what is missing from it is past
the window (`QueueFit`); what Chutes asked for is still in the backoff (`Hushed`),
which sweeping respects because a live backoff keeps a budget from being idle; and
a caller at a gate refers to the gate of the budget in force (`GateHeld`), which is
what makes two discoveries of one credential meet at the same gate.

**Chutes admissions** (`ChutesAdmissionProofs`). A renewal carries verdicts on
evidence that may be older than a rejection recorded while it ran. `VerdictFit`
says that as long as a renewal is in flight every rejection since its start is
still among the decided instances with a later generation, and that the state
remembers the renewal's start, whatever `forget` and other recordings do; from it
the late verdict of `LaterRejectionWins` is dropped. `PoolFit` bounds the life of
each pooled nonce from both sides while the pool issues, and `LedgerFit` keeps a used
nonce in the ledger for as long as it lives. `NoncesOnce` needs both: the ledger is
swept by its own times, the pool is cut by others. `TicketsSound` is read off a
ticket when it is cut, under the same lock as its admission and its nonce.

**Node** (`WorkerProofs`). A sweep that saw a violation has a finding, and one that
ended as a pass or as transient has none (`Just`, for every number of pages); while
the server is up, the age of a binding and what is left to its deadline add up to no
more than two poll intervals (`Anchored`), whatever polls, failures and restarts
did in between.

**Releases** (`WorkerProofs`). A deploy compares hashes twice and registers long
after the registry's list was read, so that what is registered rests on what the
command carries. `ReleaseInv` says it phase by phase: the root a command chose is one the
registry lists and does not expire (`AskedInv`); the terms are accepted, and a cloud backend has
a registry that can tell its models apart (`GatedInv`); the plan's approved version is the
compose of its release, image and network, and what it declares the image
understands (`SettledInv`); and a CVM was approved for what that plan holds, and goes to the registry
with the plan's declarations (`CreatedInv`). Of the stores it says that a published row is
stamped with no feature its image lacks (`StampedRows`), which is why a choice by features
is a choice of an image that has them, and that what is true of a CVM and of a worker stays
true (`CvmTrue`, `WorkerTrue`). From those two `DeployedAsApproved` is read off.

**Onboarding** (`WorkerProofs`). `init` works on a configuration it read at its start,
while other sessions change it. What helps is that part of it is about the past:
`Certified` says of any configuration, however old, that its hotkeys have been on the
chain, that a worker it calls registered has been registered, and that the keys it
holds have not been removed since, since no command removes keys. `WizardInv` adds what the wizard has
seen to while nothing is outstanding, which is what "All set" rests on (`ClosingInv`).

**Tokens** (`CliTokensProofs`). `SaveInv`: whoever is about to rename holds the
lock, and its image is its own change to the file as it still is; together they
leave no second process about to rename. `TokenInv` adds, for each process, what
its tokens are and where they come from (`Fits`). `StoredTokenLive` then rests on
`Spending`: with a gateway that rotates, the refresh token a process is yet to store is live
and known to no one else, two networks never share one, and whoever can spend a
stored token is bound to store its successor (`Private`); with one that does not,
every token in use stays live (`AllLive`). `OverrideIsolated` follows from `Fits`.

**Deploy** (`DeployProofs`). The four invariants are about three stores that no
transaction joins, and a command acts on copies of them that it read steps ago.
`DeployInv` is what keeps such a copy useful: `StoresFit` for the stores, and per
command `SessionFit`: what its place in the sequence implies of its locals
(`Shape`), that the record of its name is the one it saw or saved (`OnFile`), that
its CVM is up and is what it takes it for (`OnCvm`), that it will not put a later
row's secret into another row (`OnRows`), and that a secret it knows is on record or
was let go of (`OnRecord`, `OnLegacy`); further, no two commands work on one name
(`Alone`) and a generated secret belongs to one name (`Owned`). The attempt to
prove `SecretKept` showed that the model's teardown took a secret out of the history
variable `released` although a running command still held it; it no longer does.

**Key slots** (`OperatorProofs`). `KeysInv`: the stored keys are validated ones;
the environment of a worker with key slots was rendered from a configuration that
deploy accepted; a running deploy's record, and the row of the same deploy, list
the slots that the environment serves; a worker that is up has the table of its
environment. `AcceptedBoots` derives each check of `start.sh` from the checks of
`gmcli`, and `TableServes` shows the filter's answer, with the case of a cloud
route, which adds slot 1's key whatever the slot: it is right since
`validate_cloud_backend_single_keys` leaves no second slot (`CloudSingle`,
`SingleSlot`). That the n-th place exists, on which the form of a slot rests, is a
pigeonhole argument (`NthExists`).

**Market and probes** (`OperatorProofs`). `OperatorInv` has two parts. `WorldInv` ties the
machine's records to the registry's rows: a record that tells its worker's backends
tells them as they are (`Agrees`), except of workers a deploy has registered and not
yet saved (`unsaved`), and no record is of another machine's worker. A command keeps
the records of its start and the set of workers it cannot be right about (`moved`), which grows
whenever another session registers one, so that `Agrees` holds of its copy for the
rest. With it `PoliciesTrue` is the heart of the fence: a provider that a settled
worker serves through a cloud has the policy `FENCED`, whichever of the live workers
and the list of images could be read (`CloudFenced`, by cases over what was missing). For the
probes, `TargetTrue` says that a known target's backends and coverage are those of its row, and
`ProbeFits` that each probe asks it for what it serves; `parse_bindings` and
`models_for_target` give the second from the first when the probes are planned, so
that it is an invariant of the plan, not of the moment a probe is sent.

| Module | Properties of runs that are proved | Left to TLC |
| --- | --- | --- |
| `AttestedPool`, `NearProxy`, `KubeteeProxy` | `PoolSound`, `DeliveredOnce`; also the hand-over rules | the end of every request |
| `BedrockBindings` | `BoundForward`, `RowsOnlyAdvance`, `NoLostNudge`, `FetchSpacing` | the end of a wait |
| `BedrockRequest` | `AnsweredAsBound` | |
| `Attestation` | `AcceptedGenuine` | |
| `ChutesExchange` | `ReleasedTrue` | |
| `ChutesBudgets` | `EvidenceRate`, `SingleFlight`, `QuietAfterRefusal` | |
| `ChutesAdmission` | `LaterRejectionWins`, `NoncesOnce`, `TicketsSound` | the end of the issue loop |
| `Node` | `VerdictJust`, `FreshWhileUp` | a lasting sink stops the serving, a calm node serves |
| `Release` | `DeployedAsApproved` | |
| `Onboarding` | `OnboardingHonest` | |
| `CliTokens` | `SavesOnlyItsOwn`, `StoredTokenLive`, `OverrideIsolated` | |
| `Deploy` | `RecordsTrue`, `RowsTrue`, `RowsApart`, `SecretKept` | recovery of a guided operator |
| `MinerKeys` | `DeployableBoots`, `SlotsAgree` | |
| `Market`, `StreamingCheck` | `CloudSupplyFenced`, `ProbesFit` | |
| `Pricing`, `Arrivals`, `Inbox` | | `ViewsTrue` |
| `BedrockStream` | | `ReleasedLegal`, `EndJust` |

Type correctness is proved too (of `MinerKeys`, what `KeysTyped` and `RecordsFit` say
of it; of `Attestation` and `BedrockRequest`, what their invariants need). Liveness and `ENABLED` are
out of TLAPS' reach. `BedrockStream`'s two properties compare a loop over the bytes of
a stream with recursive definitions, and `ViewsTrue` loops and folds over digits, pages and
arrivals with references that look at the whole: both would take an induction over data.

## 5. Plan

1. A refinement of `Deploy` by an abstract registry of workers, which is now
   stated as the four invariants.
2. A second request in `BedrockRequest` and a second command in `Market`.

## 6. What the checks showed

All stated properties hold but one. `load_config` says that "an explicit choice
is persisted so later commands target it without retyping the flag". A command
that saves or removes a worker record also writes the network it was started with
as the selection (`persist_worker_record`, `remove_provisional_worker`,
`cmd_worker_remove`), so a deploy that is under way undoes a `--network` another
command has saved meanwhile, and later commands target the deploy's network. Run
`cli_network` shows it.

Met while modelling, where a comment says more than the code does or where a
property had to make an exception; no run is about them:

* KubeTEE. `attested_pool.rs:73` says that cancellation must close the transport,
  since dropping a `JoinHandle` detaches its task. `connect_and_attest_once`
  (`kubetee_verify/mod.rs:315`) awaits `attest` on a bare `UpstreamConnection`; its
  error arm aborts the driver, but a caller that leaves at that await only
  detaches it (`NoOrphans` makes the exception; NEAR needs none).
* Bedrock. A request bound to a row may go upstream after one that was bound later
  to a newer row: the read lock is dropped before `execute`
  (`bedrock_mantle.rs:1021`), though the comment at line 991 has the provider request
  start immediately. `BoundForward` is about what requests are bound to.
* Workers. A deploy whose record has lost its CVM rewrites the oldest live
  worker's row, although `workers.rs:40` says there is nothing to overwrite; a
  secondary record in that state cannot be removed, which burns its name. The
  comment at `deploy.rs:1383`, that a lock keeps a concurrent deploy from
  resurrecting a removed worker, does not hold when the deploy saves later.
* Releases. A private image's pull credentials are among the names that Phala
  measures and not among those the comparison before the CVM covers, so it
  passes and the CVM then differs (`DeployedAsApproved` exempts it).
  `register-image` verifies no hashes, and sends the current config's backends
  for a CVM without a record (exempt too). A hand-edited network name such as
  `test` is rendered as it is and hashed as `testnet`.
* Azure. A host of several labels passes the CLI and `start.sh` and fails the
  verifier's parse. Policy modes are keyed by the untrimmed policy name and looked
  up by the trimmed one. `AZURE_VERIFY_NOTES.md:68` tolerates a failure for three
  checks; the third is fatal.
* Market. The fence uses the config as it was when the command started.
  `check-streaming` takes a record without backends as direct where the fence
  takes it as unknown. `resolve_probe_models` documents a deployment name that
  `bind_models_to_worker` always clears.
* Streaming check. Given the first wait of a second and the burst of at most a
  quarter of one, the ratio test of the buffered class can never fail.
* Chutes. `StreamDecryptor` aborts on an "encrypted chunk after the encrypted
  [DONE]" (`stream.rs:101`) by looking at whole sealed texts: content after `[DONE]`
  within the same text is released after it. The proof of `ReleasedTrue` needs the
  engine's stream to end with `[DONE]`, and without that assumption TLC finds the
  violation. Chunks have no numbers: a relay can reorder content unnoticed.
* Onboarding. `wizard.rs:287` says that `assume_yes` answers no when a hotkey is
  registered elsewhere; `confirm` answers yes. A blank hotkey means `default` in
  the prompt and is refused by `require_wallet_and_hotkey`. The assisted path of
  `hotkey.rs` may end well with nothing recorded. `has_deployed_worker` counts
  workers of an earlier hotkey and dropped ones. `init --yes` never says "All set".
* Pricing. `types.rs:366` and `products.rs:252` promise a positive revenue at the
  highest discount; below 1000 nano-dollars of retail the floor leaves none.

## 7. Not modelled

Cryptography, TLS, byte layouts and the contents of prompts are abstracted to
symbols and verdicts. Prompts, argument parsing, printing and templates carry no
state. The notification channel's life is the registry's state, behind one
request per command. `PROJECT.json` gives the reason for each part left out.

Out of TLAPS' reach, and left to TLC: liveness under fairness, and what recursive
definitions compute for every input.
