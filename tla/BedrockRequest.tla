--------------------------- MODULE BedrockRequest ---------------------------
(***************************************************************************)
(* One Messages request through the Bedrock Mantle adapter                 *)
(* (bedrock_mantle.rs): what start-up demands of the environment, what is  *)
(* refused before anything is sent, the rewrite of the model under the     *)
(* binding the caller names, and what of the upstream's answer reaches the *)
(* caller.  How the cache of bindings is kept, and how a request waits for *)
(* it, is BedrockBindings; how an accepted stream is relayed, BedrockStream.*)
(***************************************************************************)
EXTENDS Naturals, Sequences, Option

CONSTANTS
    Envs,           \* the environments the process may find
    Calls,          \* what callers send
    Payloads,       \* what the registry serves
    Replies         \* what the upstream answers

VARIABLES
    step,       \* "boot", "exited", "idle", "body", "lookup", "sent", "answered"
    network,    \* registry_network
    call,       \* the request, or None
    rows,       \* the cached bindings: a set of rows, one per model, or None
    used,       \* the row the request was built with, or None
    reply,      \* the upstream's answer, or None
    answer      \* what the caller gets, or None

requestVars == <<step, network, call, rows, used, reply, answer>>

-----------------------------------------------------------------------------
(* Start-up                                                                *)

registry_url_for_network(n) == n \in {"mainnet", "testnet"}

from_environment(env) ==
    /\ registry_url_for_network(env.network)
    /\ env.region = "us-east-1"
    /\ env.keys = 1                     \* one non-empty value, a legal header

-----------------------------------------------------------------------------
(* The registry's document.  An id is a record: its name, whether it has   *)
(* the allowed form, and whether it starts with "anthropic.".              *)

valid_model_id(id) == id.legal

valid_bedrock_selector(id) == id.legal /\ id.prefixed

object_has_only_keys(object) == object.shape = "exact"

ValidRow(row, revision) ==
    /\ object_has_only_keys(row)
    /\ row.provider = "anthropic"
    /\ valid_model_id(row.model)
    /\ valid_bedrock_selector(row.upstream_model)
    /\ valid_model_id(row.response_model)
    /\ 0 < row.revision /\ row.revision <= revision

Kept(row) ==
    [model |-> row.model.name, upstream_model |-> row.upstream_model.name,
     response_model |-> row.response_model.name, revision |-> row.revision]

(* The rows of a document as the adapter keeps them.                       *)
parse_bindings_payload(doc) ==
    IF /\ doc.json = "unique" /\ object_has_only_keys(doc) /\ doc.fits
       /\ doc.schema_version = 1
       /\ doc.network = network
       /\ \A i \in DOMAIN doc.bindings : ValidRow(doc.bindings[i], doc.revision)
       /\ \A i, j \in DOMAIN doc.bindings :
             doc.bindings[i].model = doc.bindings[j].model => i = j
    THEN {Kept(doc.bindings[i]) : i \in DOMAIN doc.bindings}
    ELSE None

(* A refresh, as far as BedrockBindings lets the cache go: rows advance.   *)
Refresh ==
    /\ step \notin {"boot", "exited"}
    /\ \E doc \in Payloads :
         LET new == parse_bindings_payload(doc) IN
         /\ new # None
         /\ rows # None => \A r \in new, o \in rows :
               r.model = o.model => r = o \/ r.revision > o.revision
         /\ rows' = new
    /\ UNCHANGED <<step, network, call, used, reply, answer>>

-----------------------------------------------------------------------------
(* The caller's request: headers are the sequences of their values         *)

(* Exactly one value, and that one good.                                   *)
One(values, Good(_)) == Len(values) = 1 /\ Good(values[1])

is_http_token_byte(c) == c = "token"

(***************************************************************************)
(* A beta header: absent, or once, printable and within its bound, a list  *)
(* of tokens padded by spaces.  An item is the sequence of its characters' *)
(* classes once the padding is off; one of nothing but padding is <<>>.    *)
(***************************************************************************)
validate_anthropic_beta_header(betas) ==
    \/ betas = <<>>
    \/ One(betas, LAMBDA b :
          /\ b.fits /\ b.printable
          /\ \A i \in DOMAIN b.items :
                /\ b.items[i] # <<>>
                /\ \A j \in DOMAIN b.items[i] : is_http_token_byte(b.items[i][j]))

validate_inbound_headers(h) ==
    /\ One(h.policy, LAMBDA v : v = "exact-canonical-no-replay-v1")
    /\ One(h.content_type, LAMBDA v : v = "application/json")
    /\ One(h.version, LAMBDA v : v = "2023-06-01")
    /\ One(h.revision, LAMBDA v : v.n > 0 /\ v.canonical)
    /\ validate_anthropic_beta_header(h.beta)

(* Every field once, the model named by a legal id, stream a boolean.      *)
prepare_request_body(body) ==
    /\ body.json = "unique" /\ body.object
    /\ valid_model_id(body.model)
    /\ body.stream \in {"true", "false", "absent"}

-----------------------------------------------------------------------------
(* Answers                                                                 *)

Fault(kind) == [kind |-> kind, retry_after |-> None]

Statuses ==
    [method |-> 405, path |-> 404, header |-> 400, body_too_large |-> 413,
     invalid_body |-> 400, unsupported_model |-> 400, binding_revision |-> 409,
     bindings_unavailable |-> 503, upstream |-> 502, upstream_transport |-> 502,
     upstream_http |-> 502, throttled |-> 429, unauthorized |-> 401, forbidden |-> 403,
     prompt_too_long |-> 400, invalid_request |-> 400, too_large |-> 413,
     model_identity_mismatch |-> 502]

(* The phrases of the fixed bodies that the gateway acts on.               *)
Drains(kind) == kind \in {"unauthorized", "forbidden"}

(* A fault's answer: a fixed body, and the delay of a throttle.            *)
public_error(fault) ==
    [status |-> Statuses[fault.kind], drain |-> Drains(fault.kind),
     reroute |-> fault.kind = "prompt_too_long",
     retry_after |-> fault.retry_after, model |-> None, revision |-> None, stream |-> FALSE]

Answer(a) == step' = "answered" /\ answer' = a /\ UNCHANGED <<network, call, rows>>

Rejects(kind) == Answer(public_error(Fault(kind)))

response_with_binding_revision(model, streamed) ==
    [status |-> 200, drain |-> FALSE, reroute |-> FALSE, retry_after |-> None,
     model |-> model, revision |-> used.revision, stream |-> streamed]

(* Only whole seconds that a u32 holds are passed on.                      *)
retry_after_secs(r) == IF r.retry_after.seconds THEN r.retry_after.value ELSE None

(* The phrase, in a body that arrives in time and within its bound.        *)
signals_prompt_too_long(r) == r.body.arrives /\ r.body.fits /\ r.body.too_long

upstream_rejection(r) ==
    CASE r.status = 429 -> [Fault("throttled") EXCEPT !.retry_after = retry_after_secs(r)]
      [] r.status = 401 -> Fault("unauthorized")
      [] r.status = 403 -> Fault("forbidden")
      [] r.status = 400 -> Fault(IF signals_prompt_too_long(r) THEN "prompt_too_long"
                                 ELSE "invalid_request")
      [] r.status = 413 -> Fault("too_large")
      [] OTHER          -> Fault("upstream_http")

(* A body read whole within the bound, or why not.                         *)
read_bounded_body(r) ==
    IF ~r.body.arrives THEN "upstream_transport"
    ELSE IF ~r.body.fits THEN "upstream" ELSE None

(* Mutant: any model the upstream names is relabelled.                     *)
CanonicalizesAny(r) ==
    IF r.body.json # "unique" \/ ~r.body.object \/ r.body.model = None THEN "upstream"
    ELSE None

(* The model the upstream names must be the one the binding expects.       *)
canonicalize_response_identity(r) ==
    IF r.body.json # "unique" \/ ~r.body.object \/ r.body.model = None THEN "upstream"
    ELSE IF r.body.model # used.response_model THEN "model_identity_mismatch"
    ELSE None

(* None is no row, no reply and no fault.                                  *)
ASSUME RequestAssumption ==
    /\ \A doc \in Payloads : \A i \in DOMAIN doc.bindings : Kept(doc.bindings[i]) # None
    /\ None \notin Replies /\ None \notin DOMAIN Statuses
    /\ \A kind \in DOMAIN Statuses : Fault(kind) # None
    /\ \A r \in Replies : upstream_rejection(r) # None

-----------------------------------------------------------------------------
(* Steps of forward_request                                                *)

RequestInit ==
    /\ step = "boot" /\ network = None /\ call = None /\ rows = None
    /\ used = None /\ reply = None /\ answer = None

Boot ==
    /\ step = "boot"
    /\ \E env \in Envs :
         IF from_environment(env)
         THEN step' = "idle" /\ network' = env.network
         ELSE step' = "exited" /\ UNCHANGED network
    /\ UNCHANGED <<call, rows, used, reply, answer>>

(* The request's head; its body is still to come.                          *)
Arrive ==
    /\ step = "idle"
    /\ call' \in Calls
    /\ LET fault == IF call'.method # "POST" THEN "method"
                    ELSE IF call'.path # "/v1/messages" THEN "path"
                    ELSE IF ~validate_inbound_headers(call'.headers) THEN "header"
                    ELSE None
       IN IF fault = None
          THEN step' = "body" /\ UNCHANGED answer
          ELSE step' = "answered" /\ answer' = public_error(Fault(fault))
    /\ UNCHANGED <<network, rows, used, reply>>

Collect ==
    /\ step = "body"
    /\ \/ ~call.body.fits /\ Rejects("body_too_large")
       \/ call.body.fits /\ ~prepare_request_body(call.body) /\ Rejects("invalid_body")
       \/ /\ call.body.fits /\ prepare_request_body(call.body)
          /\ step' = "lookup" /\ UNCHANGED <<network, call, rows, answer>>
    /\ UNCHANGED <<used, reply>>

RowsOf(model) == IF rows = None THEN {} ELSE {r \in rows : r.model = model.name}

Asked == call.headers.revision[1].n

(* Under the read lock: the binding is current and the request is built.   *)
Build ==
    /\ step = "lookup"
    /\ used' \in {r \in RowsOf(call.body.model) : r.revision = Asked}
    /\ step' = "sent"
    /\ UNCHANGED <<network, call, rows, reply, answer>>

(* Also after a refresh the cache has not the binding asked for, or is     *)
(* past its freshness, which a binding newer than the one asked for is not *)
(* held against.                                                           *)
NoBinding ==
    /\ step = "lookup"
    /\ \/ /\ \A r \in RowsOf(call.body.model) : r.revision <= Asked
          /\ Rejects("bindings_unavailable")
       \/ rows # None /\ RowsOf(call.body.model) = {} /\ Rejects("unsupported_model")
       \/ \E r \in RowsOf(call.body.model) : r.revision # Asked /\ Rejects("binding_revision")
    /\ UNCHANGED <<used, reply>>

(* The connection fails, before or after the upstream took the request.    *)
TransportFails ==
    /\ step = "sent"
    /\ Rejects("upstream_transport")
    /\ UNCHANGED <<used, reply>>

Streamed == call.body.stream = "true"

ExpectedType == IF Streamed THEN "text/event-stream" ELSE "application/json"

(* Why a reply is not passed on; a stream's identity is its message_start. *)
ReplyFault(r) ==
    IF r.status # 200 THEN upstream_rejection(r)
    ELSE IF r.content_type # ExpectedType THEN Fault("upstream")
    ELSE IF read_bounded_body(r) # None THEN Fault(read_bounded_body(r))
    ELSE IF canonicalize_response_identity(r) # None
    THEN Fault(canonicalize_response_identity(r))
    ELSE None

finish_upstream_response ==
    /\ step = "sent"
    /\ \E r \in Replies :
         /\ reply' = r
         /\ Answer(IF ReplyFault(r) # None THEN public_error(ReplyFault(r))
                   ELSE response_with_binding_revision(used.model, Streamed))
    /\ UNCHANGED used

RequestNext ==
    \/ Boot \/ Refresh \/ Arrive \/ Collect \/ Build \/ NoBinding \/ TransportFails
    \/ finish_upstream_response

RequestSpec == RequestInit /\ [][RequestNext]_requestVars

-----------------------------------------------------------------------------
(* Properties                                                              *)

(***************************************************************************)
(* However the registry changes the bindings while a request is under way: *)
(* a success carries the model and the revision the caller asked for and   *)
(* was produced by the model that revision is bound to; what makes the     *)
(* gateway drain the account, reroute or wait comes from the upstream's    *)
(* own refusal, never from the adapter's; and an answer that blames the    *)
(* upstream was preceded by a request to it, built under the revision      *)
(* asked for.                                                              *)
(***************************************************************************)
AnsweredAsBound ==
    answer # None =>
        /\ answer.status = 200 =>
             /\ answer.model = call.body.model.name /\ answer.revision = Asked
             /\ reply.status = 200 /\ reply.body.model = used.response_model
             /\ answer.stream = (reply.content_type = "text/event-stream")
        /\ answer.drain => reply # None /\ reply.status \in {401, 403}
        /\ answer.reroute => reply # None /\ reply.status = 400 /\ reply.body.too_long
        /\ answer.retry_after # None => reply # None /\ reply.status = 429
        /\ answer.status = 502 => used # None
        /\ used # None => used.revision = Asked /\ used.model = call.body.model.name
=============================================================================
