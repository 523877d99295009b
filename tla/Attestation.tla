---------------------------- MODULE Attestation ----------------------------
(***************************************************************************)
(* What an attested upstream has to show: the checks of the NEAR, Chutes   *)
(* and KubeTEE verifiers on quotes, keys and GPU verdicts (attestd         *)
(* near_verify.rs, chutes_verify/{client,evidence,references}.rs,          *)
(* kubetee_verify/{evidence,binding}.rs, eventlog.rs, tee_evidence.rs and  *)
(* nras.rs).                                                               *)
(*                                                                         *)
(* An answer comes from behind a load balancer: from a cache, from another *)
(* replica, from before a restart gave the machine a new key, or from a    *)
(* machine that runs something else.  Its parts are put together freely    *)
(* from what the machines have made; what a machine signs it signs itself. *)
(* A hash is the value it is made of.  Time passes between the checks,     *)
(* which wait for Intel's collateral and for NVIDIA's verdict.             *)
(***************************************************************************)
EXTENDS Naturals, FiniteSets, SequencesExt, Option

CONSTANTS Machines,   \* trust domains that may answer
          BootLog,    \* what each measures at boot: a sequence of events
          Mrtd,       \* and its initial measurement
          Platform,   \* "current", "outdated", "debug" or "sgx"
          Entries,    \* the compiled Chutes references: [mrtd, rtmrs, gpus, count]
          FirstKey,   \* the key that each starts with
          Keys, Nonces, Lives,
          MaxClock,   \* bound on time
          MaxQuotes   \* bound on the quotes of honest machines

\* Two machines do not start with one key.
ASSUME EvidenceAssumption ==
  /\ None \notin Machines /\ Lives \subseteq Nat
  /\ FirstKey \in [Machines -> Keys]
  /\ \A m, o \in Machines : FirstKey[m] = FirstKey[o] => m = o

VARIABLES
  who,     \* which verifier runs
  clock,
  held,    \* the serving key of each machine
  owner,   \* who made a key, None before
  quotes,  \* the quotes of machines that run the provider's code
  asked,   \* the nonces sent so far
  cur      \* the attestation under way: [at, nonce, key, doc, until]

evidenceVars == <<who, clock, held, owner, quotes, asked, cur>>

-----------------------------------------------------------------------------
\* Measurements

NoAction == "no_action"

\* eventlog::parse_event: EV_NO_ACTION measures nothing, every other record
\* extends one of the four RTMRs by its SHA-384 digest.
parse(log) ==
  LET events == SelectSeq(log, LAMBDA e : e.type # NoAction) IN
  IF \A i \in DOMAIN events : events[i].index \in 1 .. 4 /\ events[i].sha384 # None
  THEN [i \in DOMAIN events |-> [rtmr |-> events[i].index - 1, digest |-> events[i].sha384]]
  ELSE None

\* A register is the sequence of digests that it was extended by.
replay(events) ==
  FoldLeft(LAMBDA regs, e : [regs EXCEPT ![e.rtmr] = Append(@, e.digest)],
           [r \in 0 .. 3 |-> <<>>], events)

Rtmrs(m) == replay(parse(BootLog[m]))

ArchOf(gpu) == CASE gpu \in {"h100", "h200", "h20"} -> "HOPPER"
                 [] gpu \in {"b200", "b300", "pro_6000", "rtx_pro_6000"} -> "BLACKWELL"
                 [] OTHER -> None

\* references::gpu_arch: one class of hardware carries one architecture.
gpu_arch(gpus) ==
  IF gpus # {} /\ Cardinality({ArchOf(g) : g \in gpus}) = 1
  THEN CHOOSE a \in {ArchOf(g) : g \in gpus} : TRUE ELSE None

published ==
  {[mrtd |-> e.mrtd, rtmrs |-> e.rtmrs, gpu_arch |-> gpu_arch(e.gpus), gpu_count |-> e.count] :
     e \in Entries}

\* match_td: MRTD and all of RTMR0-3.
match_td(m) == {r \in published : r.mrtd = Mrtd[m] /\ r.rtmrs = Rtmrs(m)}

\* Machines that run the provider's code quote only for themselves.
Honest == {m \in Machines : match_td(m) # {}}

-----------------------------------------------------------------------------
\* What is bound in report_data

\* near_verify: the signing key (named by its machine) and the TLS key; the nonce.
NearData(signing, key, n) == [first |-> <<signing, key>>, second |-> n]

\* key_binding, and the key of the attestation proxy's certificate.
key_binding(n, key) == <<n, key>>

ChutesData(n, key, cert) == [first |-> key_binding(n, key), second |-> cert]

\* The keyset of a KubeTEE replica and its statement.
Keyset(key, until) == [tls |-> key, not_after |-> until]

Statement(digest, n) == [keyset_digest |-> digest, nonce |-> n]

StatementData(s) == [first |-> s, second |-> "zero"]

Quote(m, data) == [by |-> m, data |-> data]

\* external: what the provider's code on a machine quotes for a nonce.
OwnQuotes(m, n) ==
  CASE who = "near" -> {Quote(m, NearData(m, held[m], n))}
    [] who = "chutes" -> {Quote(m, ChutesData(n, held[m], m))}
    [] OTHER -> {Quote(m, StatementData(Statement(Keyset(held[m], d), n))) : d \in Lives}

Known == {k \in Keys : owner[k] # None}

\* external: other code may have anything quoted that it can name.
AnyQuotes ==
  LET others == Machines \ Honest IN
  CASE who = "near" ->
         {Quote(m, NearData(s, k, n)) : m \in others, s \in Machines, k \in Known, n \in asked}
    [] who = "chutes" ->
         {Quote(m, ChutesData(n, k, c)) : m \in others, c \in Machines, k \in Known, n \in asked}
    [] OTHER ->
         {Quote(m, StatementData(Statement(Keyset(k, d), n))) :
            m \in others, k \in Known, d \in Lives, n \in asked}

Available == quotes \union AnyQuotes

\* The nonce that a quote was made for.
NonceOf(q) == CASE who = "near" -> q.data.second
                [] who = "chutes" -> q.data.first[1]
                [] OTHER -> q.data.first.nonce

-----------------------------------------------------------------------------
\* Checks that all three share

\* tee_evidence::appraise: merged, platform and QE TCB up to date, TDX, no debug,
\* and the collateral still valid.
appraise(q, collateral) == Platform[q.by] = "current" /\ collateral > clock

\* A token of NRAS: [nonce, exp, fault], its signature and issuer among the faults.
Tokens == [nonce : asked \X {cur.key}, exp : Lives, fault : {"none", "signature", "claims"}]

token_expiry(t, nonce) == t.fault # "signature" /\ t.nonce = nonce /\ t.exp > clock

\* nras::appraise_v4: the aggregate and every GPU's verdict, which it commits to.
appraise_v4(response, nonce, count) ==
  /\ Len(response.gpus) = count
  /\ token_expiry(response.aggregate, nonce) /\ response.aggregate.fault = "none"
  /\ \A i \in DOMAIN response.gpus :
       /\ response.commits[i] = response.gpus[i]
       /\ token_expiry(response.gpus[i], nonce) /\ response.gpus[i].fault = "none"

Earliest(S) == CHOOSE x \in S : \A y \in S : x <= y

-----------------------------------------------------------------------------
\* NEAR

\* [fault, echo, tls, signing, quote, gpu_nonce]: fault is the first of the plain
\* fields that is wrong (model_name, signing_algo, app_compose, the verdict).
NearDocs ==
  [fault : {"none", "model", "algo", "compose", "verdict"}, echo : asked, tls : Known,
   signing : Machines, quote : Available, gpu_nonce : asked]

\* The quote is compared with what the answer says of itself.
IdentityAsServed(doc) ==
  /\ doc.fault \notin {"model", "algo", "compose"}
  /\ doc.echo = cur.nonce /\ doc.tls = cur.key
  /\ doc.quote.data.first = <<doc.signing, doc.tls>>

verify_identity(doc) ==
  /\ doc.fault \notin {"model", "algo", "compose"}
  /\ doc.echo = cur.nonce /\ doc.tls = cur.key
  /\ doc.quote.data = NearData(doc.signing, cur.key, cur.nonce)

verify_gpu(doc) == doc.gpu_nonce = cur.nonce /\ doc.fault # "verdict"

-----------------------------------------------------------------------------
\* Chutes

\* [fault, cert, cert_until, signed, quote, gpus]: signed is the nonce in the body
\* that the attestation proxy signed, gpus the number of GPUs in it; "gpu_evidence"
\* is a body that carries other evidence than the row around it.
ChutesDocs ==
  [fault : {"none", "signature", "gpu_evidence", "arch"}, cert : Machines, cert_until : Lives,
   signed : asked, quote : Available, gpus : 0 .. 2]

\* verify_signed_row and check_attested_body: one body of this nonce, signed under
\* a certificate that is valid now.
verify_signed_row(doc) ==
  doc.fault \notin {"signature", "gpu_evidence"} /\ doc.cert_until > clock /\ doc.signed = cur.nonce

check_report_data(doc) == doc.quote.data = ChutesData(cur.nonce, cur.key, doc.cert)

\* nras_request: every item of the architecture that the reference names.
GpusFit(doc) ==
  \E r \in match_td(doc.quote.by) :
    r.gpu_arch # None /\ doc.fault # "arch" /\ doc.gpus \in 1 .. r.gpu_count

-----------------------------------------------------------------------------
\* KubeTEE

Logs == {BootLog[m] : m \in Machines} \union {<<>>}

\* BindingFields: the keyset, the digest stated for it, the statement, and the end
\* of the leaf certificate; fault is a missing field or a wrong version or purpose.
Bindings ==
  UNION {[fault : {"none", "shape"}, keyset : {k}, stated : {k, t.keyset_digest},
          statement : {t}, cert_until : Lives] :
           k \in {Keyset(k, d) : k \in Known, d \in Lives}, t \in {q.data.first : q \in Available}}

\* AttestationPayload: signer and signed are the proof of possession of a key.
AttestationPayloads == [quote : Available, log : Logs, echo : asked, signer : Known, signed : asked]

\* Binding::ensure_current
ensure_current(until) == until > clock

\* report_data_of_statement: the fixed template with this digest and this nonce.
report_data_of_statement(doc) ==
  doc.statement.keyset_digest = doc.stated /\ doc.statement.nonce = cur.nonce

\* verify_served_keyset: the digest is the served keyset's, which names the key of
\* this connection and does not outlive its certificate.
verify_served_keyset(doc) ==
  /\ doc.keyset = doc.stated
  /\ doc.keyset.tls = cur.key
  /\ doc.keyset.not_after <= doc.cert_until

BindingGuard(doc) ==
  /\ doc.fault = "none" /\ verify_served_keyset(doc) /\ report_data_of_statement(doc)
  /\ ensure_current(doc.keyset.not_after)

verify_event_log(p) ==
  parse(p.log) # None /\ replay(parse(p.log)) = Rtmrs(p.quote.by)

\* The leaf's key signed the nonce.
verify_tls_possession(p) == p.signer = cur.key /\ p.signed = cur.nonce

verify_attestation(p, report_data) ==
  /\ p.echo = cur.nonce
  /\ p.quote.data = report_data
  /\ verify_event_log(p) /\ verify_tls_possession(p)

-----------------------------------------------------------------------------
Unasked == [at |-> "idle"]

EvidenceInit ==
  /\ who \in {"near", "chutes", "kubetee"}
  /\ clock = 0 /\ quotes = {} /\ asked = {} /\ cur = Unasked
  /\ held = FirstKey
  /\ owner = [k \in Keys |-> IF \E m \in Machines : FirstKey[m] = k
                             THEN CHOOSE m \in Machines : FirstKey[m] = k ELSE None]

\* A fresh nonce, for the key of a new connection or of a listed instance; the
\* listing may be older than the machine's restart.
Begin ==
  /\ cur.at \in {"idle", "accepted", "refused"}
  /\ \E n \in Nonces \ asked, k \in Known :
       /\ who # "chutes" => \E m \in Machines : held[m] = k
       /\ asked' = asked \union {n}
       /\ cur' = [at |-> "asked", nonce |-> n, key |-> k, doc |-> None, until |-> None]
  /\ UNCHANGED <<who, clock, held, owner, quotes>>

Enter(step, doc) == cur' = [cur EXCEPT !.at = step, !.doc = doc]

Accept(doc, until) == cur' = [cur EXCEPT !.at = "accepted", !.doc = doc, !.until = until]

\* attest of near_verify.rs; the quote and the verdict are judged as they come.
NearAttest ==
  /\ who = "near" /\ cur.at = "asked"
  /\ \E doc \in NearDocs, collateral \in Lives :
       /\ appraise(doc.quote, collateral) /\ verify_identity(doc) /\ verify_gpu(doc)
       /\ Accept([quote |-> doc.quote, gpu |-> doc.gpu_nonce, ends |-> {}], None)
  /\ UNCHANGED <<who, clock, held, owner, quotes, asked>>

\* admit_instance, up to Intel's answer.
ChutesQuote ==
  /\ who = "chutes" /\ cur.at = "asked"
  /\ \E doc \in ChutesDocs, collateral \in Lives :
       /\ verify_signed_row(doc) /\ appraise(doc.quote, collateral)
       /\ check_report_data(doc) /\ GpusFit(doc)
       /\ Enter("quoted", [quote |-> doc.quote, gpus |-> doc.gpus,
                           ends |-> {doc.cert_until, collateral}])
  /\ UNCHANGED <<who, clock, held, owner, quotes, asked>>

Responses(count) ==
  {[aggregate |-> a, gpus |-> g, commits |-> c] :
     a \in Tokens, g \in BoundedSeq(Tokens, count), c \in BoundedSeq(Tokens, count)}

\* The certificate's end and the collateral's are left to their own checks.
TokensOnly(response, ends) == {response.aggregate.exp} \union {g.exp : g \in Range(response.gpus)}

\* The earliest end of what the admission rests on.
Expires(response, ends) == TokensOnly(response, ends) \union ends

\* admit_instance from NVIDIA's answer on.
ChutesAdmit ==
  /\ who = "chutes" /\ cur.at = "quoted"
  /\ \E response \in Responses(cur.doc.gpus) :
       LET ends == Expires(response, cur.doc.ends) IN
       /\ Len(response.commits) = Len(response.gpus)
       /\ appraise_v4(response, key_binding(cur.nonce, cur.key), cur.doc.gpus)
       /\ Earliest(ends) > clock
       /\ Accept([quote |-> cur.doc.quote, gpu |-> response.aggregate.nonce[1],
                  ends |-> TokensOnly(response, {}) \union cur.doc.ends], Earliest(ends))
  /\ UNCHANGED <<who, clock, held, owner, quotes, asked>>

\* attest of kubetee_verify: the binding, then what needs no clock.
KubeteeGuard ==
  /\ who = "kubetee" /\ cur.at = "asked"
  /\ \E doc \in Bindings :
       /\ BindingGuard(doc)
       /\ \E p \in AttestationPayloads :
            /\ verify_attestation(p, StatementData(doc.statement))
            /\ Enter("quoted", [quote |-> p.quote, gpu |-> cur.nonce,
                                ends |-> {doc.keyset.not_after, doc.cert_until}])
  /\ UNCHANGED <<who, clock, held, owner, quotes, asked>>

KubeteeAttest ==
  /\ who = "kubetee" /\ cur.at = "quoted"
  /\ \E collateral \in Lives : appraise(cur.doc.quote, collateral)
  /\ ensure_current(Earliest(cur.doc.ends))
  /\ Accept(cur.doc, Earliest(cur.doc.ends))
  /\ UNCHANGED <<who, clock, held, owner, quotes, asked>>

\* Any other answer, and none.
Refuse ==
  /\ cur.at \in {"asked", "quoted"} /\ Enter("refused", None)
  /\ UNCHANGED <<who, clock, held, owner, quotes, asked>>

\* A machine answers a request, which may have been delayed.
MachineQuotes ==
  /\ Cardinality(quotes) < MaxQuotes
  /\ \E m \in Honest, n \in asked : \E q \in OwnQuotes(m, n) : quotes' = quotes \union {q}
  /\ UNCHANGED <<who, clock, held, owner, asked, cur>>

\* A machine restarts with a new key.
Restart ==
  /\ \E m \in Machines, k \in Keys \ Known :
       owner' = [owner EXCEPT ![k] = m] /\ held' = [held EXCEPT ![m] = k]
  /\ UNCHANGED <<who, clock, quotes, asked, cur>>

ClockTick ==
  /\ clock < MaxClock /\ clock' = clock + 1
  /\ UNCHANGED <<who, held, owner, quotes, asked, cur>>

EvidenceNext ==
  \/ Begin \/ NearAttest \/ ChutesQuote \/ ChutesAdmit \/ KubeteeGuard \/ KubeteeAttest
  \/ Refuse \/ MachineQuotes \/ Restart \/ ClockTick

EvidenceSpec == EvidenceInit /\ [][EvidenceNext]_evidenceVars

-----------------------------------------------------------------------------
(***************************************************************************)
(* Properties                                                              *)
(***************************************************************************)

\* Whatever mixture of answers arrives, an accepted attestation rests on a quote
\* that a machine on a current, undebugged platform made for this very attempt;
\* if that machine runs the provider's code then the key that is about to be
\* trusted is that machine's own, and a Chutes machine does run it; the GPUs were
\* judged for this attempt too; and the admission does not outlive any part of
\* its evidence (verify_identity, admit_instance, verify_attestation).
AcceptedGenuine ==
  cur.at = "accepted" =>
    LET m == cur.doc.quote.by IN
    /\ Platform[m] = "current"
    /\ NonceOf(cur.doc.quote) = cur.nonce
    /\ m \in Honest => owner[cur.key] = m
    /\ who = "chutes" => m \in Honest
    /\ cur.doc.gpu = cur.nonce
    /\ \A e \in cur.doc.ends : cur.until <= e

=============================================================================
