--------------------------- MODULE UpstreamProofs ---------------------------
(***************************************************************************)
(* What the worker takes from its upstreams is what they made for it, for  *)
(* every value of the constants: an accepted attestation is genuine, a     *)
(* request of the Bedrock adapter is answered as its binding says, what    *)
(* is released of a Chutes instance's answer was sealed for the attempt,   *)
(* and the cache of Bedrock bindings only ever moves on.                   *)
(***************************************************************************)
EXTENDS BedrockBindings, BedrockRequest, Attestation, ChutesExchange, WellFoundedInduction, TLAPS

(* A set of numbers has a least one.                                       *)
LEMMA Least ==
    ASSUME NEW T, T \subseteq Nat, T # {}
    PROVE  \E x \in T : \A y \in T : x <= y
<1> DEFINE R == OpToRel(<, Nat)
<1>1. IsWellFoundedOn(R, Nat)
  BY NatLessThanWellFounded
<1>2. \A x, y \in Nat : y < x => <<y, x>> \in R
  BY DEF OpToRel
<1> HIDE DEF R
<1>3. PICK x \in T : \A y \in T : ~ (<<y, x>> \in R)
  BY <1>1, WFMin
<1>4. ASSUME NEW y \in T PROVE x <= y
  <2>1. ~ (<<y, x>> \in R) /\ x \in Nat /\ y \in Nat
    BY <1>3
  <2>2. ~ (y < x)
    BY <2>1, <1>2
  <2> QED BY <2>1, <2>2
<1> QED BY <1>4

(* The earliest of some times.                                             *)
LEMMA EarliestFit ==
    ASSUME NEW S, S \subseteq Nat, S # {}
    PROVE  Earliest(S) \in S /\ \A y \in S : Earliest(S) <= y
<1>1. \E x \in S : \A y \in S : x <= y
  BY Least
<1> QED BY <1>1 DEF Earliest

-----------------------------------------------------------------------------
(* The evidence of attested upstreams                                      *)

Who == {"near", "chutes", "kubetee"}

(* The key that a quote is about.                                          *)
KeyOf(q) == IF who = "kubetee" THEN q.data.first.keyset_digest.tls ELSE q.data.first[2]

(* A key is its maker's, and a machine serves with one of its own.         *)
KeysFit ==
    /\ owner \in [Keys -> Machines \cup {None}]
    /\ held \in [Machines -> Keys]
    /\ \A m \in Machines : owner[held[m]] = m

(* The provider's code quotes for its own machine and that machine's keys. *)
QuotesFit ==
    \A q \in quotes : /\ q.by \in Honest
                      /\ KeyOf(q) \in Keys
                      /\ owner[KeyOf(q)] = q.by

(* An attestation that has been begun has its fields, and a known key.     *)
CurShaped ==
    /\ cur.at \in {"idle", "asked", "quoted", "accepted", "refused"}
    /\ cur.at # "idle" =>
          /\ cur = [at |-> cur.at, nonce |-> cur.nonce, key |-> cur.key,
                    doc |-> cur.doc, until |-> cur.until]
          /\ cur.key \in Keys /\ owner[cur.key] # None

(* What the quote under judgement, once taken, has been checked for.       *)
QuoteFit(doc) ==
    /\ doc.quote.by \in Machines
    /\ NonceOf(doc.quote) = cur.nonce
    /\ doc.quote.by \in Honest => owner[cur.key] = doc.quote.by
    /\ who = "chutes" => doc.quote.by \in Honest /\ Platform[doc.quote.by] = "current"
    /\ who = "kubetee" => doc.gpu = cur.nonce /\ doc.ends # {}
    /\ doc.ends \subseteq Nat

EvidenceInv ==
    /\ who \in Who
    /\ KeysFit /\ QuotesFit /\ CurShaped
    /\ cur.at = "quoted" => QuoteFit(cur.doc)
    /\ AcceptedGenuine

(* The machines that run the provider's code are machines.                 *)
LEMMA HonestMachines == Honest \subseteq Machines
BY DEF Honest

(* Whatever quote there is to show, a machine made it; one of a machine    *)
(* that runs the provider's code is among its own.                         *)
LEMMA Shown ==
    ASSUME NEW q \in Available, QuotesFit
    PROVE  /\ q.by \in Machines
           /\ q.by \in Honest => KeyOf(q) \in Keys /\ owner[KeyOf(q)] = q.by
<1>1. CASE q \in quotes
  BY <1>1, HonestMachines DEF QuotesFit
<1>2. CASE q \in AnyQuotes
  BY <1>2 DEF AnyQuotes, Quote
<1> QED BY <1>1, <1>2 DEF Available

(* At first every machine serves with the key it started with.             *)
LEMMA EvidenceInitInv == EvidenceInit => EvidenceInv
<1> SUFFICES ASSUME EvidenceInit PROVE EvidenceInv
  OBVIOUS
<1>1. who \in Who /\ cur = Unasked /\ quotes = {} /\ held = FirstKey
  BY DEF EvidenceInit, Who
<1>2. KeysFit
  <2>1. owner = [k \in Keys |-> IF \E m \in Machines : FirstKey[m] = k
                                THEN CHOOSE m \in Machines : FirstKey[m] = k ELSE None]
    BY DEF EvidenceInit
  <2>2. owner \in [Keys -> Machines \cup {None}]
    BY <2>1
  <2>3. held \in [Machines -> Keys]
    BY <1>1, EvidenceAssumption
  <2>4. ASSUME NEW m \in Machines PROVE owner[held[m]] = m
    <3> DEFINE o == CHOOSE n \in Machines : FirstKey[n] = FirstKey[m]
    <3>1. o \in Machines /\ FirstKey[o] = FirstKey[m]
      OBVIOUS
    <3>2. owner[FirstKey[m]] = o
      BY <2>1, EvidenceAssumption
    <3> HIDE DEF o
    <3> QED BY <1>1, <3>1, <3>2, EvidenceAssumption
  <2> QED BY <2>2, <2>3, <2>4 DEF KeysFit
<1>3. QuotesFit /\ CurShaped /\ AcceptedGenuine
  BY <1>1 DEF QuotesFit, CurShaped, AcceptedGenuine, Unasked
<1> QED BY <1>1, <1>2, <1>3 DEF EvidenceInv, Unasked

(* A fresh nonce, for a known key; nothing has been judged.                *)
LEMMA BeginInv == EvidenceInv /\ Begin => EvidenceInv'
<1> SUFFICES ASSUME EvidenceInv, Begin PROVE EvidenceInv'
  OBVIOUS
<1>1. /\ UNCHANGED <<who, held, owner, quotes>>
      /\ \E n \in Nonces, k \in Known :
            cur' = [at |-> "asked", nonce |-> n, key |-> k, doc |-> None, until |-> None]
  BY DEF Begin
<1>2. CurShaped' /\ cur'.at = "asked"
  BY <1>1 DEF CurShaped, Known
<1>3. KeysFit' /\ QuotesFit' /\ who' \in Who
  BY <1>1 DEF EvidenceInv, KeysFit, QuotesFit, KeyOf
<1> QED BY <1>2, <1>3 DEF EvidenceInv, AcceptedGenuine

(* A step of the attestation under way to another place.                   *)
LEMMA JudgeInv ==
    ASSUME EvidenceInv, UNCHANGED <<who, held, owner, quotes>>, cur.at # "idle",
           NEW to \in {"quoted", "accepted", "refused"}, NEW doc, NEW until,
           cur' = [cur EXCEPT !.at = to, !.doc = doc, !.until = until],
           to = "quoted" => QuoteFit(doc), to = "accepted" => AcceptedGenuine'
    PROVE  EvidenceInv'
<1>1. cur' = [at |-> to, nonce |-> cur.nonce, key |-> cur.key, doc |-> doc, until |-> until]
  BY DEF EvidenceInv, CurShaped
<1>2. CurShaped'
  BY <1>1 DEF EvidenceInv, CurShaped
<1>3. KeysFit' /\ QuotesFit' /\ who' \in Who
  BY DEF EvidenceInv, KeysFit, QuotesFit, KeyOf
<1>4. cur'.at = "quoted" => QuoteFit(cur.doc)'
  BY <1>1 DEF QuoteFit, NonceOf
<1>5. AcceptedGenuine'
  BY <1>1 DEF AcceptedGenuine
<1> QED BY <1>2, <1>3, <1>4, <1>5 DEF EvidenceInv

(* The quote is judged, or the attestation refused; nothing else changes.  *)
LEMMA EnterInv ==
    ASSUME EvidenceInv, UNCHANGED <<who, held, owner, quotes>>, cur.at # "idle",
           NEW to \in {"quoted", "refused"}, NEW doc, Enter(to, doc),
           to = "quoted" => QuoteFit(doc)
    PROVE  EvidenceInv'
<1>1. cur' = [cur EXCEPT !.at = to, !.doc = doc, !.until = cur.until]
  <2>1. cur = [at |-> cur.at, nonce |-> cur.nonce, key |-> cur.key, doc |-> cur.doc,
               until |-> cur.until]
    BY DEF EvidenceInv, CurShaped
  <2> QED BY <2>1 DEF Enter
<1> QED BY <1>1, JudgeInv

(* What is accepted rests on a quote that has been checked, of a machine   *)
(* on a current platform, and ends with the first part of its evidence.    *)
LEMMA AcceptInv ==
    ASSUME EvidenceInv, UNCHANGED <<who, held, owner, quotes>>, cur.at # "idle",
           NEW doc, NEW until, Accept(doc, until), QuoteFit(doc),
           Platform[doc.quote.by] = "current", doc.gpu = cur.nonce,
           \A e \in doc.ends : until <= e
    PROVE  EvidenceInv'
<1>1. cur' = [cur EXCEPT !.at = "accepted", !.doc = doc, !.until = until]
  BY DEF Accept
<1>2. cur' = [at |-> "accepted", nonce |-> cur.nonce, key |-> cur.key, doc |-> doc,
              until |-> until]
  BY <1>1 DEF EvidenceInv, CurShaped
<1>3. AcceptedGenuine'
  BY <1>2 DEF AcceptedGenuine, QuoteFit, NonceOf
<1> QED BY <1>1, <1>3, JudgeInv

(* A quote that names this attempt's key and nonce.                        *)
LEMMA QuoteJudged ==
    ASSUME EvidenceInv, NEW q \in Available, KeyOf(q) = cur.key
    PROVE  q.by \in Machines /\ (q.by \in Honest => owner[cur.key] = q.by)
BY Shown DEF EvidenceInv

(* NEAR: identity, key and nonce in one quote, judged at once.             *)
LEMMA NearAttestInv == EvidenceInv /\ NearAttest => EvidenceInv'
<1> SUFFICES ASSUME EvidenceInv, NearAttest PROVE EvidenceInv'
  OBVIOUS
<1>1. PICK d \in NearDocs, collateral \in Lives :
        /\ appraise(d.quote, collateral) /\ verify_identity(d) /\ verify_gpu(d)
        /\ Accept([quote |-> d.quote, gpu |-> d.gpu_nonce, ends |-> {}], None)
  BY DEF NearAttest
<1>2. who = "near" /\ cur.at = "asked" /\ UNCHANGED <<who, held, owner, quotes>>
  BY DEF NearAttest
<1> DEFINE doc == [quote |-> d.quote, gpu |-> d.gpu_nonce, ends |-> {}]
<1>3. d.quote \in Available /\ d.quote.data = NearData(d.signing, cur.key, cur.nonce)
  BY <1>1 DEF NearDocs, verify_identity
<1>4. KeyOf(d.quote) = cur.key /\ NonceOf(d.quote) = cur.nonce
  BY <1>2, <1>3 DEF KeyOf, NonceOf, NearData
<1>5. QuoteFit(doc)
  BY <1>2, <1>3, <1>4, QuoteJudged DEF QuoteFit
<1>6. Platform[doc.quote.by] = "current" /\ doc.gpu = cur.nonce
  BY <1>1 DEF appraise, verify_gpu
<1>7. \A e \in doc.ends : None <= e
  OBVIOUS
<1> QED BY <1>1, <1>2, <1>5, <1>6, <1>7, AcceptInv

(* Chutes, up to Intel's answer.                                           *)
LEMMA ChutesQuoteInv == EvidenceInv /\ ChutesQuote => EvidenceInv'
<1> SUFFICES ASSUME EvidenceInv, ChutesQuote PROVE EvidenceInv'
  OBVIOUS
<1>1. PICK d \in ChutesDocs, collateral \in Lives :
        /\ appraise(d.quote, collateral) /\ check_report_data(d) /\ GpusFit(d)
        /\ Enter("quoted", [quote |-> d.quote, gpus |-> d.gpus,
                            ends |-> {d.cert_until, collateral}])
  BY DEF ChutesQuote
<1>2. who = "chutes" /\ cur.at = "asked" /\ UNCHANGED <<who, held, owner, quotes>>
  BY DEF ChutesQuote
<1> DEFINE doc == [quote |-> d.quote, gpus |-> d.gpus, ends |-> {d.cert_until, collateral}]
<1>3. /\ d.quote \in Available /\ d.cert_until \in Nat /\ collateral \in Nat
      /\ d.quote.data = ChutesData(cur.nonce, cur.key, d.cert)
  BY <1>1, EvidenceAssumption DEF ChutesDocs, check_report_data
<1>4. KeyOf(d.quote) = cur.key /\ NonceOf(d.quote) = cur.nonce
  BY <1>2, <1>3 DEF KeyOf, NonceOf, ChutesData, key_binding
<1>5. match_td(d.quote.by) # {} /\ Platform[d.quote.by] = "current"
  BY <1>1 DEF GpusFit, appraise
<1>6. QuoteFit(doc)
  BY <1>2, <1>3, <1>4, <1>5, QuoteJudged DEF QuoteFit, Honest
<1> QED BY <1>1, <1>2, <1>6, EnterInv

(* Chutes, from NVIDIA's answer on: the admission ends with the first of   *)
(* the tokens, the certificate and the collateral.                         *)
LEMMA ChutesAdmitInv == EvidenceInv /\ ChutesAdmit => EvidenceInv'
<1> SUFFICES ASSUME EvidenceInv, ChutesAdmit PROVE EvidenceInv'
  OBVIOUS
<1>1. PICK response \in Responses(cur.doc.gpus) :
        /\ appraise_v4(response, key_binding(cur.nonce, cur.key), cur.doc.gpus)
        /\ Accept([quote |-> cur.doc.quote, gpu |-> response.aggregate.nonce[1],
                   ends |-> TokensOnly(response, {}) \union cur.doc.ends],
                  Earliest(Expires(response, cur.doc.ends)))
  BY DEF ChutesAdmit
<1>2. /\ who = "chutes" /\ cur.at = "quoted" /\ UNCHANGED <<who, held, owner, quotes>>
      /\ QuoteFit(cur.doc)
  BY DEF ChutesAdmit, EvidenceInv
<1> DEFINE ends == Expires(response, cur.doc.ends)
           doc == [quote |-> cur.doc.quote, gpu |-> response.aggregate.nonce[1],
                   ends |-> TokensOnly(response, {}) \union cur.doc.ends]
<1>3. /\ response.aggregate \in Tokens
      /\ \A g \in Range(response.gpus) : g \in Tokens
  BY <1>1 DEF Responses, BoundedSeq, SeqOf, Range
<1>4. ends = doc.ends
  BY DEF Expires, TokensOnly
<1>5. ends \subseteq Nat /\ ends # {}
  <2>1. \A t \in Tokens : t.exp \in Nat
    BY EvidenceAssumption DEF Tokens
  <2>2. cur.doc.ends \subseteq Nat
    BY <1>2 DEF QuoteFit
  <2> QED BY <1>3, <2>1, <2>2 DEF Expires, TokensOnly
<1>6. \A e \in doc.ends : Earliest(ends) <= e
  BY <1>4, <1>5, EarliestFit
<1>7. response.aggregate.nonce[1] = cur.nonce
  BY <1>1 DEF appraise_v4, token_expiry, key_binding
<1>8. QuoteFit(doc) /\ Platform[doc.quote.by] = "current"
  BY <1>2, <1>4, <1>5 DEF QuoteFit
<1> QED BY <1>1, <1>2, <1>6, <1>7, <1>8, AcceptInv

(* KubeTEE: the binding and what needs no clock.                           *)
LEMMA KubeteeGuardInv == EvidenceInv /\ KubeteeGuard => EvidenceInv'
<1> SUFFICES ASSUME EvidenceInv, KubeteeGuard PROVE EvidenceInv'
  OBVIOUS
<1>1. PICK b \in Bindings :
        /\ BindingGuard(b)
        /\ \E p \in AttestationPayloads :
             /\ verify_attestation(p, StatementData(b.statement))
             /\ Enter("quoted", [quote |-> p.quote, gpu |-> cur.nonce,
                                 ends |-> {b.keyset.not_after, b.cert_until}])
  BY DEF KubeteeGuard
<1>2. PICK p \in AttestationPayloads :
        /\ verify_attestation(p, StatementData(b.statement))
        /\ Enter("quoted", [quote |-> p.quote, gpu |-> cur.nonce,
                            ends |-> {b.keyset.not_after, b.cert_until}])
  BY <1>1
<1>3. who = "kubetee" /\ cur.at = "asked" /\ UNCHANGED <<who, held, owner, quotes>>
  BY DEF KubeteeGuard
<1> DEFINE doc == [quote |-> p.quote, gpu |-> cur.nonce,
                   ends |-> {b.keyset.not_after, b.cert_until}]
<1>4. b.keyset.not_after \in Nat /\ b.cert_until \in Nat
  <2> DEFINE K == {Keyset(k, d) : k \in Known, d \in Lives}
             T == {q.data.first : q \in Available}
             R(k, t) == [fault : {"none", "shape"}, keyset : {k}, stated : {k, t.keyset_digest},
                         statement : {t}, cert_until : Lives]
  <2>0. Bindings = UNION {R(k, t) : k \in K, t \in T}
    BY DEF Bindings
  <2>a. \A k \in K : k.not_after \in Lives
    BY DEF Keyset
  <2>b. \A k, t : \A x \in R(k, t) : x.keyset = k /\ x.cert_until \in Lives
    OBVIOUS
  <2> HIDE DEF K, T, R
  <2>1. PICK k \in K, t \in T : b \in R(k, t)
    BY <2>0
  <2>2. b.keyset.not_after \in Lives /\ b.cert_until \in Lives
    BY <2>1, <2>a, <2>b
  <2> QED BY <2>2, EvidenceAssumption
<1>5. p.quote \in Available /\ p.quote.data = StatementData(b.statement)
  BY <1>2 DEF AttestationPayloads, verify_attestation
<1>6. /\ b.statement.keyset_digest = b.keyset /\ b.statement.nonce = cur.nonce
      /\ b.keyset.tls = cur.key
  BY <1>1 DEF BindingGuard, verify_served_keyset, report_data_of_statement
<1>7. KeyOf(p.quote) = cur.key /\ NonceOf(p.quote) = cur.nonce
  BY <1>3, <1>5, <1>6 DEF KeyOf, NonceOf, StatementData
<1>8. QuoteFit(doc)
  BY <1>3, <1>4, <1>5, <1>7, QuoteJudged DEF QuoteFit
<1> QED BY <1>2, <1>3, <1>8, EnterInv

(* KubeTEE, from Intel's answer on.                                        *)
LEMMA KubeteeAttestInv == EvidenceInv /\ KubeteeAttest => EvidenceInv'
<1> SUFFICES ASSUME EvidenceInv, KubeteeAttest PROVE EvidenceInv'
  OBVIOUS
<1>1. /\ who = "kubetee" /\ cur.at = "quoted" /\ UNCHANGED <<who, held, owner, quotes>>
      /\ QuoteFit(cur.doc) /\ Platform[cur.doc.quote.by] = "current"
      /\ Accept(cur.doc, Earliest(cur.doc.ends))
  BY DEF KubeteeAttest, EvidenceInv, appraise
<1>2. \A e \in cur.doc.ends : Earliest(cur.doc.ends) <= e
  BY <1>1, EarliestFit DEF QuoteFit
<1> QED BY <1>1, <1>2, AcceptInv DEF QuoteFit

(* A machine quotes for itself, under the key it serves with.              *)
LEMMA MachineQuotesInv == EvidenceInv /\ MachineQuotes => EvidenceInv'
<1> SUFFICES ASSUME EvidenceInv, MachineQuotes PROVE EvidenceInv'
  OBVIOUS
<1>1. PICK m \in Honest, n \in asked : \E q \in OwnQuotes(m, n) : quotes' = quotes \union {q}
  BY DEF MachineQuotes
<1>2. PICK q \in OwnQuotes(m, n) : quotes' = quotes \union {q}
  BY <1>1
<1>3. UNCHANGED <<who, held, owner, cur>>
  BY DEF MachineQuotes
<1>4. q.by = m /\ KeyOf(q) = held[m]
  BY DEF OwnQuotes, KeyOf, Quote, NearData, ChutesData, key_binding, StatementData, Statement,
         Keyset, EvidenceInv, Who
<1>5. QuotesFit'
  BY <1>1, <1>2, <1>3, <1>4, HonestMachines DEF EvidenceInv, QuotesFit, KeysFit, KeyOf
<1> QED BY <1>3, <1>5 DEF EvidenceInv, KeysFit, CurShaped, QuoteFit, NonceOf, AcceptedGenuine

(* A restarted machine has a key that nobody had: those in use stay.       *)
LEMMA RestartInv == EvidenceInv /\ Restart => EvidenceInv'
<1> SUFFICES ASSUME EvidenceInv, Restart PROVE EvidenceInv'
  OBVIOUS
<1>1. PICK m \in Machines, k \in Keys \ Known :
        owner' = [owner EXCEPT ![k] = m] /\ held' = [held EXCEPT ![m] = k]
  BY DEF Restart
<1>2. UNCHANGED <<who, quotes, cur>>
  BY DEF Restart
<1>3. \A x \in Keys : owner[x] # None => owner'[x] = owner[x]
  BY <1>1 DEF Known, EvidenceInv, KeysFit
<1>4. KeysFit'
  <2>1. owner' \in [Keys -> Machines \cup {None}] /\ held' \in [Machines -> Keys]
    BY <1>1 DEF EvidenceInv, KeysFit
  <2>2. ASSUME NEW o \in Machines PROVE owner'[held'[o]] = o
    BY <1>1, <1>3, EvidenceAssumption DEF EvidenceInv, KeysFit
  <2> QED BY <2>1, <2>2 DEF KeysFit
<1>5. QuotesFit'
  BY <1>2, <1>3, HonestMachines, EvidenceAssumption DEF EvidenceInv, QuotesFit, KeyOf
<1>6. CurShaped'
  BY <1>2, <1>3 DEF EvidenceInv, CurShaped
<1>7. cur.at \in {"quoted", "accepted"} => owner'[cur.key] = owner[cur.key]
  BY <1>3 DEF EvidenceInv, CurShaped
<1> QED BY <1>2, <1>4, <1>5, <1>6, <1>7 DEF EvidenceInv, QuoteFit, NonceOf, AcceptedGenuine

(***************************************************************************)
(* Keys are their makers', quotes of the provider's code are about their   *)
(* own machines' keys, and whatever has been judged has passed the checks. *)
(***************************************************************************)
THEOREM EvidenceInvariance == EvidenceSpec => []EvidenceInv
<1>1. EvidenceInit => EvidenceInv
  BY EvidenceInitInv
<1>2. EvidenceInv /\ [EvidenceNext]_evidenceVars => EvidenceInv'
  <2> SUFFICES ASSUME EvidenceInv, [EvidenceNext]_evidenceVars PROVE EvidenceInv'
    OBVIOUS
  <2>1. CASE Begin
    BY <2>1, BeginInv
  <2>2. CASE NearAttest
    BY <2>2, NearAttestInv
  <2>3. CASE ChutesQuote
    BY <2>3, ChutesQuoteInv
  <2>4. CASE ChutesAdmit
    BY <2>4, ChutesAdmitInv
  <2>5. CASE KubeteeGuard
    BY <2>5, KubeteeGuardInv
  <2>6. CASE KubeteeAttest
    BY <2>6, KubeteeAttestInv
  <2>7. CASE Refuse
    <3>1. cur.at # "idle" /\ UNCHANGED <<who, held, owner, quotes>> /\ Enter("refused", None)
      BY <2>7 DEF Refuse
    <3> QED BY <3>1, EnterInv
  <2>8. CASE MachineQuotes
    BY <2>8, MachineQuotesInv
  <2>9. CASE Restart
    BY <2>9, RestartInv
  <2>10. CASE ClockTick \/ UNCHANGED evidenceVars
    <3>1. UNCHANGED <<who, held, owner, quotes, cur>>
      BY <2>10 DEF ClockTick, evidenceVars
    <3> QED BY <3>1 DEF EvidenceInv, KeysFit, QuotesFit, KeyOf, CurShaped, QuoteFit, NonceOf,
                        AcceptedGenuine
  <2> QED BY <2>1, <2>2, <2>3, <2>4, <2>5, <2>6, <2>7, <2>8, <2>9, <2>10 DEF EvidenceNext
<1> QED BY <1>1, <1>2, PTL DEF EvidenceSpec

(***************************************************************************)
(* Whatever a machine, a cache, another replica or a machine with other    *)
(* code answers, and however machines restart meanwhile, an attestation    *)
(* that the verifiers accept rests on a quote for this attempt from a      *)
(* current platform and ends with its first part; a quote of the           *)
(* provider's code is about the key of the machine that quoted, and        *)
(* Chutes' verifier accepts no other.                                      *)
(***************************************************************************)
THEOREM AcceptedIsGenuine == EvidenceSpec => []AcceptedGenuine
<1>1. EvidenceInv => AcceptedGenuine
  BY DEF EvidenceInv
<1> QED BY <1>1, EvidenceInvariance, PTL

-----------------------------------------------------------------------------
(* The request through the Bedrock Mantle adapter                          *)

(* Nothing is answered or replied before its step, and a request that was  *)
(* built stays the one that was asked for.                                 *)
RequestInv ==
    /\ step \in {"boot", "exited", "idle", "body", "lookup", "sent", "answered"}
    /\ rows # None => None \notin rows
    /\ step # "answered" => answer = None /\ reply = None
    /\ step \in {"boot", "exited", "idle", "body", "lookup"} => used = None
    /\ step = "sent" => used # None
    /\ used # None => used.revision = Asked /\ used.model = call.body.model.name
    /\ AnsweredAsBound

(* Faults of the adapter's own, which the gateway does not act on.         *)
Own == DOMAIN Statuses \ {"unauthorized", "forbidden", "prompt_too_long"}

(* The status of a fault is an error's, and 502 blames the upstream.       *)
LEMMA ErrorStatus ==
    /\ \A k \in DOMAIN Statuses : Statuses[k] # 200
    /\ \A k \in {"method", "path", "header", "body_too_large", "invalid_body",
                  "unsupported_model", "binding_revision", "bindings_unavailable"} :
          k \in Own /\ Statuses[k] # 502
    /\ \A k \in {"upstream", "upstream_transport", "model_identity_mismatch", "throttled",
                  "unauthorized", "forbidden", "prompt_too_long", "invalid_request",
                  "too_large", "upstream_http"} : k \in DOMAIN Statuses
    /\ \A k \in {"upstream", "upstream_transport", "model_identity_mismatch"} : k \in Own
BY DEF Own, Statuses

(* What the adapter answers of its own asks nothing of the gateway.        *)
LEMMA OwnRefusal ==
    ASSUME NEW kind \in Own
    PROVE  LET a == public_error(Fault(kind)) IN
           /\ a.status = Statuses[kind] /\ a.status # 200
           /\ ~a.drain /\ ~a.reroute /\ a.retry_after = None
<1>1. kind \in DOMAIN Statuses /\ Statuses[kind] # 200
  BY ErrorStatus DEF Own
<1>2. kind \notin {"unauthorized", "forbidden", "prompt_too_long"}
  BY DEF Own
<1> HIDE DEF Own
<1> QED BY <1>1, <1>2 DEF public_error, Fault, Drains

(* An answer of the adapter's own keeps the invariant.                     *)
LEMMA RefuseInv ==
    ASSUME RequestInv, step # "answered", step' = "answered",
           NEW kind \in Own, answer' = public_error(Fault(kind)),
           Statuses[kind] = 502 => used # None,
           UNCHANGED <<rows, used, reply>>, used = None \/ UNCHANGED call
    PROVE  RequestInv'
<1> DEFINE a == public_error(Fault(kind))
<1>1. /\ a.status = Statuses[kind] /\ a.status # 200
      /\ ~a.drain /\ ~a.reroute /\ a.retry_after = None
  BY OwnRefusal
<1>2. answer' = a
  OBVIOUS
<1> HIDE DEF a
<1>3. used # None => (used.revision = Asked /\ used.model = call.body.model.name)'
  BY DEF RequestInv, Asked
<1>4. AnsweredAsBound'
  BY <1>1, <1>2, <1>3 DEF AnsweredAsBound
<1> QED BY <1>3, <1>4 DEF RequestInv

(* The head and the body of a request.                                     *)
LEMMA ArriveInv == RequestInv /\ Arrive => RequestInv'
<1> SUFFICES ASSUME RequestInv, Arrive PROVE RequestInv'
  OBVIOUS
<1> DEFINE fault == IF call'.method # "POST" THEN "method"
                    ELSE IF call'.path # "/v1/messages" THEN "path"
                    ELSE IF ~validate_inbound_headers(call'.headers) THEN "header"
                    ELSE None
<1>1. /\ step = "idle" /\ UNCHANGED <<network, rows, used, reply>>
      /\ IF fault = None THEN step' = "body" /\ UNCHANGED answer
         ELSE step' = "answered" /\ answer' = public_error(Fault(fault))
  BY DEF Arrive
<1>2. used = None /\ answer = None /\ reply = None
  BY <1>1 DEF RequestInv
<1>3. fault = None \/ fault \in {"method", "path", "header"}
  OBVIOUS
<1> HIDE DEF fault
<1>4. CASE fault = None
  BY <1>1, <1>2, <1>4 DEF RequestInv, AnsweredAsBound
<1>5. CASE fault # None
  <2>1. fault \in Own /\ Statuses[fault] # 502
    BY <1>3, <1>5, ErrorStatus
  <2> QED BY <1>1, <1>2, <1>5, <2>1, RefuseInv
<1> QED BY <1>4, <1>5

(* The body of a request.                                                  *)
LEMMA CollectInv == RequestInv /\ Collect => RequestInv'
<1> SUFFICES ASSUME RequestInv, Collect PROVE RequestInv'
  OBVIOUS
<1>1. step = "body" /\ UNCHANGED <<used, reply>>
  BY DEF Collect
<1>2. ASSUME NEW k \in {"body_too_large", "invalid_body"}, Rejects(k) PROVE RequestInv'
  <2>1. k \in Own /\ Statuses[k] # 502
    BY ErrorStatus
  <2> QED BY <1>1, <1>2, <2>1, RefuseInv DEF Rejects, Answer
<1>3. CASE step' = "lookup" /\ UNCHANGED <<network, call, rows, answer>>
  BY <1>1, <1>3 DEF RequestInv, AnsweredAsBound, Asked
<1> QED BY <1>2, <1>3 DEF Collect

(* A binding is taken, or is not there.                                    *)
LEMMA BuildInv == RequestInv /\ Build => RequestInv'
<1> SUFFICES ASSUME RequestInv, Build PROVE RequestInv'
  OBVIOUS
<1>1. /\ step = "lookup" /\ step' = "sent" /\ UNCHANGED <<call, rows, reply, answer>>
      /\ used' \in {r \in RowsOf(call.body.model) : r.revision = Asked}
  BY DEF Build
<1>2. used' \in rows /\ rows # None /\ used'.model = call.body.model.name
  BY <1>1 DEF RowsOf
<1>3. used' # None /\ used'.revision = Asked /\ Asked' = Asked
  BY <1>1, <1>2 DEF RequestInv, Asked
<1>4. answer = None /\ reply = None
  BY <1>1 DEF RequestInv
<1> QED BY <1>1, <1>2, <1>3, <1>4 DEF RequestInv, AnsweredAsBound

(* No binding to send the request with.                                    *)
LEMMA NoBindingInv == RequestInv /\ NoBinding => RequestInv'
<1> SUFFICES ASSUME RequestInv, NoBinding PROVE RequestInv'
  OBVIOUS
<1>1. step = "lookup" /\ UNCHANGED <<used, reply>>
  BY DEF NoBinding
<1>2. PICK k \in {"bindings_unavailable", "unsupported_model", "binding_revision"} : Rejects(k)
  BY DEF NoBinding
<1>3. k \in Own /\ Statuses[k] # 502
  BY ErrorStatus
<1> QED BY <1>1, <1>2, <1>3, RefuseInv DEF Rejects, Answer

(* An upstream's refusal: what the gateway is asked to do is what it said. *)
LEMMA RejectionFit ==
    ASSUME NEW r
    PROVE  LET a == public_error(upstream_rejection(r)) IN
           /\ a.status # 200
           /\ a.drain => r.status \in {401, 403}
           /\ a.reroute => r.status = 400 /\ r.body.too_long
           /\ a.retry_after # None => r.status = 429
<1> DEFINE f == upstream_rejection(r)
           a == public_error(f)
<1>0. \A k \in {"throttled", "unauthorized", "forbidden", "prompt_too_long", "invalid_request",
                 "too_large", "upstream_http"} : k \in DOMAIN Statuses /\ Statuses[k] # 200
  BY ErrorStatus
<1>a. /\ a.status = Statuses[f.kind]
      /\ a.drain <=> f.kind \in {"unauthorized", "forbidden"}
      /\ a.reroute <=> f.kind = "prompt_too_long"
      /\ a.retry_after = f.retry_after
  BY DEF public_error, Drains
<1>1. CASE r.status = 429
  <2>1. f.kind = "throttled"
    BY <1>1 DEF upstream_rejection, Fault
  <2> HIDE DEF f, a
  <2>2. a.status # 200
    BY <1>0, <1>a, <2>1
  <2>3. ~a.drain /\ ~a.reroute
    BY <1>a, <2>1
  <2> USE DEF a, f
  <2> QED BY <1>1, <2>2, <2>3
<1>2. CASE r.status # 429
  <2>1. /\ f.retry_after = None
        /\ f.kind \in {"unauthorized", "forbidden", "prompt_too_long", "invalid_request",
                      "too_large", "upstream_http"}
        /\ f.kind \in {"unauthorized", "forbidden"} => r.status \in {401, 403}
        /\ f.kind = "prompt_too_long" => r.status = 400 /\ signals_prompt_too_long(r)
    BY <1>2 DEF upstream_rejection, Fault
  <2>2. signals_prompt_too_long(r) => r.body.too_long
    BY DEF signals_prompt_too_long
  <2> HIDE DEF f, a
  <2>3. a.status # 200
    BY <1>0, <1>a, <2>1
  <2>4. a.drain => r.status \in {401, 403}
    BY <1>a, <2>1
  <2>5. a.reroute => r.status = 400 /\ r.body.too_long
    BY <1>a, <2>1, <2>2
  <2>6. a.retry_after = None
    BY <1>a, <2>1
  <2> USE DEF a, f
  <2> QED BY <2>3, <2>4, <2>5, <2>6
<1> QED BY <1>1, <1>2

(* The reply: refused as the upstream says, faulted, or passed on as the   *)
(* answer of the model that the binding names.                             *)
LEMMA FinishInv == RequestInv /\ finish_upstream_response => RequestInv'
<1> SUFFICES ASSUME RequestInv, finish_upstream_response PROVE RequestInv'
  OBVIOUS
<1>1. PICK r \in Replies :
        /\ reply' = r
        /\ Answer(IF ReplyFault(r) # None THEN public_error(ReplyFault(r))
                  ELSE response_with_binding_revision(used.model, Streamed))
  BY DEF finish_upstream_response
<1>2. /\ step = "sent" /\ step' = "answered" /\ UNCHANGED <<used, call, rows>>
      /\ answer' = IF ReplyFault(r) # None THEN public_error(ReplyFault(r))
                   ELSE response_with_binding_revision(used.model, Streamed)
  BY <1>1 DEF finish_upstream_response, Answer
<1>3. r # None /\ used # None /\ upstream_rejection(r) # None
  BY <1>2, RequestAssumption DEF RequestInv
<1>4. \A k \in {"upstream", "upstream_transport", "model_identity_mismatch"} :
        k \in Own /\ k # None /\ Fault(k) # None
  <2>1. \A k \in Own : k \in DOMAIN Statuses
    BY DEF Own
  <2> QED BY <2>1, ErrorStatus, RequestAssumption
<1>5. used.revision = Asked /\ used.model = call.body.model.name /\ Asked' = Asked
  BY <1>2, <1>3 DEF RequestInv, Asked
<1>6. AnsweredAsBound' => RequestInv'
  BY <1>2, <1>3, <1>5 DEF RequestInv
<1>7. CASE r.status # 200
  <2>1. answer' = public_error(upstream_rejection(r))
    BY <1>2, <1>3, <1>7 DEF ReplyFault
  <2> DEFINE a == public_error(upstream_rejection(r))
  <2>2. /\ a.status # 200
        /\ a.drain => r.status \in {401, 403}
        /\ a.reroute => r.status = 400 /\ r.body.too_long
        /\ a.retry_after # None => r.status = 429
    BY RejectionFit
  <2>3. answer' = a
    BY <2>1
  <2> HIDE DEF a
  <2> QED BY <1>1, <1>2, <1>3, <1>5, <1>6, <2>2, <2>3 DEF AnsweredAsBound
<1>8. ASSUME NEW k \in {"upstream", "upstream_transport", "model_identity_mismatch"},
             ReplyFault(r) = Fault(k)
      PROVE  RequestInv'
  <2> DEFINE a == public_error(Fault(k))
  <2>1. a.status # 200 /\ ~a.drain /\ ~a.reroute /\ a.retry_after = None
    BY <1>4, OwnRefusal
  <2>2. answer' = a
    BY <1>2, <1>4, <1>8
  <2> HIDE DEF a
  <2> QED BY <1>1, <1>2, <1>3, <1>5, <1>6, <2>1, <2>2 DEF AnsweredAsBound
<1>9. CASE r.status = 200 /\ ReplyFault(r) = None
  <2>1. r.content_type = ExpectedType /\ canonicalize_response_identity(r) = None
    <3>1. /\ Fault("upstream") # None /\ Fault("upstream_transport") # None
          /\ Fault("model_identity_mismatch") # None
      BY <1>4
    <3>2. read_bounded_body(r) \in {"upstream_transport", "upstream", None}
      BY DEF read_bounded_body
    <3>3. canonicalize_response_identity(r) \in {"model_identity_mismatch", "upstream", None}
      BY DEF canonicalize_response_identity
    <3> HIDE DEF read_bounded_body, canonicalize_response_identity, Fault
    <3> QED BY <1>9, <3>1, <3>2, <3>3 DEF ReplyFault
  <2>2. r.body.model = used.response_model
    BY <1>4, <2>1 DEF canonicalize_response_identity
  <2>3. Streamed = (r.content_type = "text/event-stream")
    BY <2>1 DEF ExpectedType, Streamed
  <2>4. answer' = [status |-> 200, drain |-> FALSE, reroute |-> FALSE, retry_after |-> None,
                   model |-> used.model, revision |-> used.revision, stream |-> Streamed]
    BY <1>2, <1>9 DEF response_with_binding_revision
  <2>5. /\ answer'.status = 200 /\ ~answer'.drain /\ ~answer'.reroute
        /\ answer'.retry_after = None /\ answer'.model = used.model
        /\ answer'.revision = used.revision /\ answer'.stream = Streamed
    BY <2>4
  <2> QED BY <1>1, <1>2, <1>3, <1>5, <1>6, <1>9, <2>2, <2>3, <2>5 DEF AnsweredAsBound
<1>10. \/ r.status # 200 \/ (r.status = 200 /\ ReplyFault(r) = None)
       \/ \E k \in {"upstream", "upstream_transport", "model_identity_mismatch"} :
              ReplyFault(r) = Fault(k)
  BY <1>4 DEF ReplyFault, read_bounded_body, canonicalize_response_identity
<1> QED BY <1>7, <1>8, <1>9, <1>10

(* A request is built once and with what was asked for, and its answer is  *)
(* the upstream's own or the adapter's.                                    *)
THEOREM RequestInvariance == RequestSpec => []RequestInv
<1>1. RequestInit => RequestInv
  BY DEF RequestInit, RequestInv, AnsweredAsBound
<1>2. RequestInv /\ [RequestNext]_requestVars => RequestInv'
  <2> SUFFICES ASSUME RequestInv, [RequestNext]_requestVars PROVE RequestInv'
    OBVIOUS
  <2>1. CASE Boot
    <3>1. /\ step = "boot" /\ step' \in {"idle", "exited"}
          /\ UNCHANGED <<call, rows, used, reply, answer>>
      BY <2>1 DEF Boot
    <3> QED BY <3>1 DEF RequestInv, AnsweredAsBound, Asked
  <2>2. CASE Refresh
    <3>1. PICK doc \in Payloads :
            parse_bindings_payload(doc) # None /\ rows' = parse_bindings_payload(doc)
      BY <2>2 DEF Refresh
    <3>2. rows' = {Kept(doc.bindings[i]) : i \in DOMAIN doc.bindings}
      BY <3>1 DEF parse_bindings_payload
    <3>3. None \notin rows'
      BY <3>2, RequestAssumption
    <3>4. UNCHANGED <<step, call, used, reply, answer>>
      BY <2>2 DEF Refresh
    <3> QED BY <3>3, <3>4 DEF RequestInv, AnsweredAsBound, Asked
  <2>3. CASE TransportFails
    <3>1. step = "sent" /\ UNCHANGED <<used, reply>> /\ Rejects("upstream_transport")
      BY <2>3 DEF TransportFails
    <3>2. used # None /\ "upstream_transport" \in Own
      BY <3>1, ErrorStatus DEF RequestInv
    <3> QED BY <3>1, <3>2, RefuseInv DEF Rejects, Answer
  <2>4. CASE UNCHANGED requestVars
    BY <2>4 DEF requestVars, RequestInv, AnsweredAsBound, Asked
  <2> QED BY <2>1, <2>2, <2>3, <2>4, ArriveInv, CollectInv, BuildInv, NoBindingInv, FinishInv
          DEF RequestNext
<1> QED BY <1>1, <1>2, PTL DEF RequestSpec

(***************************************************************************)
(* However the registry changes the bindings while a request is under way, *)
(* and whatever the upstream replies, a success is of the model and the    *)
(* revision asked for, and what the gateway drains, reroutes or waits on   *)
(* comes from the upstream's own refusal.                                  *)
(***************************************************************************)
THEOREM AnsweredIsAsBound == RequestSpec => []AnsweredAsBound
<1>1. RequestInv => AnsweredAsBound
  BY DEF RequestInv
<1> QED BY <1>1, RequestInvariance, PTL

-----------------------------------------------------------------------------
(* The exchange with a Chutes instance                                     *)

(* What the buyer may receive, and the decryptor.                          *)
Items ==
    [what : {"content"}, of : Nat] \cup [what : {"usage"}, usage : Counts] \cup [what : {"done"}]
        \cup [what : {"completion"}, key : Nat]

Decryptors ==
    [key : Nat \cup {None}, usage : Nat, held : Counts \cup {None}, done : BOOLEAN,
     pending : Nat]

(* A stream that goes on, and one that has ended with this usage total.    *)
Open(items) == \A i \in DOMAIN items : items[i].what = "content"

Closed(items, top) ==
    LET n == Len(items) IN
    /\ n > 1 /\ items[n].what = "done" /\ items[n - 1].what = "usage"
    /\ require_billable(items[n - 1].usage) /\ usage_total(items[n - 1].usage) = top
    /\ \A i \in 1 .. n - 2 : items[i].what = "content"

(* What is kept back is billable and as large as any count before it.      *)
HeldFit(d) == d.held # None => require_billable(d.held) /\ usage_total(d.held) = d.usage

(* The end is in one piece: put out by one call of feed, or released.      *)
StreamFit(d, items) ==
    IF d.done
    THEN \/ Open(released) /\ Closed(items, d.usage)
         \/ Closed(released, d.usage) /\ items = <<>>
    ELSE Open(released) /\ Open(items)

(* While a stream runs: what was put out is of this attempt's key, and no  *)
(* count that was decrypted is above the running one.                      *)
Streaming ==
    /\ HeldFit(dec) /\ StreamFit(dec, output)
    /\ released # <<>> \/ output # <<>> => dec.key = tried
    /\ \A u \in seen : u <= dec.usage

ExchangeInv ==
    /\ at \in {"prepare", "ticket", "invoke", "json", "stream", "ended"}
    /\ tried \in Nat /\ streaming \in BOOLEAN /\ dec \in Decryptors /\ seen \subseteq Nat
    /\ released \in Seq(Items) /\ output \in Seq(Items)
    /\ at # "ended" => ending = None
    /\ at \in {"prepare", "ticket", "invoke", "json"} =>
          released = <<>> /\ output = <<>> /\ dec = NewDecryptor /\ seen = {}
    /\ at = "json" => ~streaming
    /\ at = "stream" => streaming /\ Streaming
    /\ ReleasedTrue

States == [d : Decryptors, o : Seq(Items), ok : BOOLEAN]

(* A count is a number.                                                    *)
LEMMA TotalFit ==
    ASSUME NEW u \in Counts
    PROVE  usage_total(u) \in Nat
BY ExchangeAssumption DEF Counts, usage_total

(* What is released is in order, whether the stream goes on or has ended.  *)
LEMMA ItemsFit ==
    ASSUME NEW items \in Seq(Items), NEW top, Open(items) \/ Closed(items, top)
    PROVE  \A i \in DOMAIN items :
             /\ items[i].what # "completion"
             /\ items[i].what = "done" => i = Len(items) /\ i > 1 /\ items[i - 1].what = "usage"
             /\ items[i].what = "usage" =>
                   /\ i = Len(items) - 1 /\ require_billable(items[i].usage)
                   /\ usage_total(items[i].usage) = top
<1> SUFFICES ASSUME NEW i \in DOMAIN items
             PROVE  /\ items[i].what # "completion"
                    /\ items[i].what = "done" =>
                          i = Len(items) /\ i > 1 /\ items[i - 1].what = "usage"
                    /\ items[i].what = "usage" =>
                          /\ i = Len(items) - 1 /\ require_billable(items[i].usage)
                          /\ usage_total(items[i].usage) = top
  OBVIOUS
<1>1. CASE Open(items)
  BY <1>1 DEF Open
<1>2. CASE Closed(items, top)
  <2>1. Len(items) \in Nat /\ i \in 1 .. Len(items)
    OBVIOUS
  <2>2. i \in 1 .. Len(items) - 2 \/ i = Len(items) - 1 \/ i = Len(items)
    BY <2>1
  <2> QED BY <1>2, <2>1, <2>2 DEF Closed
<1> QED BY <1>1, <1>2

(* Content lengthens an open stream, and the usage with [DONE] closes it.  *)
LEMMA OpenMore ==
    ASSUME NEW items \in Seq(Items), Open(items), NEW x \in Items, x.what = "content"
    PROVE  Open(Append(items, x)) /\ Append(items, x) \in Seq(Items)
BY DEF Open

(* The held usage with [DONE] closes an open stream.                       *)
LEMMA OpenCloses ==
    ASSUME NEW items \in Seq(Items), Open(items), NEW u \in Counts, require_billable(u)
    PROVE  LET more == Append(Append(items, [what |-> "usage", usage |-> u]), [what |-> "done"])
           IN  more \in Seq(Items) /\ Closed(more, usage_total(u))
<1> DEFINE x == [what |-> "usage", usage |-> u]
           y == [what |-> "done"]
           more == Append(Append(items, x), y)
           n == Len(items)
<1>1. x \in Items /\ y \in Items
  BY DEF Items
<1>2. x.what = "usage" /\ x.usage = u /\ y.what = "done"
  OBVIOUS
<1> HIDE DEF x, y
<1>3. /\ more \in Seq(Items) /\ n \in Nat /\ Len(more) = n + 2 /\ more[n + 1] = x
      /\ more[n + 2] = y /\ \A i \in 1 .. n : more[i] = items[i]
  BY <1>1
<1>4. \A i \in 1 .. n : items[i].what = "content"
  BY DEF Open
<1> USE DEF x, y
<1>5. more \in Seq(Items) /\ Closed(more, usage_total(u))
  <2> HIDE DEF more, n, x, y
  <2> QED BY <1>2, <1>3, <1>4 DEF Closed
<1> QED BY <1>5

(* What is put out after content is the stream as it was put out.          *)
LEMMA OpenJoins ==
    ASSUME NEW s \in Seq(Items), NEW t \in Seq(Items), Open(s)
    PROVE  /\ s \o t \in Seq(Items)
           /\ Open(t) => Open(s \o t)
           /\ \A top : Closed(t, top) => Closed(s \o t, top)
<1> DEFINE m == Len(s)
           n == Len(t)
           c == s \o t
<1>1. /\ c \in Seq(Items) /\ m \in Nat /\ n \in Nat /\ Len(c) = m + n
      /\ \A i \in 1 .. m : c[i] = s[i]
      /\ \A i \in 1 .. n : c[m + i] = t[i]
  OBVIOUS
<1>2. \A i \in 1 .. m : s[i].what = "content"
  BY DEF Open
<1>3. ASSUME Open(t) PROVE Open(c)
  <2>1. \A i \in 1 .. n : t[i].what = "content"
    BY <1>3 DEF Open
  <2>2. ASSUME NEW i \in 1 .. m + n PROVE c[i].what = "content"
    <3> HIDE DEF c, m, n
    <3>1. i \in 1 .. m \/ (i - m \in 1 .. n /\ i = m + (i - m))
      BY <1>1
    <3> QED BY <3>1, <1>1, <1>2, <2>1
  <2> QED BY <1>1, <2>2 DEF Open
<1>4. ASSUME NEW top, Closed(t, top) PROVE Closed(c, top)
  <2>1. /\ n > 1 /\ t[n].what = "done" /\ t[n - 1].what = "usage"
        /\ require_billable(t[n - 1].usage) /\ usage_total(t[n - 1].usage) = top
        /\ \A i \in 1 .. n - 2 : t[i].what = "content"
    BY <1>4 DEF Closed
  <2> HIDE DEF c, m, n
  <2>2. c[m + n] = t[n] /\ c[m + n - 1] = t[n - 1]
    BY <1>1, <2>1
  <2>3. ASSUME NEW i \in 1 .. m + n - 2 PROVE c[i].what = "content"
    <3>1. CASE i \in 1 .. m
      BY <3>1, <1>1, <1>2
    <3>2. CASE i \notin 1 .. m
      <4>1. i - m \in 1 .. n - 2 /\ i - m \in 1 .. n /\ i = m + (i - m)
        BY <1>1, <3>2
      <4>2. c[i] = t[i - m]
        BY <1>1, <4>1
      <4> QED BY <2>1, <4>1, <4>2
    <3> QED BY <3>1, <3>2
  <2> QED BY <1>1, <2>1, <2>2, <2>3 DEF Closed
<1> QED BY <1>1, <1>3, <1>4

(* check_chunk: usage never falls, and nothing else changes.               *)
LEMMA CheckFit ==
    ASSUME NEW st \in States, st.ok, NEW line \in TextLines, line.what = "chunk"
    PROVE  LET c == check_chunk(st, line) IN
           /\ c \in States /\ c.o = st.o /\ st.d.usage <= c.d.usage
           /\ c.d.key = st.d.key /\ c.d.done = st.d.done /\ c.d.held = st.d.held
           /\ c.ok => (IF line.usage = None THEN c = st
                       ELSE line.usage \in Counts /\ c.d.usage = usage_total(line.usage))
<1>1. line.usage \in Counts \cup {None}
  BY DEF TextLines
<1>2. st.d \in Decryptors /\ st.o \in Seq(Items) /\ st.ok \in BOOLEAN /\ st.d.usage \in Nat
  BY DEF States, Decryptors
<1>3. Fail(st) \in States /\ Fail(st).o = st.o /\ Fail(st).d = st.d /\ ~Fail(st).ok
  BY DEF Fail, States
<1>4. ASSUME NEW t \in Nat, st.d.usage <= t
      PROVE  LET c == [st EXCEPT !.d.usage = t] IN
             /\ c \in States /\ c.o = st.o /\ st.d.usage <= c.d.usage /\ c.d.usage = t
             /\ c.d.key = st.d.key /\ c.d.done = st.d.done /\ c.d.held = st.d.held
  BY <1>2, <1>4 DEF States, Decryptors
<1>5. line.usage # None => usage_total(line.usage) \in Nat
  BY <1>1, TotalFit
<1> DEFINE t == usage_total(line.usage)
           c == check_chunk(st, line)
<1>6. \/ c = Fail(st)
      \/ line.usage = None /\ c = st
      \/ line.usage # None /\ ~(t < st.d.usage) /\ c = [st EXCEPT !.d.usage = t]
  BY DEF check_chunk
<1>7. CASE c = Fail(st)
  BY <1>2, <1>3, <1>7
<1>8. CASE line.usage = None /\ c = st
  BY <1>2, <1>8
<1>9. CASE line.usage # None /\ ~(t < st.d.usage) /\ c = [st EXCEPT !.d.usage = t]
  <2>1. t \in Nat /\ st.d.usage <= t
    BY <1>2, <1>5, <1>9
  <2> HIDE DEF t, c
  <2>2. /\ c \in States /\ c.o = st.o /\ st.d.usage <= c.d.usage /\ c.d.usage = t
        /\ c.d.key = st.d.key /\ c.d.done = st.d.done /\ c.d.held = st.d.held
    BY <1>4, <1>9, <2>1
  <2>3. line.usage \in Counts
    BY <1>1, <1>9
  <2> USE DEF t, c
  <2> QED BY <1>9, <2>2, <2>3
<1> QED BY <1>6, <1>7, <1>8, <1>9

(* What a step of the decryption keeps, and what it has made of a line.    *)
Follows(st, r) ==
    /\ r \in States /\ r.d.key = st.d.key /\ st.d.usage <= r.d.usage
    /\ r.ok => HeldFit(r.d) /\ StreamFit(r.d, r.o)

Ready(st) == st \in States /\ st.ok /\ HeldFit(st.d) /\ StreamFit(st.d, st.o)

(* What is passed over, and what fails.                                    *)
LEMMA StayFit ==
    ASSUME NEW st, Ready(st)
    PROVE  Follows(st, st) /\ Follows(st, Fail(st)) /\ ~Fail(st).ok
<1>1. st \in States /\ st.d.usage \in Nat
  BY DEF Ready, States, Decryptors
<1>2. Fail(st) \in States /\ Fail(st).d = st.d /\ ~Fail(st).ok
  BY <1>1 DEF Fail, States
<1> QED BY <1>1, <1>2 DEF Ready, Follows

(* [DONE] puts out what was held, and ends the stream.                     *)
LEMMA DoneFit ==
    ASSUME NEW st, Ready(st), ~st.d.done
    PROVE  Follows(st, ReleaseDone(st))
<1>1. CASE st.d.held = None
  BY <1>1, StayFit DEF ReleaseDone
<1>2. CASE st.d.held # None
  <2> DEFINE u == st.d.held
             more == Append(Append(st.o, [what |-> "usage", usage |-> u]), [what |-> "done"])
             r == ReleaseDone(st)
  <2>1. st \in States /\ st.d \in Decryptors /\ st.o \in Seq(Items) /\ u \in Counts
    BY <1>2 DEF Ready, States, Decryptors
  <2>2. require_billable(u) /\ usage_total(u) = st.d.usage /\ Open(released) /\ Open(st.o)
    BY <1>2 DEF Ready, HeldFit, StreamFit
  <2>3. more \in Seq(Items) /\ Closed(more, usage_total(u))
    BY <2>1, <2>2, OpenCloses
  <2>4. r = [[st EXCEPT !.o = more] EXCEPT !.d.held = None, !.d.done = TRUE]
    BY <1>2, <2>1 DEF ReleaseDone, Emit, States
  <2> HIDE DEF more, r
  <2>5. /\ r \in States /\ r.o = more /\ r.d.done = TRUE /\ r.d.held = None
        /\ r.d.key = st.d.key /\ r.d.usage = st.d.usage
    BY <2>1, <2>3, <2>4 DEF States, Decryptors
  <2>6. HeldFit(r.d) /\ StreamFit(r.d, r.o)
    BY <2>2, <2>3, <2>5 DEF HeldFit, StreamFit
  <2>7. st.d.usage \in Nat
    BY <2>1 DEF Decryptors
  <2> USE DEF r
  <2> QED BY <2>5, <2>6, <2>7 DEF Follows
<1> QED BY <1>1, <1>2

(* Usage alone is held; content is put out, and voids what was held.       *)
LEMMA ChunkFit ==
    ASSUME NEW st, Ready(st), ~st.d.done, NEW line \in TextLines, line.what = "chunk"
    PROVE  LET r == release(st, line) IN
           /\ Follows(st, r)
           /\ r.ok => ~r.d.done /\ (line.usage # None => usage_total(line.usage) <= r.d.usage)
<1> DEFINE r == release(st, line)
           c == check_chunk(st, line)
<1>1. /\ c \in States /\ c.o = st.o /\ st.d.usage <= c.d.usage
      /\ c.d.key = st.d.key /\ c.d.done = st.d.done /\ c.d.held = st.d.held
      /\ c.ok => (IF line.usage = None THEN c = st
                  ELSE line.usage \in Counts /\ c.d.usage = usage_total(line.usage))
  BY CheckFit DEF Ready
<1>2. /\ c.d \in Decryptors /\ c.o \in Seq(Items) /\ c.d.usage \in Nat /\ c.ok \in BOOLEAN
      /\ st.d.done = FALSE /\ Open(released) /\ Open(st.o)
  BY <1>1 DEF Ready, States, Decryptors, StreamFit
<1>3. r = IF line.usage # None /\ line.free THEN HoldUsage(st, line)
          ELSE ReleaseContent(st, line)
  BY DEF release, Ready
<1>4. line.id \in Nat
  BY DEF TextLines
<1>5. CASE line.usage # None /\ line.free
  <2>1. r = HoldUsage(st, line)
    BY <1>3, <1>5
  <2>2. \/ r = Fail(st)
        \/ ~c.ok /\ r = c
        \/ require_billable(line.usage) /\ c.ok /\ r = [c EXCEPT !.d.held = line.usage]
    BY <2>1 DEF HoldUsage
  <2> HIDE DEF r, c
  <2>3. CASE r = Fail(st)
    BY <2>3, StayFit DEF r
  <2>4. CASE ~c.ok /\ r = c
    BY <1>1, <2>4 DEF Follows, r
  <2>5. CASE require_billable(line.usage) /\ c.ok /\ r = [c EXCEPT !.d.held = line.usage]
    <3>1. line.usage \in Counts /\ c.d.usage = usage_total(line.usage)
      BY <1>1, <1>5, <2>5
    <3>2. /\ r \in States /\ r.d.held = line.usage /\ r.d.usage = c.d.usage
          /\ r.d.key = c.d.key /\ r.d.done = c.d.done /\ r.o = c.o
      BY <1>1, <1>2, <2>5, <3>1 DEF States, Decryptors
    <3>3. HeldFit(r.d) /\ StreamFit(r.d, r.o)
      BY <1>1, <1>2, <2>5, <3>1, <3>2 DEF HeldFit, StreamFit
    <3>4. Follows(st, r) /\ ~r.d.done /\ usage_total(line.usage) <= r.d.usage
      BY <1>1, <1>2, <3>1, <3>2, <3>3 DEF Follows
    <3> QED BY <3>4 DEF r
  <2> QED BY <2>2, <2>3, <2>4, <2>5
<1>6. CASE ~(line.usage # None /\ line.free)
  <2> DEFINE x == [what |-> "content", of |-> line.id]
  <2>1. r = ReleaseContent(st, line)
    BY <1>3, <1>6
  <2>2. \/ ~c.ok /\ r = c
        \/ c.ok /\ r = [[c EXCEPT !.o = Append(c.o, x)] EXCEPT !.d.held = None]
    BY <2>1, <1>1 DEF ReleaseContent, Emit, States
  <2>3. x \in Items /\ x.what = "content"
    BY <1>4 DEF Items
  <2> DEFINE more == Append(c.o, x)
  <2>4. more \in Seq(Items) /\ Open(more)
    BY <1>1, <1>2, <2>3, OpenMore
  <2> HIDE DEF r, c, x, more
  <2>5. CASE ~c.ok /\ r = c
    BY <1>1, <2>5 DEF Follows, r
  <2>6. CASE c.ok /\ r = [[c EXCEPT !.o = more] EXCEPT !.d.held = None]
    <3>1. /\ r \in States /\ r.d.held = None /\ r.d.usage = c.d.usage
          /\ r.d.key = c.d.key /\ r.d.done = c.d.done /\ r.o = more
      BY <1>1, <1>2, <2>4, <2>6 DEF States, Decryptors
    <3>2. HeldFit(r.d) /\ StreamFit(r.d, r.o)
      BY <1>1, <1>2, <2>4, <3>1 DEF HeldFit, StreamFit
    <3>3. line.usage # None => usage_total(line.usage) <= r.d.usage
      BY <1>1, <1>2, <2>6, <3>1
    <3>4. Follows(st, r) /\ ~r.d.done
      BY <1>1, <1>2, <3>1, <3>2 DEF Follows
    <3> QED BY <3>3, <3>4 DEF r
  <2> QED BY <2>2, <2>5, <2>6 DEF more
<1> QED BY <1>5, <1>6

(* One line of a text.                                                     *)
LEMMA ReleaseFit ==
    ASSUME NEW st, Ready(st), NEW line \in TextLines, st.d.done => line.what = "blank"
    PROVE  LET r == release(st, line) IN
           /\ Follows(st, r)
           /\ r.ok => /\ r.d.done => st.d.done \/ line.what = "done"
                      /\ (line.what = "chunk" /\ line.usage # None) =>
                            usage_total(line.usage) <= r.d.usage
<1>1. st.ok /\ line.what \in {"blank", "done", "garbled", "chunk"}
  BY DEF Ready, TextLines
<1>2. CASE line.what = "blank"
  <2>1. release(st, line) = st
    BY <1>1, <1>2 DEF release
  <2> QED BY <1>2, <2>1, StayFit
<1>3. CASE line.what = "done"
  <2>1. release(st, line) = ReleaseDone(st)
    BY <1>1, <1>3 DEF release
  <2> QED BY <1>3, <2>1, DoneFit
<1>4. CASE line.what = "garbled"
  <2>1. release(st, line) = Fail(st)
    BY <1>1, <1>4 DEF release
  <2> QED BY <1>4, <2>1, StayFit
<1>5. CASE line.what = "chunk"
  BY <1>5, ChunkFit
<1> QED BY <1>1, <1>2, <1>3, <1>4, <1>5

(* A sealed text, whose lines the instance put in their order.             *)
LEMMA TextFit ==
    ASSUME NEW st, Ready(st), NEW text \in Sealed, st.d.done => Blank(text)
    PROVE  LET r == ReleaseText(st, text) IN
           Follows(st, r) /\ (r.ok => \A u \in Usages(text) : u <= r.d.usage)
<1>1. /\ text \in Seq(TextLines) /\ Len(text) \in 0 .. 2 /\ DOMAIN text = 1 .. Len(text)
      /\ \A i \in DOMAIN text : text[i] \in TextLines
      /\ \A i, j \in DOMAIN text : i < j /\ text[i].what = "done" => text[j].what = "blank"
  <2>1. /\ text \in Seq(TextLines) /\ Len(text) <= 2
        /\ \A i, j \in DOMAIN text : i < j /\ text[i].what = "done" => text[j].what = "blank"
    BY ExchangeAssumption
  <2>2. Len(text) \in Nat /\ DOMAIN text = 1 .. Len(text)
    BY <2>1
  <2>4. Len(text) \in 0 .. 2
    BY <2>1, <2>2
  <2>3. \A i \in DOMAIN text : text[i] \in TextLines
    BY <2>1
  <2> QED BY <2>1, <2>2, <2>3, <2>4
<1>2. st.d.usage \in Nat
  BY DEF Ready, States, Decryptors
<1>u. ASSUME NEW top, \A i \in DOMAIN text :
               (text[i].what = "chunk" /\ text[i].usage # None) => usage_total(text[i].usage) <= top
      PROVE  \A u \in Usages(text) : u <= top
  BY <1>u DEF Usages
<1>3. CASE Len(text) = 0
  <2>1. ReleaseText(st, text) = st /\ Usages(text) = {}
    BY <1>1, <1>3 DEF ReleaseText, Usages
  <2> QED BY <2>1, StayFit
<1> DEFINE a == release(st, text[1])
<1>4. ASSUME 1 \in DOMAIN text
      PROVE  /\ Follows(st, a)
             /\ a.ok => /\ a.d.done => st.d.done \/ text[1].what = "done"
                        /\ (text[1].what = "chunk" /\ text[1].usage # None) =>
                              usage_total(text[1].usage) <= a.d.usage
  <2>1. text[1] \in TextLines /\ (st.d.done => text[1].what = "blank")
    BY <1>1, <1>4 DEF Blank
  <2> QED BY <2>1, ReleaseFit
<1>5. CASE Len(text) = 1
  <2>1. ReleaseText(st, text) = a /\ 1 \in DOMAIN text /\ \A i \in DOMAIN text : i = 1
    BY <1>1, <1>5 DEF ReleaseText
  <2> HIDE DEF a
  <2> QED BY <1>4, <1>u, <2>1
<1>6. CASE Len(text) = 2
  <2> DEFINE b == release(a, text[2])
  <2>1. /\ ReleaseText(st, text) = b /\ 1 \in DOMAIN text /\ 2 \in DOMAIN text
        /\ \A i \in DOMAIN text : i = 1 \/ i = 2
    BY <1>1, <1>6 DEF ReleaseText
  <2>2. Follows(st, a) /\ text[2] \in TextLines
    BY <1>1, <1>4, <2>1
  <2>3. CASE ~a.ok
    <3>1. b = a
      BY <2>3 DEF release
    <3> HIDE DEF a, b
    <3> QED BY <2>1, <2>2, <2>3, <3>1
  <2>4. CASE a.ok
    <3>1. Ready(a)
      BY <2>2, <2>4 DEF Follows, Ready
    <3>2. a.d.done => text[2].what = "blank"
      BY <1>1, <1>4, <2>1, <2>4 DEF Blank
    <3>3. /\ Follows(a, b)
          /\ b.ok => ((text[2].what = "chunk" /\ text[2].usage # None) =>
                        usage_total(text[2].usage) <= b.d.usage)
      BY <2>2, <3>1, <3>2, ReleaseFit
    <3>4. a.d.usage \in Nat /\ b.d.usage \in Nat
      BY <2>2, <3>3 DEF Follows, States, Decryptors
    <3>5. Follows(st, b)
      BY <1>2, <2>2, <3>3, <3>4 DEF Follows
    <3>6. ASSUME b.ok, NEW i \in DOMAIN text, text[i].what = "chunk", text[i].usage # None
          PROVE  usage_total(text[i].usage) <= b.d.usage
      <4>1. CASE i = 1
        <5>1. text[1].usage \in Counts
          BY <1>1, <2>1, <3>6, <4>1 DEF TextLines
        <5>2. usage_total(text[1].usage) \in Nat
          BY <5>1, TotalFit
        <5>3. usage_total(text[1].usage) <= a.d.usage /\ a.d.usage <= b.d.usage
          BY <1>4, <2>1, <2>4, <3>3, <3>6, <4>1 DEF Follows
        <5> HIDE DEF a, b
        <5> QED BY <3>4, <4>1, <5>2, <5>3
      <4>2. CASE i = 2
        BY <3>3, <3>6, <4>2
      <4> QED BY <2>1, <3>6, <4>1, <4>2
    <3> HIDE DEF a, b
    <3> QED BY <1>u, <2>1, <3>5, <3>6
  <2> QED BY <2>3, <2>4
<1> QED BY <1>1, <1>3, <1>5, <1>6

(* One line of the relay.                                                  *)
LEMMA EventFit ==
    ASSUME NEW st, Ready(st), tried \in Nat, NEW line \in Lines
    PROVE  LET r == relay_event(st, line) IN
           /\ r \in States /\ st.d.usage <= r.d.usage
           /\ st.d.key # None => r.d.key = st.d.key
           /\ r.ok => /\ HeldFit(r.d) /\ StreamFit(r.d, r.o)
                      /\ r.o = st.o \/ r.d.key = tried
                      /\ line.what = "e2e" => \A u \in Usages(line.text) : u <= r.d.usage
<1> DEFINE r == relay_event(st, line)
<1>1. st \in States /\ st.ok /\ st.d \in Decryptors /\ st.o \in Seq(Items) /\ st.d.usage \in Nat
  BY DEF Ready, States, Decryptors
<1>2. ASSUME r = st \/ r = Fail(st), line.what # "e2e" \/ r = Fail(st)
      PROVE  /\ r \in States /\ st.d.usage <= r.d.usage
             /\ st.d.key # None => r.d.key = st.d.key
             /\ r.ok => /\ HeldFit(r.d) /\ StreamFit(r.d, r.o)
                        /\ r.o = st.o \/ r.d.key = tried
                        /\ line.what = "e2e" => \A u \in Usages(line.text) : u <= r.d.usage
  <2>1. Follows(st, r) /\ (r = st \/ ~r.ok) /\ (r = Fail(st) => ~r.ok)
    BY <1>2, StayFit
  <2> HIDE DEF r
  <2> QED BY <1>2, <2>1 DEF Follows, Ready
<1>3. CASE line.what = "init"
  <2>1. line.key \in Nat
    BY <1>3 DEF Lines
  <2>2. r = RelayInit(st, line)
    BY <1>3 DEF relay_event
  <2>3. CASE st.d.key # None
    BY <1>2, <1>3, <2>2, <2>3 DEF RelayInit
  <2>4. CASE st.d.key = None
    <3>1. r = [st EXCEPT !.d.key = line.key]
      BY <2>2, <2>4 DEF RelayInit
    <3> HIDE DEF r
    <3>2. /\ r \in States /\ r.d.usage = st.d.usage /\ r.d.held = st.d.held /\ r.o = st.o
          /\ r.d.done = st.d.done
      BY <1>1, <2>1, <3>1 DEF States, Decryptors
    <3>3. HeldFit(r.d) /\ StreamFit(r.d, r.o)
      BY <3>2 DEF Ready, HeldFit, StreamFit
    <3> USE DEF r
    <3> QED BY <1>1, <1>3, <2>4, <3>2, <3>3
  <2> QED BY <2>3, <2>4
<1>4. CASE line.what = "e2e"
  <2>1. line.text \in Sealed
    BY <1>4 DEF Lines
  <2>2. r = RelayChunk(st, line)
    BY <1>4 DEF relay_event
  <2>3. CASE st.d.key # tried \/ line.key # tried \/ (st.d.done /\ ~Blank(line.text))
    BY <1>2, <2>2, <2>3 DEF RelayChunk
  <2>4. CASE ~(st.d.key # tried \/ line.key # tried \/ (st.d.done /\ ~Blank(line.text)))
    <3>1. r = ReleaseText(st, line.text) /\ st.d.key = tried /\ (st.d.done => Blank(line.text))
      BY <2>2, <2>4 DEF RelayChunk
    <3>2. Follows(st, r) /\ (r.ok => \A u \in Usages(line.text) : u <= r.d.usage)
      BY <2>1, <3>1, TextFit
    <3> HIDE DEF r
    <3>3. /\ r \in States /\ st.d.usage <= r.d.usage /\ r.d.key = st.d.key
          /\ r.ok => HeldFit(r.d) /\ StreamFit(r.d, r.o)
      BY <3>2 DEF Follows
    <3> USE DEF r
    <3> QED BY <3>1, <3>2, <3>3
  <2> QED BY <2>3, <2>4
<1>5. CASE line.what \in {"done", "error", "other"}
  <2>1. r = st \/ r = Fail(st)
    BY <1>5 DEF relay_event
  <2> QED BY <1>2, <1>5, <2>1
<1>6. line.what \in {"init", "e2e", "done", "error", "other"}
  BY DEF Lines
<1> QED BY <1>3, <1>4, <1>5, <1>6

(* Before anything has been decrypted.                                     *)
LEMMA ExchangeInitInv == ExchangeInit => ExchangeInv
BY DEF ExchangeInit, ExchangeInv, ReleasedTrue, EndedAs, NewDecryptor, Decryptors

(* The buyer is answered without anything having been released.            *)
LEMMA AnswerInv ==
    ASSUME ExchangeInv, at \in {"prepare", "ticket", "invoke", "json"}, tried' \in Nat,
           UNCHANGED <<dec, output, released, seen, streaming>>,
           \/ at' \in {"ticket", "invoke"} /\ UNCHANGED ending
           \/ at' = "json" /\ ~streaming /\ UNCHANGED ending
           \/ at' = "stream" /\ streaming /\ UNCHANGED ending
           \/ at' = "ended" /\ ending'.kind # "clean"
    PROVE  ExchangeInv'
<1>1. /\ released' = <<>> /\ output' = <<>> /\ dec' = NewDecryptor /\ seen' = {}
      /\ dec' \in Decryptors /\ streaming' \in BOOLEAN /\ released' \in Seq(Items)
      /\ output' \in Seq(Items)
  BY DEF ExchangeInv
<1>2. ReleasedTrue'
  BY <1>1 DEF ExchangeInv, ReleasedTrue, EndedAs
<1>3. Streaming'
  <2>1. ~dec'.done /\ dec'.held = None
    BY <1>1 DEF NewDecryptor
  <2> QED BY <1>1, <2>1 DEF Streaming, HeldFit, StreamFit, Open
<1> QED BY <1>1, <1>2, <1>3 DEF ExchangeInv

(* The kinds of an answer.                                                 *)
LEMMA AnsweredFit ==
    ASSUME NEW e, Answered(e)
    PROVE  at' = "ended" /\ ending'.kind = e.kind
BY DEF Answered

(* The request is checked.                                                 *)
LEMMA PrepareInv == ExchangeInv /\ Prepare => ExchangeInv'
<1> SUFFICES ASSUME ExchangeInv, Prepare PROVE ExchangeInv'
  OBVIOUS
<1>1. at = "prepare" /\ Stays /\ UNCHANGED tried
  BY DEF Prepare
<1>2. PICK i \in DOMAIN Faults :
        IF prepare(Faults[i]) = None THEN at' = "ticket" /\ UNCHANGED ending
        ELSE Answered(prepare(Faults[i]))
  BY DEF Prepare
<1>3. prepare(Faults[i]) = None \/ prepare(Faults[i]) \in {MissingCredential, BadRequest}
  BY DEF prepare
<1>4. \/ at' = "ticket" /\ UNCHANGED ending
      \/ at' = "ended" /\ ending'.kind # "clean"
  BY <1>2, <1>3, AnsweredFit DEF MissingCredential, BadRequest
<1> QED BY <1>1, <1>4, AnswerInv DEF Stays, ExchangeInv

(* A ticket is issued, or the reason why not.                              *)
LEMMA TicketInv == ExchangeInv /\ Ticket => ExchangeInv'
<1> SUFFICES ASSUME ExchangeInv, Ticket PROVE ExchangeInv'
  OBVIOUS
<1>1. at = "ticket" /\ Stays
  BY DEF Ticket
<1>2. \A e \in {Unavailable, Rejected, Upstream(402), Upstream(429)} : e.kind # "clean"
  BY DEF Unavailable, Rejected, Upstream
<1>3. /\ \/ at' = "invoke" /\ UNCHANGED ending
         \/ at' = "ended" /\ ending'.kind # "clean"
      /\ tried' \in {tried, tried + 1}
  <2>1. CASE at' = "invoke" /\ tried' = tried + 1 /\ UNCHANGED ending
    BY <2>1
  <2>2. ASSUME NEW e \in {Unavailable, Rejected, Upstream(402), Upstream(429)}, Answered(e),
               UNCHANGED tried
        PROVE  at' = "ended" /\ ending'.kind # "clean" /\ tried' = tried
    BY <1>2, <2>2, AnsweredFit
  <2> QED BY <2>1, <2>2 DEF Ticket
<1>4. tried' \in Nat
  BY <1>3 DEF ExchangeInv
<1> QED BY <1>1, <1>3, <1>4, AnswerInv DEF Stays

(* The request is offered to the instance.                                 *)
LEMMA InvokeInv == ExchangeInv /\ Invoke => ExchangeInv'
<1> SUFFICES ASSUME ExchangeInv, Invoke PROVE ExchangeInv'
  OBVIOUS
<1>1. at = "invoke" /\ Stays /\ UNCHANGED tried /\ tried' \in Nat /\ streaming \in BOOLEAN
  BY DEF Invoke, ExchangeInv
<1>2. \A e \in {Unavailable, Upstream(401), Upstream(402), Upstream(500), Upstream(429)} :
        e.kind # "clean"
  BY DEF Unavailable, Upstream
<1>3. \/ at' = "ticket" /\ UNCHANGED ending
      \/ at' = "json" /\ ~streaming /\ UNCHANGED ending
      \/ at' = "stream" /\ streaming /\ UNCHANGED ending
      \/ at' = "ended" /\ ending'.kind # "clean"
  <2>1. CASE at' = (IF streaming THEN "stream" ELSE "json") /\ UNCHANGED ending
    BY <1>1, <2>1
  <2>2. CASE IF tried < MaxInstances THEN at' = "ticket" /\ UNCHANGED ending
             ELSE Answered(Upstream(429))
    BY <1>2, <2>2, AnsweredFit
  <2>3. CASE \E e \in {Unavailable, Upstream(401), Upstream(402), Upstream(500)} : Answered(e)
    BY <1>2, <2>3, AnsweredFit
  <2> QED BY <2>1, <2>2, <2>3 DEF Invoke
<1> QED BY <1>1, <1>3, AnswerInv DEF Stays

(* A whole completion is released as it is, and only if every check passes. *)
LEMMA CompleteInv == ExchangeInv /\ Complete => ExchangeInv'
<1> SUFFICES ASSUME ExchangeInv, Complete PROVE ExchangeInv'
  OBVIOUS
<1>1. PICK r \in [key : 0 .. tried, size : BOOLEAN, gzip : BOOLEAN, model : BOOLEAN] :
        IF complete_response(r)
        THEN Answered(Clean) /\ released' = <<[what |-> "completion", key |-> r.key]>>
        ELSE Answered(BadResponse) /\ UNCHANGED released
  BY DEF Complete
<1>2. at = "json" /\ ~streaming /\ UNCHANGED <<streaming, tried, dec, output, relayed, seen>>
  BY DEF Complete, ExchangeInv
<1>3. CASE ~complete_response(r)
  <2>1. Answered(BadResponse) /\ UNCHANGED released
    BY <1>1, <1>3
  <2>2. at' = "ended" /\ ending'.kind # "clean"
    BY <2>1, AnsweredFit DEF BadResponse
  <2> QED BY <1>2, <2>1, <2>2, AnswerInv DEF ExchangeInv
<1>4. CASE complete_response(r)
  <2> DEFINE x == [what |-> "completion", key |-> r.key]
  <2>1. Answered(Clean) /\ released' = <<x>>
    BY <1>1, <1>4
  <2>2. at' = "ended" /\ ending'.kind = "clean" /\ ending' # None
    <3>1. at' = "ended" /\ ending' = [kind |-> "clean", code |-> 200, marker |-> None]
      BY <2>1 DEF Answered, Clean, account_marker
    <3>2. ending' \in [kind : {"clean", "broken"}, code : {200}, marker : {None}]
      BY <3>1
    <3> QED BY <3>1, <3>2, ExchangeAssumption
  <2>3. x \in Items /\ x.what = "completion" /\ x.key = tried
    BY <1>4 DEF Items, complete_response, ExchangeInv
  <2> HIDE DEF x
  <2>4. released' \in Seq(Items) /\ \A i \in DOMAIN released' : released'[i] = x
    BY <2>1, <2>3
  <2>5. ReleasedTrue'
    BY <1>2, <2>2, <2>3, <2>4 DEF ReleasedTrue, EndedAs
  <2> QED BY <1>2, <2>2, <2>4, <2>5 DEF ExchangeInv
<1> QED BY <1>3, <1>4

(* While the stream runs, and when it is over, what was released is true.  *)
LEMMA StreamTrue ==
    ASSUME NEW s \in Seq(Items), NEW top \in Nat, NEW S \in SUBSET Nat, \A u \in S : u <= top,
           Open(s) \/ Closed(s, top)
    PROVE  /\ Closed(s, top) => Len(s) > 1 /\ s[Len(s)].what = "done"
           /\ \A i \in DOMAIN s :
                /\ s[i].what # "completion"
                /\ s[i].what = "done" => i = Len(s) /\ i > 1 /\ s[i - 1].what = "usage"
                /\ s[i].what = "usage" =>
                      /\ i = Len(s) - 1 /\ require_billable(s[i].usage)
                      /\ \A u \in S : u <= usage_total(s[i].usage)
<1>1. Closed(s, top) => Len(s) > 1 /\ s[Len(s)].what = "done"
  BY DEF Closed
<1> QED BY <1>1, ItemsFit

(* The stream goes on with what this leaves.                               *)
LEMMA GoesOn ==
    ASSUME ExchangeInv, at = "stream", UNCHANGED <<at, streaming, tried, ending>>,
           dec' \in Decryptors, seen' \subseteq Nat, \A u \in seen' : u <= dec'.usage,
           released' \in Seq(Items), output' \in Seq(Items), HeldFit(dec'),
           StreamFit(dec, output)', released' # <<>> \/ output' # <<>> => dec'.key = tried
    PROVE  ExchangeInv'
<1>1. at' = "stream" /\ streaming' /\ ending' = None /\ tried' = tried /\ dec'.usage \in Nat
  BY DEF ExchangeInv, Decryptors
<1>2. Open(released') \/ Closed(released', dec'.usage)
  BY DEF StreamFit
<1>3. \A i \in DOMAIN released' :
        /\ released'[i].what # "completion"
        /\ released'[i].what = "done" =>
              i = Len(released') /\ i > 1 /\ released'[i - 1].what = "usage"
        /\ released'[i].what = "usage" =>
              /\ i = Len(released') - 1 /\ require_billable(released'[i].usage)
              /\ \A u \in seen' : u <= usage_total(released'[i].usage)
  BY <1>1, <1>2, StreamTrue
<1>4. \A i \in DOMAIN released' : dec'.key = tried'
  BY <1>1
<1>5. ReleasedTrue'
  BY <1>1, <1>3, <1>4 DEF ReleasedTrue, EndedAs
<1>6. Streaming'
  BY <1>1 DEF Streaming, HeldFit
<1> QED BY <1>1, <1>5, <1>6 DEF ExchangeInv

(* The stream is over: cleanly only if what was released is closed.        *)
LEMMA IsOver ==
    ASSUME ExchangeInv, at = "stream", at' = "ended",
           UNCHANGED <<streaming, tried, released, seen>>,
           dec' \in Decryptors, dec.key # None => dec'.key = dec.key, output' \in Seq(Items),
           ending'.kind \in {"clean", "broken"},
           ending'.kind = "clean" => Closed(released, dec.usage)
    PROVE  ExchangeInv'
<1>1. Streaming /\ dec \in Decryptors /\ dec.usage \in Nat /\ tried \in Nat /\ seen \subseteq Nat
  BY DEF ExchangeInv, Decryptors
<1>2. released \in Seq(Items) /\ (Open(released) \/ Closed(released, dec.usage))
  BY <1>1 DEF ExchangeInv, Streaming, StreamFit
<1>3. /\ Closed(released, dec.usage) =>
            Len(released) > 1 /\ released[Len(released)].what = "done"
      /\ \A i \in DOMAIN released :
           /\ released[i].what # "completion"
           /\ released[i].what = "done" =>
                 i = Len(released) /\ i > 1 /\ released[i - 1].what = "usage"
           /\ released[i].what = "usage" =>
                 /\ i = Len(released) - 1 /\ require_billable(released[i].usage)
                 /\ \A u \in seen : u <= usage_total(released[i].usage)
  BY <1>1, <1>2, StreamTrue DEF Streaming
<1>4. ASSUME NEW i \in DOMAIN released PROVE dec'.key = tried
  <2>1. released # <<>>
    OBVIOUS
  <2>2. dec.key = tried /\ dec.key # None
    BY <1>1, <2>1, ExchangeAssumption DEF Streaming
  <2> QED BY <2>2
<1>5. Len(released) \in Nat /\ Len(released) - 0 = Len(released)
  BY <1>2
<1>6. ReleasedTrue'
  BY <1>3, <1>4, <1>5 DEF ReleasedTrue, EndedAs, FromEnd
<1> QED BY <1>1, <1>2, <1>6 DEF ExchangeInv

(* The usages that a text reports are numbers.                             *)
LEMMA UsagesFit ==
    ASSUME NEW text \in Sealed
    PROVE  Usages(text) \subseteq Nat
<1>1. text \in Seq(TextLines)
  BY ExchangeAssumption
<1>2. \A i \in DOMAIN text : text[i] \in TextLines
  BY <1>1
<1>3. ASSUME NEW i \in DOMAIN text, text[i].what = "chunk", text[i].usage # None
      PROVE  usage_total(text[i].usage) \in Nat
  BY <1>2, <1>3, TotalFit DEF TextLines
<1> QED BY <1>3 DEF Usages

(* A line of the relay, whole.                                             *)
LEMMA LineInv == ExchangeInv /\ Line => ExchangeInv'
<1> SUFFICES ASSUME ExchangeInv, Line PROVE ExchangeInv'
  OBVIOUS
<1>1. PICK line \in Lines :
        LET st == relay_event(State, line) IN
        /\ dec' = [st.d EXCEPT !.pending = 0]
        /\ seen' = IF st.ok /\ line.what = "e2e" THEN seen \union Usages(line.text) ELSE seen
        /\ IF st.ok THEN output' = st.o /\ UNCHANGED <<at, ending>>
           ELSE Answered(Broken) /\ output' = <<>>
  BY DEF Line
<1>2. at = "stream" /\ UNCHANGED <<streaming, tried, released>>
  BY DEF Line
<1>3. Streaming /\ dec \in Decryptors /\ output \in Seq(Items) /\ released \in Seq(Items)
  BY <1>2 DEF ExchangeInv
<1>4. tried \in Nat /\ seen \subseteq Nat /\ dec.usage \in Nat
  BY <1>3 DEF ExchangeInv, Decryptors
<1>5. Ready(State) /\ State.d = dec /\ State.o = output
  BY <1>3 DEF Ready, State, States, Streaming
<1> DEFINE r == relay_event(State, line)
<1>6. /\ r \in States /\ dec.usage <= r.d.usage
      /\ dec.key # None => r.d.key = dec.key
      /\ r.ok => /\ HeldFit(r.d) /\ StreamFit(r.d, r.o)
                 /\ r.o = output \/ r.d.key = tried
                 /\ line.what = "e2e" => \A u \in Usages(line.text) : u <= r.d.usage
  BY <1>4, <1>5, EventFit
<1>7. /\ dec' = [r.d EXCEPT !.pending = 0]
      /\ seen' = IF r.ok /\ line.what = "e2e" THEN seen \union Usages(line.text) ELSE seen
      /\ IF r.ok THEN output' = r.o /\ UNCHANGED <<at, ending>>
         ELSE Answered(Broken) /\ output' = <<>>
  BY <1>1
<1> HIDE DEF r
<1>8. /\ dec' \in Decryptors /\ dec'.key = r.d.key /\ dec'.usage = r.d.usage
      /\ dec'.held = r.d.held /\ dec'.done = r.d.done /\ r.d.usage \in Nat /\ r.o \in Seq(Items)
  BY <1>6, <1>7 DEF States, Decryptors
<1>9. CASE r.ok
  <2>1. HeldFit(dec') /\ StreamFit(dec, output)'
    BY <1>2, <1>6, <1>7, <1>8, <1>9 DEF HeldFit, StreamFit
  <2>2. released' # <<>> \/ output' # <<>> => dec'.key = tried
    BY <1>2, <1>3, <1>4, <1>6, <1>7, <1>8, <1>9, ExchangeAssumption DEF Streaming
  <2>3. \A u \in seen : u <= dec'.usage
    BY <1>3, <1>4, <1>6, <1>8 DEF Streaming
  <2>4. seen' \subseteq Nat /\ \A u \in seen' : u <= dec'.usage
    <3>1. CASE line.what = "e2e"
      <4>1. line.text \in Sealed
        BY <3>1 DEF Lines
      <4> QED BY <1>4, <1>6, <1>7, <1>8, <1>9, <2>3, <3>1, <4>1, UsagesFit
    <3>2. CASE line.what # "e2e"
      BY <1>4, <1>7, <2>3, <3>2
    <3> QED BY <3>1, <3>2
  <2> QED BY <1>2, <1>3, <1>7, <1>8, <1>9, <2>1, <2>2, <2>4, GoesOn
<1>10. CASE ~r.ok
  <2>1. at' = "ended" /\ ending'.kind = "broken" /\ output' = <<>> /\ seen' = seen
    BY <1>7, <1>10, AnsweredFit DEF Broken
  <2>2. output' \in Seq(Items)
    BY <2>1
  <2> QED BY <1>2, <1>6, <1>8, <2>1, <2>2, IsOver
<1> QED BY <1>9, <1>10

(* A chunk that ends inside a line.                                        *)
LEMMA PartInv == ExchangeInv /\ Part => ExchangeInv'
<1> SUFFICES ASSUME ExchangeInv, Part PROVE ExchangeInv'
  OBVIOUS
<1>1. /\ at = "stream" /\ dec' = [dec EXCEPT !.pending = @ + 1]
      /\ UNCHANGED <<streaming, tried, released, relayed, seen>>
      /\ \/ Answered(Broken) /\ output' = <<>>
         \/ UNCHANGED <<at, ending, output>>
  BY DEF Part
<1>2. Streaming /\ dec \in Decryptors /\ output \in Seq(Items) /\ released \in Seq(Items)
  BY <1>1 DEF ExchangeInv
<1>3. /\ dec' \in Decryptors /\ dec'.key = dec.key /\ dec'.usage = dec.usage
      /\ dec'.held = dec.held /\ dec'.done = dec.done
  BY <1>1, <1>2 DEF Decryptors
<1>4. CASE Answered(Broken) /\ output' = <<>>
  <2>1. at' = "ended" /\ ending'.kind = "broken" /\ output' \in Seq(Items)
    BY <1>4, AnsweredFit DEF Broken
  <2> QED BY <1>1, <1>3, <2>1, IsOver
<1>5. CASE UNCHANGED <<at, ending, output>>
  <2>1. HeldFit(dec') /\ StreamFit(dec, output)'
    BY <1>1, <1>2, <1>3, <1>5 DEF Streaming, HeldFit, StreamFit
  <2>2. seen' \subseteq Nat /\ (\A u \in seen' : u <= dec'.usage)
    BY <1>1, <1>2, <1>3 DEF Streaming, ExchangeInv
  <2>3. released' # <<>> \/ output' # <<>> => dec'.key = tried
    BY <1>1, <1>2, <1>3, <1>5 DEF Streaming
  <2> QED BY <1>1, <1>2, <1>3, <1>5, <2>1, <2>2, <2>3, GoesOn
<1> QED BY <1>1, <1>4, <1>5

(* feed returns, and its output is passed on.                              *)
LEMMA FlushInv == ExchangeInv /\ Flush => ExchangeInv'
<1> SUFFICES ASSUME ExchangeInv, Flush PROVE ExchangeInv'
  OBVIOUS
<1>1. /\ at = "stream" /\ output # <<>> /\ released' = released \o output /\ output' = <<>>
      /\ UNCHANGED <<at, streaming, tried, dec, relayed, seen, ending>>
  BY DEF Flush
<1>2. Streaming /\ dec \in Decryptors /\ output \in Seq(Items) /\ released \in Seq(Items)
  BY <1>1 DEF ExchangeInv
<1>3. Open(released) /\ (IF dec.done THEN Closed(output, dec.usage) ELSE Open(output))
  BY <1>1, <1>2 DEF Streaming, StreamFit
<1>4. /\ released' \in Seq(Items) /\ output' \in Seq(Items)
      /\ IF dec.done THEN Closed(released', dec.usage) ELSE Open(released')
  BY <1>1, <1>2, <1>3, OpenJoins
<1>5. Open(output')
  BY <1>1 DEF Open
<1>6. StreamFit(dec, output)' /\ HeldFit(dec')
  BY <1>1, <1>2, <1>4, <1>5 DEF StreamFit, Streaming, HeldFit
<1>7. dec' \in Decryptors /\ seen' \subseteq Nat /\ (\A u \in seen' : u <= dec'.usage)
      /\ (released' # <<>> \/ output' # <<>> => dec'.key = tried)
  BY <1>1, <1>2 DEF Streaming, ExchangeInv
<1> QED BY <1>1, <1>4, <1>6, <1>7, GoesOn

(* The body ends or breaks off.                                            *)
LEMMA StreamEndsInv == ExchangeInv /\ StreamEnds => ExchangeInv'
<1> SUFFICES ASSUME ExchangeInv, StreamEnds PROVE ExchangeInv'
  OBVIOUS
<1>1. /\ at = "stream" /\ output = <<>> /\ Stays /\ UNCHANGED tried
      /\ \/ dec.done /\ Answered(Clean)
         \/ Answered(Broken)
  BY DEF StreamEnds
<1>2. Streaming /\ dec \in Decryptors /\ output \in Seq(Items) /\ ~Closed(output, dec.usage)
  BY <1>1 DEF ExchangeInv, Closed
<1>3. dec.done => Closed(released, dec.usage)
  BY <1>2 DEF Streaming, StreamFit
<1>4. /\ at' = "ended" /\ ending'.kind \in {"clean", "broken"}
      /\ ending'.kind = "clean" => dec.done
  BY <1>1, AnsweredFit DEF Clean, Broken
<1> QED BY <1>1, <1>2, <1>3, <1>4, IsOver DEF Stays

(* Until it has ended or been put out whole, a stream is open; what was    *)
(* held for its end is billable, and nothing decrypted counts above it.    *)
THEOREM ExchangeInvariance == ExchangeSpec => []ExchangeInv
<1>1. ExchangeInv /\ [ExchangeNext]_exchangeVars => ExchangeInv'
  <2> SUFFICES ASSUME ExchangeInv, UNCHANGED exchangeVars PROVE ExchangeInv'
    BY PrepareInv, TicketInv, InvokeInv, CompleteInv, LineInv, PartInv, FlushInv, StreamEndsInv
       DEF ExchangeNext
  <2>1. UNCHANGED <<at, streaming, tried, dec, output, released, relayed, seen, ending>>
    BY DEF exchangeVars
  <2>2. Streaming' <=> Streaming
    BY <2>1 DEF Streaming, StreamFit
  <2>3. ReleasedTrue' <=> ReleasedTrue
    BY <2>1 DEF ReleasedTrue, EndedAs, FromEnd
  <2> QED BY <2>1, <2>2, <2>3 DEF ExchangeInv
<1> QED BY <1>1, ExchangeInitInv, PTL DEF ExchangeSpec

(***************************************************************************)
(* However the relay loses, repeats or reorders what the instance seals,   *)
(* for every set of texts and any number of lines: the buyer gets the      *)
(* usage and [DONE] once, together and last, the usage is the largest and  *)
(* billable, and only then does the stream count as complete.              *)
(***************************************************************************)
THEOREM ReleasedIsTrue == ExchangeSpec => []ReleasedTrue
<1>1. ExchangeInv => ReleasedTrue
  BY DEF ExchangeInv
<1> QED BY <1>1, ExchangeInvariance, PTL

-----------------------------------------------------------------------------
(* The cache of the Bedrock bindings                                       *)

(* A row and a snapshot of rows are not None.                              *)
LEMMA RowFacts ==
    /\ None \notin Row
    /\ \A r \in Row : r.revision \in 1 .. MaxRevision
BY NoneAssumption DEF Row

(* What the fields of a snapshot are.                                      *)
LEMMA SnapshotFacts ==
    /\ None \notin Snapshot
    /\ \A s \in Snapshot : /\ s.revision \in 0 .. MaxRevision
                           /\ s.bindings \in [Models -> Row \cup {None}]
BY NoneAssumption DEF Snapshot, Row

Task == [pc : {"plan", "sleep", "fetch", "landed"}, delay : 0 .. MaxDelay,
         completedAt : Maybe(Nat), nextAttempt : Maybe(Nat),
         generation : 0 .. MaxGeneration, pending : BOOLEAN,
         demandAt : Maybe(Nat), wakeAt : Nat, ok : BOOLEAN]

Request == [pc : Waiting \cup {"idle", "look", "subscribe", "again", "bound"},
            model : Maybe(Models), revision : 0 .. MaxRevision, generation : 0 .. MaxGeneration,
            deadline : Nat, until : Nat, seen : BOOLEAN]

(* What the type of a task or a request leaves open.                       *)
Bounded ==
    /\ task.pc \in {"fetch", "landed"} => task.generation < MaxGeneration
    /\ task.delay = 0 \/ task.delay >= InitialDelay
    /\ \A q \in Requests : req[q].pc # "idle" => req[q].model \in Models

TypeInv == TypeOK /\ Bounded

(* The delays of the refresher.                                            *)
LEMMA DelayType ==
    ASSUME NEW d \in 0 .. MaxDelay, d = 0 \/ d >= InitialDelay
    PROVE  /\ NextDelay(d) \in InitialDelay .. MaxDelay
           /\ \A e \in Delays(NextDelay(d)) : e \in Nat /\ e >= MinInterval
           /\ \A e \in Delays(0) : e \in Nat /\ e >= MinInterval
<1>1. NextDelay(d) \in InitialDelay .. MaxDelay
    BY DelaysAssumption DEF NextDelay, EarlierOf
<1>2. ASSUME NEW e \in Delays(NextDelay(d)) PROVE e \in Nat /\ e >= MinInterval
    BY <1>1, DelaysAssumption DEF Delays
<1>3. \A e \in Delays(0) : e \in Nat /\ e >= MinInterval
    BY DelaysAssumption DEF Delays
<1> QED BY <1>1, <1>2, <1>3

(* Requests keep their type when the status channel changes.               *)
LEMMA SeenType ==
    ASSUME TypeInv, NEW s \in Status, SendStatus(s)
    PROVE  /\ status' \in Status
           /\ req' \in [Requests -> Request]
           /\ \A q \in Requests : req'[q].pc = req[q].pc /\ req'[q].model = req[q].model
<1>1. req \in [Requests -> Request]
    BY DEF TypeInv, TypeOK, Request
<1>2. ASSUME NEW q \in Requests
      PROVE  /\ req'[q] \in Request
             /\ req'[q].pc = req[q].pc /\ req'[q].model = req[q].model
    BY <1>1 DEF SendStatus, Request
<1>3. req' = [q \in Requests |-> req'[q]]
    BY DEF SendStatus
<1> QED BY <1>2, <1>3 DEF SendStatus

(***************************************************************************)
(* Type correctness, one step per action.                                  *)
(***************************************************************************)

(* A step of one request that keeps to its type.                           *)
LEMMA OneRequest ==
    ASSUME TypeInv, NEW q \in Requests, NEW r \in Request, SetReq(q, r),
           r.pc # "idle" => r.model \in Models
    PROVE  /\ req' \in [Requests -> Request]
           /\ \A p \in Requests : req'[p].pc # "idle" => req'[p].model \in Models
<1>1. req \in [Requests -> Request]
    BY DEF TypeInv, TypeOK, Request
<1> QED BY <1>1 DEF SetReq, TypeInv, Bounded

(* A request that is not there.                                            *)
LEMMA IdleRequest == NoRequest \in Request /\ NoRequest.pc = "idle"
BY DelaysAssumption DEF NoRequest, Request, Maybe

(* A request that is asked.                                                *)
LEMMA RequestFor ==
    ASSUME NEW m \in Models, NEW r \in 0 .. MaxRevision, NEW pc \in {"look", "again", "bound"}
    PROVE  LET new == [NoRequest EXCEPT !.pc = pc, !.model = m, !.revision = r]
           IN  new \in Request /\ new.model = m
<1>1. NoRequest \in Request
    BY IdleRequest
<1>2. m \in Maybe(Models)
    BY DEF Maybe
<1> QED BY <1>1, <1>2 DEF Request

(* A request that goes on, bound or to look again.                         *)
LEMMA ProceedType ==
    ASSUME TypeInv, NEW q \in Requests, req[q].pc # "idle", NEW pc \in {"again", "bound"}
    PROVE  Proceed(q, pc) \in Request /\ Proceed(q, pc).model \in Models
<1>1. req[q] \in Request
    BY DEF TypeInv, TypeOK, Request
<1>2. req[q].model \in Models /\ req[q].revision \in 0 .. MaxRevision
    BY <1>1 DEF TypeInv, Bounded, Request
<1> QED BY <1>2, RequestFor DEF Proceed

LEMMA LookAgainType ==
    ASSUME TypeInv, NEW q \in Requests, req[q].pc # "idle"
    PROVE  LookAgain(q) \in Request /\ LookAgain(q).model \in Models
BY ProceedType DEF LookAgain

(* Each step keeps the types.                                              *)
LEMMA TypeStep ==
    ASSUME TypeInv, [Next]_vars
    PROVE  TypeInv'
<1> USE DEF TypeInv
<1>r. req \in [Requests -> Request] /\ task \in Task
    BY DEF TypeOK, Request, Task
<1>1. CASE Plan
  <2>1. PeriodicAt \in Nat /\ DemandAt \in Nat
    BY <1>r, DelaysAssumption DEF PeriodicAt, DemandAt, LaterOf, Task, TypeOK, Maybe
  <2>2. Pending \in BOOLEAN
    <3>1. CASE nudge.seen
      BY <1>r, <3>1 DEF Pending, Task
    <3>2. CASE ~nudge.seen
      <4>1. Pending = (nudge.value >= task.generation)
        BY <3>2 DEF Pending
      <4> QED BY <4>1
    <3> QED BY <3>1, <3>2
  <2>3. task' \in Task /\ task'.pc = "sleep" /\ task'.delay = task.delay
    BY <1>r, <1>1, <2>1, <2>2 DEF Plan, Task, Maybe, EarlierOf
  <2> QED BY <1>1, <2>3 DEF Plan, TypeOK, Bounded, Task
<1>2. CASE Nudged
  <2>3. task' \in Task /\ task'.pc = "plan" /\ task'.delay = task.delay
    <3> DEFINE p == nudge.value >= task.generation
    <3>1. p \in BOOLEAN
      OBVIOUS
    <3>2. task' = [task EXCEPT !.pc = "plan", !.pending = p, !.demandAt = None, !.wakeAt = 0]
      BY <1>2 DEF Nudged
    <3> HIDE DEF p
    <3> QED BY <1>r, <3>1, <3>2 DEF Task, Maybe
  <2> QED BY <1>2, <2>3 DEF Nudged, TypeOK, Bounded, Task
<1>3. CASE Fetch
  <2>1. task' \in Task /\ task'.delay = task.delay /\ task'.generation < MaxGeneration
    BY <1>r, <1>3 DEF Fetch, Task, Maybe
  <2>2. [kind |-> "flight", generation |-> task.generation, until |-> now + Timeout] \in Status
    BY <1>r, DelaysAssumption DEF Status, Task, TypeOK
  <2>3. /\ status' \in Status
        /\ req' \in [Requests -> Request]
        /\ \A q \in Requests : req'[q].pc = req[q].pc /\ req'[q].model = req[q].model
    BY <1>3, <2>2, SeenType DEF Fetch
  <2> QED BY <1>3, <2>1, <2>3 DEF Fetch, TypeOK, Bounded, Task, Request
<1>4. CASE FetchFails
  <2>1. task' \in Task /\ task'.delay = task.delay /\ task'.generation = task.generation
    BY <1>r, <1>4 DEF FetchFails, Task
  <2> QED BY <1>4, <2>1 DEF FetchFails, TypeOK, Bounded, Task
<1>5. CASE Publish
  <2> DEFINE base == IF task.ok THEN 0 ELSE NextDelay(task.delay)
  <2> DEFINE g == task.generation + 1
  <2>1. PICK delay \in Delays(base) :
          /\ task' = [task EXCEPT
                 !.pc = "plan", !.delay = base, !.completedAt = now,
                 !.nextAttempt = now + delay, !.generation = g,
                 !.pending = nudge.value >= g, !.ok = FALSE]
          /\ SendStatus(IF task.ok
                 THEN [kind |-> "gap", generation |-> g, until |-> now + MinInterval]
                 ELSE [kind |-> "backoff", generation |-> g, until |-> now + delay])
    BY <1>5 DEF Publish
  <2>2. /\ task.delay \in 0 .. MaxDelay
        /\ task.delay = 0 \/ task.delay >= InitialDelay
    BY <1>r DEF Task, Bounded
  <2>3. /\ base \in 0 .. MaxDelay /\ (base = 0 \/ base >= InitialDelay)
        /\ delay \in Nat
    BY <2>2, DelayType, DelaysAssumption
  <2>4. g \in 0 .. MaxGeneration
    BY <1>r, <1>5, DelaysAssumption DEF Publish, Bounded, Task
  <2>5. now \in Nat /\ now + delay \in Nat /\ now + MinInterval \in Nat
    BY <2>3, DelaysAssumption DEF TypeOK
  <2>6. (nudge.value >= g) \in BOOLEAN
    OBVIOUS
  <2> HIDE DEF base, g
  <2>7. task' \in Task /\ task'.delay = base /\ task'.pc = "plan"
    BY <1>r, <2>1, <2>3, <2>4, <2>5, <2>6 DEF Task, Maybe
  <2>8. (IF task.ok
         THEN [kind |-> "gap", generation |-> g, until |-> now + MinInterval]
         ELSE [kind |-> "backoff", generation |-> g, until |-> now + delay]) \in Status
    BY <2>4, <2>5 DEF Status
  <2>9. /\ status' \in Status
        /\ req' \in [Requests -> Request]
        /\ \A q \in Requests : req'[q].pc = req[q].pc /\ req'[q].model = req[q].model
    BY <2>1, <2>8, SeenType
  <2> QED BY <1>5, <2>3, <2>7, <2>9 DEF Publish, TypeOK, Bounded, Task, Request
<1>6. CASE Tick
    BY <1>6, DelaysAssumption DEF Tick, TypeOK, Bounded
<1>7. ASSUME NEW s \in Snapshot, Land(s)
      PROVE  TypeInv'
  <2>1. task' \in Task /\ task'.delay = task.delay /\ task'.generation = task.generation
    BY <1>r, <1>7 DEF Land, Task
  <2>2. Applied(s) \in [snapshot : Maybe(Snapshot), fetchedAt : Nat,
                        highest : [Models -> Maybe(Row)]]
    BY SnapshotFacts DEF Applied, Maybe, TypeOK
  <2> QED BY <1>7, <2>1, <2>2 DEF Land, TypeOK, Bounded, Task
<1>8. ASSUME NEW q \in Requests, NEW m \in Models, NEW r \in 1 .. MaxRevision, Ask(q, m, r)
      PROVE  TypeInv'
  <2>0. r \in 0 .. MaxRevision
    BY DelaysAssumption
  <2>1. /\ [NoRequest EXCEPT !.pc = "look", !.model = m, !.revision = r] \in Request
        /\ [NoRequest EXCEPT !.pc = "look", !.model = m, !.revision = r].model = m
    BY <2>0, RequestFor
  <2>3. /\ req' \in [Requests -> Request]
        /\ \A p \in Requests : req'[p].pc # "idle" => req'[p].model \in Models
    BY <1>8, <2>1, OneRequest DEF Ask
  <2> QED BY <1>8, <2>3 DEF Ask, TypeOK, Bounded, Request
<1>9. ASSUME NEW q \in Requests, Serves(q) \/ Leaves(q)
      PROVE  TypeInv'
  <2> DEFINE Frame == /\ req' \in [Requests -> Request]
                     /\ \A p \in Requests : req'[p].pc # "idle" => req'[p].model \in Models
  <2>1. CASE Bind(q)
    <3>1. Proceed(q, "bound") \in Request /\ Proceed(q, "bound").model \in Models
      BY <2>1, ProceedType DEF Bind
    <3>2. Frame
      BY <2>1, <3>1, OneRequest DEF Bind
    <3>3. Cached(req[q].model) \in Maybe(Row)
      BY <2>1, SnapshotFacts DEF Cached, Bind, Lookup, TypeOK, Bounded, Maybe
    <3> QED BY <2>1, <3>2, <3>3 DEF Bind, TypeOK, Bounded, Request
  <2>2. CASE Send(q) \/ Reject(q) \/ Leaves(q)
    <3>1. Frame
      BY <2>2, IdleRequest, OneRequest DEF Send, Reject, Leaves
    <3> QED BY <2>2, <3>1 DEF Send, Reject, Leaves, TypeOK, Bounded, Request
  <2>3. CASE NeedRefresh(q)
    <3>1. [req[q] EXCEPT !.pc = "subscribe"] \in Request
      BY <1>r DEF Request
    <3>2. [req[q] EXCEPT !.pc = "subscribe"].model \in Models
      BY <1>r, <2>3 DEF NeedRefresh, Bounded, Request
    <3>3. Frame
      BY <2>3, <3>1, <3>2, OneRequest DEF NeedRefresh
    <3> QED BY <2>3, <3>3 DEF NeedRefresh, TypeOK, Bounded, Request
  <2>4. CASE Subscribe(q)
    <3> DEFINE d == CASE status.kind = "flight" -> status.until
                      [] status.kind = "gap" -> LaterOf(status.until, now) + Timeout
                      [] status.kind = "backoff" -> now + Timeout
    <3> DEFINE r == [req[q] EXCEPT !.pc = "check", !.generation = status.generation,
                                   !.deadline = d]
    <3>1. d \in Nat
      BY DelaysAssumption DEF TypeOK, Status, LaterOf
    <3>2. r \in Request /\ r.model \in Models
      <4>1. status.generation \in 0 .. MaxGeneration
        BY DEF TypeOK, Status
      <4>2. req[q].pc = "subscribe" /\ req[q].model \in Models
        BY <2>4 DEF Subscribe, Bounded
      <4> HIDE DEF d
      <4> QED BY <1>r, <3>1, <4>1, <4>2 DEF Request, Waiting
    <3>3. LookAgain(q) \in Request /\ LookAgain(q).model \in Models
      BY <2>4, LookAgainType DEF Subscribe
    <3>4. SetReq(q, IF BackingOff THEN LookAgain(q) ELSE r)
      BY <2>4 DEF Subscribe
    <3>5. Frame
      <4> HIDE DEF r
      <4> QED BY <3>2, <3>3, <3>4, OneRequest
    <3> QED BY <2>4, <3>5 DEF Subscribe, TypeOK, Bounded, Request
  <2>5. CASE Check(q)
    <3>1. LookAgain(q) \in Request /\ LookAgain(q).model \in Models
      BY <2>5, LookAgainType DEF Check
    <3>2. ASSUME NEW pc \in {"parked", "nudge"}
          PROVE  /\ [req[q] EXCEPT !.seen = TRUE, !.pc = pc] \in Request
                 /\ [req[q] EXCEPT !.seen = TRUE, !.pc = pc].model \in Models
      BY <1>r, <2>5 DEF Check, Request, Bounded, Waiting
    <3>3. /\ [req[q] EXCEPT !.seen = TRUE, !.pc = "gap", !.until = status.until] \in Request
          /\ [req[q] EXCEPT !.seen = TRUE, !.pc = "gap", !.until = status.until].model
               \in Models
      BY <1>r, <2>5 DEF Check, Request, Bounded, Waiting, TypeOK, Status
    <3>4. \E r \in Request : SetReq(q, r) /\ r.model \in Models
      BY <2>5, <3>1, <3>2, <3>3 DEF Check
    <3>5. Frame
      BY <3>4, OneRequest
    <3> QED BY <2>5, <3>5 DEF Check, TypeOK, Bounded, Request
  <2>6. CASE Nudge(q)
    <3>1. /\ [req[q] EXCEPT !.pc = "parked"] \in Request
          /\ [req[q] EXCEPT !.pc = "parked"].model \in Models
      BY <1>r, <2>6 DEF Nudge, Request, Bounded, Waiting
    <3>2. Frame
      BY <2>6, <3>1, OneRequest DEF Nudge
    <3>3. nudge' \in [value : 0 .. MaxGeneration, seen : BOOLEAN]
      BY <1>r, <2>6 DEF Nudge, LaterOf, TypeOK, Request
    <3> QED BY <2>6, <3>2, <3>3 DEF Nudge, TypeOK, Bounded, Request
  <2>7. CASE Wakes(q)
    <3>1. /\ [req[q] EXCEPT !.pc = "check", !.until = 0] \in Request
          /\ [req[q] EXCEPT !.pc = "check", !.until = 0].model \in Models
      BY <1>r, <2>7 DEF Wakes, Request, Bounded, Waiting
    <3>2. Frame
      BY <2>7, <3>1, OneRequest DEF Wakes
    <3> QED BY <2>7, <3>2 DEF Wakes, TypeOK, Bounded, Request
  <2>8. CASE TimesOut(q)
    <3>1. LookAgain(q) \in Request /\ LookAgain(q).model \in Models
      BY <2>8, LookAgainType DEF TimesOut
    <3>2. Frame
      BY <2>8, <3>1, OneRequest DEF TimesOut
    <3> QED BY <2>8, <3>2 DEF TimesOut, TypeOK, Bounded, Request
  <2> QED BY <1>9, <2>1, <2>2, <2>3, <2>4, <2>5, <2>6, <2>7, <2>8 DEF Serves
<1>10. CASE UNCHANGED vars
    BY <1>10 DEF vars, TypeOK, Bounded
<1> QED
    BY <1>1, <1>2, <1>3, <1>4, <1>5, <1>6, <1>7, <1>8, <1>9, <1>10 DEF Next, Refresher

(* The types at the start.                                                 *)
LEMMA TypeInitial == Init => TypeInv
<1> SUFFICES ASSUME Init PROVE TypeInv
    OBVIOUS
<1>1. req \in [Requests -> Request]
    BY IdleRequest DEF Init
<1>2. status \in Status
    BY DelaysAssumption DEF Init, Status
<1>3. task \in Task /\ task.pc = "plan" /\ task.delay = 0
    BY DelaysAssumption DEF Init, Task, Maybe
<1> QED BY <1>1, <1>2, <1>3, IdleRequest, DelaysAssumption
        DEF Init, TypeInv, TypeOK, Bounded, Maybe, Task, Request

(***************************************************************************)
(* Every variable keeps its type, for every value of the constants.        *)
(***************************************************************************)
THEOREM TypeCorrect == Spec => []TypeOK
BY TypeInitial, TypeStep, PTL DEF Spec, TypeInv

-----------------------------------------------------------------------------
(* The cache                                                               *)

Older(r, s) == r = s \/ r.revision < s.revision

(***************************************************************************)
(* The row in force of a model is the highest it has had; the row it was   *)
(* last bound to is that one or an older one.                              *)
(***************************************************************************)
CacheInv ==
    /\ cache.snapshot # None =>
         \A m \in Models : cache.snapshot.bindings[m] # None
                             => cache.highest[m] = cache.snapshot.bindings[m]
    /\ cache.snapshot = None => \A m \in Models : cache.highest[m] = None
    /\ \A m \in Models : bound[m] # None =>
         cache.highest[m] # None /\ Older(bound[m], cache.highest[m])

(* What apply accepts, model by model.                                     *)
LEMMA AcceptedRow ==
    ASSUME TypeInv, CacheInv, NEW s \in Snapshot, ~Refused(s), NEW m \in Models,
           s.bindings[m] # None
    PROVE  \/ cache.highest[m] = None
           \/ s.bindings[m].revision > cache.highest[m].revision
           \/ s.bindings[m] = cache.highest[m] /\ s.bindings[m] = Cached(m)
<1>1. /\ cache.highest[m] \in Row \cup {None}
      /\ s.bindings[m] \in Row
      /\ s.revision \in 0 .. MaxRevision
      /\ cache.snapshot # None => cache.snapshot \in Snapshot
    BY SnapshotFacts DEF TypeInv, TypeOK, Maybe
<1>2. CASE cache.snapshot = None
    BY <1>2 DEF CacheInv
<1>3. CASE s = cache.snapshot /\ cache.snapshot # None
    BY <1>3 DEF CacheInv, Cached
<1>4. CASE cache.snapshot # None /\ s # cache.snapshot
  <2>1. cache.snapshot.revision \in 0 .. MaxRevision
    BY <1>1, <1>4, SnapshotFacts
  <2>2. ~RollsBack(m, s.bindings[m])
    BY <1>1, <1>4, <2>1, DelaysAssumption DEF Refused
  <2>3. ASSUME cache.highest[m] # None
        PROVE  /\ s.bindings[m].revision \in 1 .. MaxRevision
               /\ cache.highest[m].revision \in 1 .. MaxRevision
    BY <1>1, <2>3, RowFacts
  <2> QED BY <1>4, <2>2, <2>3 DEF RollsBack, CacheInv, Cached
<1> QED BY <1>2, <1>3, <1>4

(* Each step keeps the log of the cache.                                   *)
LEMMA CacheStep ==
    ASSUME TypeInv, CacheInv, [Next]_vars
    PROVE  CacheInv'
<1>1. ASSUME NEW s \in Snapshot, Land(s)
      PROVE  CacheInv'
  <2>1. CASE Refused(s)
    BY <1>1, <2>1 DEF Land, CacheInv
  <2>2. CASE ~Refused(s)
    <3>1. /\ cache'.snapshot = s /\ bound' = bound
          /\ \A m \in Models : cache'.highest[m] =
                IF s.bindings[m] = None THEN cache.highest[m] ELSE s.bindings[m]
      BY <1>1, <2>2 DEF Land, Applied
    <3>2. s # None
      BY SnapshotFacts
    <3>3. ASSUME NEW m \in Models, bound[m] # None
          PROVE  cache'.highest[m] # None /\ Older(bound[m], cache'.highest[m])
      <4>1. cache.highest[m] # None /\ Older(bound[m], cache.highest[m])
        BY <3>3 DEF CacheInv
      <4>2. CASE s.bindings[m] = None
        BY <3>1, <4>1, <4>2
      <4>3. CASE s.bindings[m] # None
        <5>1. /\ bound[m].revision \in 1 .. MaxRevision
              /\ cache.highest[m].revision \in 1 .. MaxRevision
              /\ s.bindings[m].revision \in 1 .. MaxRevision
          BY <3>3, <4>1, <4>3, RowFacts, SnapshotFacts DEF TypeInv, TypeOK, Maybe
        <5>2. \/ s.bindings[m].revision > cache.highest[m].revision
              \/ s.bindings[m] = cache.highest[m]
          BY <2>2, <4>1, <4>3, AcceptedRow
        <5> QED BY <3>1, <4>1, <4>3, <5>1, <5>2, DelaysAssumption DEF Older
      <4> QED BY <4>2, <4>3
    <3> QED BY <3>1, <3>2, <3>3 DEF CacheInv
  <2> QED BY <2>1, <2>2
<1>2. ASSUME NEW q \in Requests, Bind(q)
      PROVE  CacheInv'
  <2>1. req[q].model \in Models
    BY <1>2 DEF Bind, TypeInv, Bounded
  <2>2. cache.snapshot # None /\ Cached(req[q].model) # None
    BY <1>2 DEF Bind, Lookup, Cached
  <2>3. cache.highest[req[q].model] = Cached(req[q].model)
    BY <2>1, <2>2 DEF CacheInv, Cached
  <2>4. bound \in [Models -> Maybe(Row)]
    BY DEF TypeInv, TypeOK
  <2> QED BY <1>2, <2>1, <2>2, <2>3, <2>4 DEF Bind, CacheInv, Older
<1>3. ASSUME UNCHANGED <<cache, bound>>
      PROVE  CacheInv'
    BY <1>3 DEF CacheInv
<1> QED
    BY <1>1, <1>2, <1>3 DEF Next, vars, Refresher, Serves, Plan, Nudged, Fetch, FetchFails,
       Publish, Tick, Ask, Send, Reject, NeedRefresh, Subscribe, Check, Nudge, Wakes, TimesOut,
       Leaves

(* The log of the cache at the start.                                      *)
LEMMA CacheInitial == Init => CacheInv
BY DEF Init, CacheInv

(***************************************************************************)
(* Requests for a model are bound to its rows in their order, whatever the *)
(* registry answers (BindingCache::apply, forward_request).                *)
(***************************************************************************)
THEOREM BoundForwardHolds == Spec => BoundForward
<1>1. ASSUME TypeInv, CacheInv, [Next]_vars, NEW m \in Models,
             bound[m] # None, bound'[m] # bound[m]
      PROVE  bound'[m].revision > bound[m].revision
  <2>1. PICK q \in Requests : Bind(q)
    BY <1>1 DEF Next, vars, Refresher, Serves, Land, Plan, Nudged, Fetch, FetchFails, Publish,
       Tick, Ask, Send, Reject, NeedRefresh, Subscribe, Check, Nudge, Wakes, TimesOut, Leaves
  <2>2. bound \in [Models -> Maybe(Row)] /\ cache.highest \in [Models -> Maybe(Row)]
    BY <1>1 DEF TypeInv, TypeOK
  <2>3. m = req[q].model /\ bound'[m] = Cached(m)
    BY <1>1, <2>1, <2>2 DEF Bind
  <2>4. cache.snapshot # None /\ Cached(m) # None
    BY <2>1, <2>3 DEF Bind, Lookup, Cached
  <2>5. cache.highest[m] = Cached(m) /\ Older(bound[m], cache.highest[m])
    BY <1>1, <2>4 DEF CacheInv, Cached
  <2>6. bound[m].revision \in 1 .. MaxRevision /\ cache.highest[m].revision \in 1 .. MaxRevision
    BY <1>1, <2>2, <2>4, <2>5, RowFacts DEF Maybe
  <2> QED BY <1>1, <2>3, <2>5, <2>6, DelaysAssumption DEF Older
<1>2. TypeInv /\ CacheInv /\ [Next]_vars
        => [\A m \in Models : bound[m] # None /\ bound'[m] # bound[m]
              => bound'[m].revision > bound[m].revision]_vars
    BY <1>1
<1> QED BY <1>2, TypeInitial, TypeStep, CacheInitial, CacheStep, PTL DEF Spec, BoundForward

(***************************************************************************)
(* The cache implements the append-only log of rows: for every registry,   *)
(* a row is kept, removed or replaced by one with a revision its model     *)
(* never had (BindingCache::apply, highest_binding).                       *)
(***************************************************************************)
THEOREM RowsAdvance == Spec => RowsOnlyAdvance
<1>1. Init => Log!Init
    BY DEF Init, Log!Init, Cached
<1>2. ASSUME TypeInv, CacheInv, [Next]_vars
      PROVE  [Log!Next]_<<[m \in Models |-> Cached(m)],
                [m \in Models |-> IF cache.highest[m] = None THEN 0
                                  ELSE cache.highest[m].revision]>>
  <2>1. CASE cache' = cache
    BY <2>1 DEF Cached
  <2>2. ASSUME NEW s \in Snapshot, cache' = Applied(s), ~Refused(s)
        PROVE  Log!Next
    <3>1. s # None /\ s.bindings \in [Models -> Row \cup {None}]
      BY SnapshotFacts
    <3>2. \A m \in Models : Cached(m)' = s.bindings[m]
      BY <2>2, <3>1 DEF Applied, Cached
    <3>3. \A m \in Models : cache'.highest[m] =
             IF s.bindings[m] = None THEN cache.highest[m] ELSE s.bindings[m]
      BY <2>2 DEF Applied
    <3>4. ASSUME NEW m \in Models
          PROVE  Log!Forward(m, s.bindings[m])
      <4>1. ASSUME s.bindings[m] # None
            PROVE  \/ s.bindings[m] = Cached(m)
                   \/ s.bindings[m].revision >
                        IF cache.highest[m] = None THEN 0 ELSE cache.highest[m].revision
        <5>1. s.bindings[m].revision > 0
          BY <3>1, <4>1, RowFacts
        <5> QED BY <1>2, <2>2, <4>1, <5>1, AcceptedRow
      <4> QED BY <4>1 DEF Log!Forward
    <3>5. [m \in Models |-> Cached(m)]' = s.bindings
      BY <3>1, <3>2
    <3>6. Log!Adopt(s.bindings)
      BY <3>3, <3>4, <3>5 DEF Log!Adopt
    <3> QED BY <3>1, <3>6 DEF Log!Next
  <2>3. cache' = cache \/ \E s \in Snapshot : cache' = Applied(s) /\ ~Refused(s)
    BY <1>2 DEF Next, vars, Refresher, Serves, Land, Plan, Nudged, Fetch, FetchFails, Publish,
       Tick, Ask, Bind, Send, Reject, NeedRefresh, Subscribe, Check, Nudge, Wakes, TimesOut,
       Leaves
  <2> QED BY <2>1, <2>2, <2>3
<1> QED
    BY <1>1, <1>2, TypeInitial, TypeStep, CacheInitial, CacheStep, PTL
    DEF Spec, RowsOnlyAdvance, Log!Spec

-----------------------------------------------------------------------------
(* The nudges                                                              *)

(***************************************************************************)
(* The status channel mirrors the refresher; a nudge the refresher counts  *)
(* as pending is one for its own generation, and it has planned for it.    *)
(***************************************************************************)
ChannelsInv ==
    /\ status.generation = task.generation
    /\ (status.kind = "flight") <=> (task.pc \in {"fetch", "landed"})
    /\ task.pending => nudge.value >= task.generation
    /\ task.pc = "sleep" /\ task.pending => task.demandAt # None

NudgeInv == ChannelsInv /\ NoLostNudge

(* The status channel tells every waiting request of its change.           *)
LEMMA Unseen ==
    ASSUME TypeInv, NEW s, SendStatus(s)
    PROVE  NoLostNudge'
<1> SUFFICES ASSUME NEW q \in Requests, req'[q].pc = "parked", req'[q].seen
             PROVE  FALSE
    BY DEF NoLostNudge
<1>1. req[q] \in Request
    BY DEF TypeInv, TypeOK, Request
<1>2. req[q].pc = "parked"
    BY <1>1 DEF SendStatus, Request
<1> QED BY <1>1, <1>2 DEF SendStatus, Waiting, Request

(* Each step keeps the channels, and the nudge.                            *)
LEMMA NudgeStep ==
    ASSUME TypeInv, NudgeInv, [Next]_vars
    PROVE  NudgeInv'
<1>r. /\ req \in [Requests -> Request] /\ task \in Task /\ status \in Status
      /\ nudge.value \in 0 .. MaxGeneration /\ nudge.seen \in BOOLEAN
    BY DEF TypeInv, TypeOK, Request, Task
<1>g. task.generation \in Nat /\ nudge.value \in Nat
    BY <1>r DEF Task
<1>1. CASE Plan
  <2>1. /\ task'.pc = "sleep" /\ task'.pending = Pending /\ task'.generation = task.generation
        /\ task'.demandAt = IF Pending THEN DemandAt ELSE None
        /\ nudge'.value = nudge.value /\ status' = status /\ req' = req
    BY <1>1, <1>r DEF Plan, Task, TypeInv, TypeOK
  <2>2. DemandAt # None
    BY <1>r, NoneAssumption, DelaysAssumption
    DEF DemandAt, PeriodicAt, LaterOf, Task, TypeInv, TypeOK, Maybe
  <2>3. Pending => nudge.value >= task.generation
    BY DEF Pending, NudgeInv, ChannelsInv
  <2>4. ChannelsInv'
    BY <1>1, <2>1, <2>2, <2>3 DEF ChannelsInv, NudgeInv, Plan
  <2>5. ASSUME NEW q \in Requests, req[q].pc = "parked", req[q].seen,
               status.kind # "flight", status.generation = req[q].generation
        PROVE  Pending
    <3>1. \/ ~nudge.seen /\ nudge.value >= task.generation
          \/ task.pending
      BY <2>5 DEF NudgeInv, NoLostNudge
    <3> QED BY <3>1 DEF Pending, NudgeInv, ChannelsInv
  <2> QED BY <2>1, <2>2, <2>4, <2>5 DEF NudgeInv, NoLostNudge
<1>2. CASE Nudged
  <2>1. /\ task'.pc = "plan" /\ task'.generation = task.generation
        /\ task'.pending = (nudge.value >= task.generation)
        /\ nudge'.value = nudge.value /\ status' = status /\ req' = req
    BY <1>2, <1>r DEF Nudged, Task, TypeInv, TypeOK
  <2>2. ChannelsInv'
    BY <1>2, <2>1 DEF ChannelsInv, NudgeInv, Nudged
  <2>3. ASSUME NEW q \in Requests, req[q].pc = "parked", req[q].seen,
               status.kind # "flight", status.generation = req[q].generation
        PROVE  nudge.value >= task.generation
    BY <2>3 DEF NudgeInv, NoLostNudge, ChannelsInv
  <2> QED BY <2>1, <2>2, <2>3 DEF NudgeInv, NoLostNudge
<1>3. CASE Fetch
  <2>1. task'.pc = "fetch" /\ task'.generation = task.generation /\ ~task'.pending
    BY <1>3, <1>r DEF Fetch, Task
  <2>2. status'.kind = "flight" /\ status'.generation = task.generation
    BY <1>3 DEF Fetch, SendStatus
  <2>3. ChannelsInv'
    BY <2>1, <2>2 DEF ChannelsInv
  <2>4. NoLostNudge'
    BY <1>3, Unseen DEF Fetch
  <2> QED BY <2>3, <2>4 DEF NudgeInv
<1>4. CASE FetchFails \/ \E s \in Snapshot : Land(s)
  <2>1. /\ task'.pc = "landed" /\ task.pc = "fetch" /\ task'.generation = task.generation
        /\ task'.pending = task.pending /\ task'.demandAt = task.demandAt
        /\ UNCHANGED <<nudge, status, req>>
    BY <1>4, <1>r DEF FetchFails, Land, Task
  <2> QED BY <2>1 DEF NudgeInv, ChannelsInv, NoLostNudge
<1>5. CASE Publish
  <2>1. task'.pc = "plan" /\ task'.pending = (nudge.value >= task.generation + 1)
    BY <1>5, <1>r DEF Publish, Task
  <2>2. task'.generation = task.generation + 1 /\ nudge'.value = nudge.value
    BY <1>5, <1>r DEF Publish, Task, TypeInv, TypeOK
  <2>3. status'.kind # "flight" /\ status'.generation = task.generation + 1
    BY <1>5 DEF Publish, SendStatus
  <2>4. ChannelsInv'
    BY <2>1, <2>2, <2>3 DEF ChannelsInv
  <2>5. NoLostNudge'
    BY <1>5, Unseen DEF Publish
  <2> QED BY <2>4, <2>5 DEF NudgeInv
<1>6. ASSUME NEW q \in Requests, Check(q)
      PROVE  NudgeInv'
  <2>1. ChannelsInv'
    BY <1>6 DEF Check, NudgeInv, ChannelsInv
  <2>2. req'[q].pc = "parked" => status.kind = "flight"
    BY <1>6, <1>r DEF Check, SetReq, LookAgain, Proceed, NoRequest, Request
  <2>3. \A p \in Requests : p # q => req'[p] = req[p]
    BY <1>6, <1>r DEF Check, SetReq
  <2> QED BY <1>6, <2>1, <2>2, <2>3 DEF Check, NudgeInv, NoLostNudge
<1>7. ASSUME NEW q \in Requests, Nudge(q)
      PROVE  NudgeInv'
  <2>1. /\ nudge'.value >= nudge.value /\ nudge'.value >= req[q].generation
        /\ nudge'.value \in Nat /\ ~nudge'.seen
    BY <1>7, <1>r DEF Nudge, LaterOf, Request
  <2>2. ChannelsInv'
    BY <1>7, <1>g, <2>1 DEF Nudge, NudgeInv, ChannelsInv
  <2>3. /\ req'[q].generation = req[q].generation
        /\ \A p \in Requests : p # q => req'[p] = req[p]
    BY <1>7, <1>r DEF Nudge, SetReq, Request
  <2>4. ASSUME NEW p \in Requests, req'[p].pc = "parked", req'[p].seen,
               status.kind # "flight", status.generation = req'[p].generation
        PROVE  \/ nudge'.value >= task.generation
               \/ task.pending /\ (task.pc = "plan" \/ task.demandAt # None)
    <3>1. CASE p = q
      BY <2>1, <2>3, <2>4, <3>1 DEF NudgeInv, ChannelsInv
    <3>2. CASE p # q
      BY <1>g, <2>1, <2>3, <2>4, <3>2 DEF NudgeInv, NoLostNudge
    <3> QED BY <3>1, <3>2
  <2> QED BY <1>7, <2>1, <2>2, <2>4 DEF Nudge, NudgeInv, NoLostNudge
<1>8. ASSUME NEW q \in Requests, NEW r, SetReq(q, r), r.pc # "parked",
             UNCHANGED <<task, nudge, status>>
      PROVE  NudgeInv'
    BY <1>8, <1>r DEF SetReq, NudgeInv, ChannelsInv, NoLostNudge
<1>9. ASSUME NEW q \in Requests,
             \/ Bind(q) \/ Send(q) \/ Reject(q) \/ NeedRefresh(q) \/ Subscribe(q)
             \/ Wakes(q) \/ TimesOut(q) \/ Leaves(q)
      PROVE  NudgeInv'
  <2>1. /\ NoRequest.pc # "parked" /\ LookAgain(q).pc # "parked"
        /\ Proceed(q, "bound").pc # "parked"
    BY DEF NoRequest, LookAgain, Proceed
  <2>2. CASE Bind(q) \/ Send(q) \/ Reject(q) \/ Leaves(q)
    BY <1>8, <2>1, <2>2 DEF Bind, Send, Reject, Leaves
  <2>3. CASE TimesOut(q)
    BY <1>8, <2>1, <2>3 DEF TimesOut
  <2>4. CASE NeedRefresh(q)
    <3>1. [req[q] EXCEPT !.pc = "subscribe"].pc = "subscribe"
      BY <1>r DEF Request
    <3> QED BY <1>8, <2>4, <3>1 DEF NeedRefresh
  <2>5. CASE Wakes(q)
    <3>1. [req[q] EXCEPT !.pc = "check", !.until = 0].pc = "check"
      BY <1>r DEF Request
    <3> QED BY <1>8, <2>5, <3>1 DEF Wakes
  <2>6. CASE Subscribe(q)
    <3>1. PICK r : SetReq(q, r) /\ r.pc # "parked"
      <4> DEFINE d == CASE status.kind = "flight" -> status.until
                        [] status.kind = "gap" -> LaterOf(status.until, now) + Timeout
                        [] status.kind = "backoff" -> now + Timeout
      <4> DEFINE r == [req[q] EXCEPT !.pc = "check", !.generation = status.generation,
                                     !.deadline = d]
      <4>1. SetReq(q, IF BackingOff THEN LookAgain(q) ELSE r)
        BY <2>6 DEF Subscribe
      <4>2. r.pc = "check"
        <5> HIDE DEF d
        <5> QED BY <1>r DEF Request
      <4> HIDE DEF r
      <4> QED BY <2>1, <4>1, <4>2
    <3> QED BY <1>8, <2>6, <3>1 DEF Subscribe
  <2> QED BY <1>9, <2>2, <2>3, <2>4, <2>5, <2>6
<1>10. ASSUME NEW q \in Requests, NEW m \in Models, NEW r \in 1 .. MaxRevision, Ask(q, m, r)
       PROVE  NudgeInv'
  <2>1. [NoRequest EXCEPT !.pc = "look", !.model = m, !.revision = r].pc = "look"
    BY DEF NoRequest
  <2> QED BY <1>8, <1>10, <2>1 DEF Ask
<1>11. CASE Tick \/ UNCHANGED vars
    BY <1>11 DEF Tick, vars, NudgeInv, ChannelsInv, NoLostNudge
<1> QED
    BY <1>1, <1>2, <1>3, <1>4, <1>5, <1>6, <1>7, <1>9, <1>10, <1>11 DEF Next, Refresher, Serves

(***************************************************************************)
(* No nudge is ever lost, for any number of requests and any schedule of   *)
(* theirs and the refresher's steps over the two watch channels.           *)
(***************************************************************************)
THEOREM NoNudgeLost == Spec => []NoLostNudge
<1>1. Init => NudgeInv
    BY DEF Init, NudgeInv, ChannelsInv, NoLostNudge, NoRequest
<1> QED BY <1>1, TypeInitial, TypeStep, NudgeStep, PTL DEF Spec, NudgeInv

-----------------------------------------------------------------------------
(* The spacing of fetches                                                  *)

(***************************************************************************)
(* The next attempt is at least the on-demand interval after the last one  *)
(* completed, and the demand the refresher sleeps for respects both.       *)
(***************************************************************************)
SpacingInv ==
    /\ task.completedAt # None =>
         task.nextAttempt # None /\ task.nextAttempt >= task.completedAt + MinInterval
    /\ task.delay > 0 => task.nextAttempt # None
    /\ task.pc = "sleep" /\ task.demandAt # None =>
         /\ task.completedAt # None => task.demandAt >= task.completedAt + MinInterval
         /\ task.delay > 0 => task.demandAt >= task.nextAttempt

(* Each step keeps the due times.                                          *)
LEMMA SpacingStep ==
    ASSUME TypeInv, SpacingInv, [Next]_vars
    PROVE  SpacingInv'
<1>r. task \in Task /\ now \in Nat
    BY DelaysAssumption DEF TypeInv, TypeOK, Task
<1>1. CASE Plan
  <2>1. /\ task'.pc = "sleep" /\ task'.completedAt = task.completedAt
        /\ task'.nextAttempt = task.nextAttempt /\ task'.delay = task.delay
        /\ task'.demandAt # None => task'.demandAt = DemandAt
    BY <1>1, <1>r DEF Plan, Task
  <2>2. /\ task.completedAt # None => DemandAt >= task.completedAt + MinInterval
        /\ task.delay > 0 => DemandAt >= task.nextAttempt
    BY <1>r, DelaysAssumption, NoneAssumption
    DEF DemandAt, PeriodicAt, LaterOf, Task, Maybe, SpacingInv
  <2> QED BY <2>1, <2>2 DEF SpacingInv
<1>2. CASE Publish
  <2> DEFINE base == IF task.ok THEN 0 ELSE NextDelay(task.delay)
  <2>1. PICK delay \in Delays(base) :
          task' = [task EXCEPT
                 !.pc = "plan", !.delay = base, !.completedAt = now,
                 !.nextAttempt = now + delay, !.generation = task.generation + 1,
                 !.pending = nudge.value >= task.generation + 1, !.ok = FALSE]
    BY <1>2 DEF Publish
  <2>2. task.delay \in 0 .. MaxDelay /\ (task.delay = 0 \/ task.delay >= InitialDelay)
    BY <1>r DEF Task, TypeInv, Bounded
  <2>3. delay \in Nat /\ delay >= MinInterval
    BY <2>2, DelayType
  <2> HIDE DEF base
  <2>4. /\ task'.pc = "plan" /\ task'.completedAt = now /\ task'.nextAttempt = now + delay
    BY <1>r, <2>1 DEF Task
  <2> QED BY <1>r, <2>3, <2>4, NoneAssumption, DelaysAssumption DEF SpacingInv
<1>3. ASSUME /\ task'.completedAt = task.completedAt /\ task'.nextAttempt = task.nextAttempt
             /\ task'.delay = task.delay
             /\ task'.pc # "sleep" \/ task' = task
      PROVE  SpacingInv'
    BY <1>3 DEF SpacingInv
<1>4. CASE Nudged \/ Fetch \/ FetchFails \/ \E s \in Snapshot : Land(s)
    BY <1>3, <1>4, <1>r DEF Nudged, Fetch, FetchFails, Land, Task
<1>5. CASE task' = task
    BY <1>3, <1>5
<1> QED
    BY <1>1, <1>2, <1>4, <1>5 DEF Next, Refresher, vars, Tick, Ask, Serves, Bind, Send, Reject,
       NeedRefresh, Subscribe, Check, Nudge, Wakes, TimesOut, Leaves

(***************************************************************************)
(* The registry is never asked within the on-demand interval of its last   *)
(* answer nor during a failure's backoff, for all delays that satisfy the  *)
(* compile-time assertion (next_delay, run_binding_refresher).             *)
(***************************************************************************)
THEOREM FetchesSpaced == Spec => FetchSpacing
<1>1. Init => SpacingInv
    BY DEF Init, SpacingInv
<1>2. ASSUME TypeInv, SpacingInv, [Next]_vars, task.pc = "sleep", task'.pc = "fetch"
      PROVE  /\ task.completedAt # None => now >= task.completedAt + MinInterval
             /\ task.delay > 0 => now >= task.nextAttempt
  <2>r. task \in Task /\ now \in Nat
    BY <1>2, DelaysAssumption DEF TypeInv, TypeOK, Task
  <2>1. Fetch
    BY <1>2, <2>r DEF Next, Refresher, vars, Tick, Ask, Serves, Bind, Send, Reject,
       NeedRefresh, Subscribe, Check, Nudge, Wakes, TimesOut, Leaves, Plan, Nudged, FetchFails, Land,
       Publish, Task
  <2>2. Due
    BY <2>1 DEF Fetch
  <2> QED BY <1>2, <2>r, <2>2, DelaysAssumption, NoneAssumption
          DEF Due, PeriodicAt, SpacingInv, Task, Maybe
<1>3. TypeInv /\ SpacingInv /\ [Next]_vars =>
        [task.pc = "sleep" /\ task'.pc = "fetch" =>
          /\ task.completedAt # None => now >= task.completedAt + MinInterval
          /\ task.delay > 0 => now >= task.nextAttempt]_vars
    BY <1>2
<1> QED BY <1>1, <1>3, TypeInitial, TypeStep, SpacingStep, PTL DEF Spec, FetchSpacing

=============================================================================
