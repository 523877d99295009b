--------------------------- MODULE ChutesAdmission ---------------------------
(***************************************************************************)
(* Admission of Chutes instances and issuance of their invocation nonces   *)
(* (attestd/src/chutes_verify/admission.rs) for one chute, under every     *)
(* credential that uses it.  A scope is the chute under one credential;    *)
(* its ChuteState is behind a lock that a request holds across its network *)
(* calls and that the scope's renewal task does not hold across its own,   *)
(* so the two race to record verdicts.  The nonce ledger is shared by all  *)
(* scopes.                                                                 *)
(*                                                                         *)
(* The budgets that may deny a call are those of ChutesBudgets; here a     *)
(* call may always be denied.  A scope no request refers to may always be  *)
(* evicted from the map of scopes.                                         *)
(***************************************************************************)
EXTENDS Integers, FiniteSets

CONSTANTS
    Scopes,          \* credentials that use the chute
    Instances,       \* (instance_id, e2e_pubkey) pairs of the chute
    Nonces,          \* invocation nonces
    Requests,        \* requests in flight
    AdmissionTTL,    \* ADMISSION_TTL
    RefreshAhead,    \* REFRESH_AHEAD
    RenewJitter,     \* RENEW_JITTER
    MinInterval,     \* MIN_RENEWAL_INTERVAL
    RejectionTTL,    \* REJECTION_TTL
    NonceMargin,     \* NONCE_MARGIN
    Lifetimes,       \* nonce lifetimes that Chutes advertises
    EvidenceLives,   \* how long evidence is valid from the start of its fetch
    LedgerCapacity,  \* MAX_ISSUED_NONCES
    MaxAdmissions,   \* MAX_ADMISSIONS_PER_REQUEST
    MaxDiscoveries,  \* MAX_DISCOVERIES_PER_REQUEST
    MaxInvoke,       \* MAX_INVOKE_INSTANCES
    MaxTime,         \* bound on the clock
    MaxGeneration,   \* bound on the verdict batches of a scope
    None

ASSUME ConstantsAssumption ==
    /\ None \notin Int /\ None \notin Scopes /\ None \notin Instances
    /\ None \notin Nonces
    /\ AdmissionTTL \in Nat /\ RefreshAhead \in Nat /\ RenewJitter \in Nat
    /\ MinInterval \in Nat /\ RejectionTTL \in Nat /\ NonceMargin \in Nat
    /\ Lifetimes \subseteq Nat /\ EvidenceLives \subseteq Nat /\ LedgerCapacity \in Nat
    /\ MaxAdmissions \in Nat /\ MaxDiscoveries \in Nat /\ MaxInvoke \in Nat
    /\ MaxTime \in Nat /\ MaxGeneration \in Nat
    /\ IsFiniteSet(Nonces)

VARIABLES
    now,      \* the clock
    state,    \* state[s]: the ChuteState of scope s
    renewal,  \* renewal[s]: the task renew_while_warm of scope s
    req,      \* req[q]: where request q has got to
    ledger,   \* ledger[n]: until when NonceLedger remembers nonce n, or None
    life,     \* life[n]: when n stops being valid at Chutes
    uses,     \* uses[n]: tickets issued with n since Chutes made it
    judged    \* judged[s][i]: what the evidence behind i's verdicts said

vars == <<now, state, renewal, req, ledger, life, uses, judged>>

Maybe(S) == S \cup {None}

Nowhere == [i \in Instances |-> None]

(* ChuteState::default()                                                   *)
EmptyState ==
    [listed |-> {}, pool |-> [i \in Instances |-> {}], issueUntil |-> None, validUntil |-> None,
     admitted |-> Nowhere, rejected |-> Nowhere, lastServed |-> None,
     generation |-> 0, decided |-> Nowhere, renewalSince |-> None,
     lastRecorded |-> None]

NoRenewal == [pc |-> "off", planned |-> None, wake |-> 0,
              due |-> {}, since |-> 0, anchor |-> 0]

NoRequest == [pc |-> "idle", scope |-> None, discoveries |-> 0,
              admissions |-> 0, unevidenced |-> {}, batch |-> {}, at |-> 0,
              abandoned |-> FALSE, turnedAway |-> {}, instance |-> None,
              nonce |-> None]

(***************************************************************************)
(* began: the generation at which the fetch of the evidence began that     *)
(* admitted i last; rejectedAt: the generation of i's last rejection;      *)
(* expires: when the evidence that admitted i last expires.                *)
(***************************************************************************)
Unjudged == [began |-> 0, rejectedAt |-> 0, expires |-> 0]

Init ==
    /\ now = 0
    /\ state = [s \in Scopes |-> EmptyState]
    /\ renewal = [s \in Scopes |-> NoRenewal]
    /\ req = [q \in Requests |-> NoRequest]
    /\ ledger = [n \in Nonces |-> None]
    /\ life = [n \in Nonces |-> 0]
    /\ uses = [n \in Nonces |-> 0]
    /\ judged = [s \in Scopes |-> [i \in Instances |-> Unjudged]]

-----------------------------------------------------------------------------
(* ChuteState                                                              *)

Present(f) == {i \in DOMAIN f : f[i] # None}

(* retain: entries that are past their deadline are removed.               *)
Live(f) == [i \in DOMAIN f |-> IF f[i] # None /\ f[i] > now THEN f[i] ELSE None]

(* Mutant: no rejection outlives its entry.                                *)
GuardsNothing(st, i) == FALSE

(* A verdict newer than the renewal in flight is remembered past its entry. *)
Guards(st, i) ==
    /\ st.renewalSince # None
    /\ st.decided[i] # None /\ st.decided[i] > st.renewalSince

Prune(st) ==
    LET admitted == Live(st.admitted)
        rejected == Live(st.rejected)
        kept(i) == admitted[i] # None \/ rejected[i] # None \/ Guards(st, i)
        issuing == st.issueUntil # None /\ st.issueUntil > now
    IN  [st EXCEPT
          !.admitted = admitted,
          !.rejected = rejected,
          !.decided = [i \in Instances |-> IF kept(i) THEN st.decided[i] ELSE None],
          !.listed = IF issuing THEN {i \in @ : st.pool[i] # {}} ELSE {},
          !.pool = IF issuing THEN @ ELSE [i \in Instances |-> {}]]

(* Pooled instances that take_ticket may choose.                           *)
Eligible(st, avoid) ==
    {i \in st.listed \ avoid : st.admitted[i] # None}

(* NonceLedger after its own prune.                                        *)
Ledger == Live(ledger)

Issued == Present(Ledger)

PooledOf(st, avoid) == UNION {st.pool[i] : i \in Eligible(st, avoid)}

Without(pool, D, E) == [i \in Instances |-> IF i \in E THEN pool[i] \ D ELSE pool[i]]

(***************************************************************************)
(* The loop of take_ticket pops nonces of the fullest eligible instance    *)
(* and discards those already issued.  D is what it discards before it     *)
(* pops n of instance i, then the fullest one.                             *)
(***************************************************************************)
Pops(st, avoid, D, i, n) ==
    LET E == Eligible(st, avoid) IN
    /\ st.validUntil # None
    /\ D \subseteq PooledOf(st, avoid) \cap Issued
    /\ i \in E
    /\ n \in st.pool[i] \ Issued
    /\ \A j \in E : Cardinality(st.pool[j] \ D) <= Cardinality(st.pool[i] \ D)

(* take_ticket returns Ok(None): every eligible nonce was already issued.  *)
NoTicket(st, avoid) ==
    \/ st.validUntil = None
    \/ PooledOf(st, avoid) \subseteq Issued

(* What take_ticket leaves of the state then.                              *)
Drained(st, avoid) ==
    IF st.validUntil = None THEN st
    ELSE [st EXCEPT !.pool = Without(@, PooledOf(st, avoid), Eligible(st, avoid))]

(* NonceLedger::record refuses when the ledger is full.                    *)
LedgerFull == Cardinality(Issued) >= LedgerCapacity

(* ChuteState::unjudged                                                    *)
ToJudge(st) == {i \in st.listed : st.admitted[i] = None /\ st.rejected[i] = None}

Warm(st) == st.lastServed # None /\ st.lastServed + AdmissionTTL > now

(* Admitted instances whose admission ends by t.                           *)
Expiring(st, t) == {i \in Instances : st.admitted[i] # None /\ st.admitted[i] <= t}

(***************************************************************************)
(* What api.admit answers for one instance: evidence that expires at e,    *)
(* evidence that fails verification, or no evidence.                       *)
(***************************************************************************)
Outcomes(anchor) ==
    [kind : {"admitted"}, expires : {anchor + l : l \in EvidenceLives}]
       \cup [kind : {"rejected", "none"}, expires : {0}]

(* Mutant: evidence counts for ADMISSION_TTL even when it expires sooner.  *)
DeadlineIgnoresExpiry(anchor, expires) == anchor + AdmissionTTL

(* deadline(): evidence never counts for longer than ADMISSION_TTL.        *)
Deadline(anchor, expires) ==
    IF expires - anchor <= AdmissionTTL THEN expires ELSE anchor + AdmissionTTL

Superseded(st, i, since) ==
    since # None /\ st.decided[i] # None /\ st.decided[i] > since

(* Whether record applies the admission of i that v holds.                 *)
Admits(st, v, i, since) ==
    i \in DOMAIN v /\ v[i].kind = "admitted" /\ ~Superseded(st, i, since)

Rejects(v, i) == i \in DOMAIN v /\ v[i].kind = "rejected"

Record(st, v, anchor, since) ==
    [st EXCEPT
       !.generation = @ + 1,
       !.lastRecorded = now,
       !.admitted = [i \in Instances |->
                       IF Admits(st, v, i, since) THEN Deadline(anchor, v[i].expires)
                       ELSE IF Rejects(v, i) THEN None ELSE st.admitted[i]],
       !.rejected = [i \in Instances |->
                       IF Rejects(v, i) THEN now + RejectionTTL ELSE st.rejected[i]],
       !.decided = [i \in Instances |->
                      IF Admits(st, v, i, since) \/ Rejects(v, i)
                      THEN st.generation + 1 ELSE st.decided[i]]]

(* What record's evidence said, for the properties.                        *)
Judge(s, v, began, since) ==
    judged' = [judged EXCEPT ![s] = [i \in Instances |->
        IF Admits(state[s], v, i, since)
        THEN [judged[s][i] EXCEPT !.began = began, !.expires = v[i].expires]
        ELSE IF Rejects(v, i)
        THEN [judged[s][i] EXCEPT !.rejectedAt = state[s].generation + 1]
        ELSE judged[s][i]]]

(* ChuteState::refill                                                      *)
Refill(st, pool, asked, lifetime) ==
    [st EXCEPT !.listed = {i \in Instances : pool[i] # {}},
               !.issueUntil = asked + lifetime - NonceMargin,
               !.validUntil = now + lifetime + NonceMargin,
               !.pool = pool]

-----------------------------------------------------------------------------
(* Requests: Admissions::ticket, Issuer::issue and try_forward             *)

Locking == {"issue", "admit", "discover"}

LockFree(s) == \A q \in Requests : req[q].scope = s => req[q].pc \notin Locking

(* The requests that hold a reference to the cell of s.                    *)
UsersOf(s) == {q \in Requests : req[q].scope = s /\ req[q].pc # "invoke"}

SetReq(q, r) == req' = [req EXCEPT ![q] = r]

SetState(s, st) == state' = [state EXCEPT ![s] = st]

(* ticket() obtains the cell of scope s and waits for its lock.            *)
Ask(q, s) ==
    /\ req[q].pc = "idle"
    /\ SetReq(q, [NoRequest EXCEPT !.pc = "wait", !.scope = s])
    /\ UNCHANGED <<now, state, renewal, ledger, life, uses, judged>>

(* SCOPE_WAIT passed, or the caller went away: nothing was started.        *)
GiveUp(q) ==
    /\ req[q].pc = "wait"
    /\ SetReq(q, NoRequest)
    /\ UNCHANGED <<now, state, renewal, ledger, life, uses, judged>>

(* The caller goes away while its admission task runs on.                  *)
Abandon(q) ==
    /\ req[q].pc \in Locking
    /\ ~req[q].abandoned
    /\ SetReq(q, [req[q] EXCEPT !.abandoned = TRUE])
    /\ UNCHANGED <<now, state, renewal, ledger, life, uses, judged>>

Lock(q) ==
    /\ req[q].pc = "wait"
    /\ LockFree(req[q].scope)
    /\ SetReq(q, [req[q] EXCEPT !.pc = "issue"])
    /\ UNCHANGED <<now, state, renewal, ledger, life, uses, judged>>

Reset(s) ==
    /\ SetState(s, EmptyState)
    /\ renewal' = [renewal EXCEPT ![s] = NoRenewal]
    /\ judged' = [judged EXCEPT ![s] = [i \in Instances |-> Unjudged]]

(***************************************************************************)
(* issue returned an error with st in the scope: release the lock, and     *)
(* forget a scope that is left with no verdict and no other user.  The     *)
(* renewal task is a user too while it waits for the lock.                 *)
(***************************************************************************)
Fail(q, st) ==
    LET s == req[q].scope
        forgettable == /\ ~req[q].abandoned
                       /\ Present(st.admitted) = {} /\ Present(st.rejected) = {}
                       /\ UsersOf(s) = {q}
    IN  /\ SetReq(q, NoRequest)
        /\ \/ forgettable /\ Reset(s)
           \/ /\ forgettable => renewal[s].pc # "off"
              /\ SetState(s, st)
              /\ UNCHANGED <<renewal, judged>>
        /\ UNCHANGED <<now, life, uses>>

(* Mutant: the ledger forgets a nonce when its own pool stops issuing it.  *)
EnterUntilIssue(st, n) ==
    /\ ledger' = [Ledger EXCEPT ![n] = st.issueUntil]
    /\ uses' = [uses EXCEPT ![n] = IF now < life[n] THEN @ + 1 ELSE @]

(* The ticket for nonce n is made and entered in the ledger.               *)
Enter(st, n) ==
    /\ ledger' = [Ledger EXCEPT ![n] = st.validUntil]
    /\ uses' = [uses EXCEPT ![n] = IF now < life[n] THEN @ + 1 ELSE @]

(* issue finds a ticket; ticket() then marks the scope served and warm.    *)
IssueTicket(q) ==
    LET s == req[q].scope
        st == Prune(state[s])
        served == ~req[q].abandoned
    IN
    /\ req[q].pc = "issue"
    /\ ~LedgerFull
    /\ \E D \in SUBSET Issued, i \in Instances, n \in Nonces :
          /\ Pops(st, {}, D, i, n)
          /\ Enter(st, n)
          /\ SetState(s, [st EXCEPT
                !.pool = Without(@, D \cup {n}, Eligible(st, {})),
                !.lastServed = IF served THEN now ELSE @])
          /\ SetReq(q, IF served THEN [NoRequest EXCEPT !.pc = "invoke", !.scope = s,
                                                        !.instance = i, !.nonce = n]
                                 ELSE NoRequest)
    /\ renewal' = IF served /\ renewal[s].pc = "off"
                  THEN [renewal EXCEPT ![s] = [NoRenewal EXCEPT !.pc = "asleep"]]
                  ELSE renewal
    /\ UNCHANGED <<now, life, judged>>

(* A nonce could be issued, but the ledger is full: fail closed.           *)
IssueLedgerFull(q) ==
    LET s == req[q].scope
        st == Prune(state[s])
    IN
    /\ req[q].pc = "issue"
    /\ LedgerFull
    /\ \E D \in SUBSET Issued, i \in Instances, n \in Nonces :
          /\ Pops(st, {}, D, i, n)
          /\ Fail(q, [st EXCEPT !.pool = Without(@, D \cup {n}, Eligible(st, {}))])
    /\ ledger' = Ledger

(* The instances issue would judge next, and whether it would.             *)
Batch(q, st) == ToJudge(st) \ req[q].unevidenced

WouldAdmit(q, st) == Batch(q, st) # {} /\ req[q].admissions < MaxAdmissions

WouldDiscover(q, st) ==
    /\ ~WouldAdmit(q, st)
    /\ req[q].discoveries = 0 \/ st.listed = {}
    /\ req[q].discoveries < MaxDiscoveries

(* The loop of issue finds no ticket in what prune and take_ticket leave.  *)
Searched(q) == Drained(Prune(state[req[q].scope]), {})

NoneFound(q) == req[q].pc = "issue" /\ NoTicket(Prune(state[req[q].scope]), {})

PruneLedger(st) == ledger' = IF st.validUntil = None THEN ledger ELSE Ledger

(* An evidence call is charged and begins.                                 *)
IssueAdmit(q) ==
    LET s == req[q].scope
        st == Searched(q)
    IN
    /\ NoneFound(q)
    /\ WouldAdmit(q, st)
    /\ SetState(s, st)
    /\ PruneLedger(st)
    /\ SetReq(q, [req[q] EXCEPT !.pc = "admit", !.admissions = @ + 1,
                                !.batch = Batch(q, st), !.at = now])
    /\ UNCHANGED <<now, renewal, life, uses, judged>>

(* Mutant: the discovery is not counted.                                   *)
DiscoverUncounted(q) ==
    LET s == req[q].scope
        st == Searched(q)
    IN
    /\ NoneFound(q)
    /\ WouldDiscover(q, st)
    /\ SetState(s, st)
    /\ PruneLedger(st)
    /\ SetReq(q, [req[q] EXCEPT !.pc = "discover", !.at = now])
    /\ UNCHANGED <<now, renewal, life, uses, judged>>

(* A discovery is claimed and charged, and begins.                         *)
IssueDiscover(q) ==
    LET s == req[q].scope
        st == Searched(q)
    IN
    /\ NoneFound(q)
    /\ WouldDiscover(q, st)
    /\ SetState(s, st)
    /\ PruneLedger(st)
    /\ SetReq(q, [req[q] EXCEPT !.pc = "discover", !.discoveries = @ + 1, !.at = now])
    /\ UNCHANGED <<now, renewal, life, uses, judged>>

(* Nothing more may be tried, or the budget denies the call.               *)
IssueFails(q) ==
    /\ NoneFound(q)
    /\ PruneLedger(Searched(q))
    /\ Fail(q, Searched(q))

(* The evidence call answers; its verdicts are recorded under the lock.    *)
AdmitReturns(q) ==
    LET s == req[q].scope IN
    /\ req[q].pc = "admit"
    /\ state[s].generation < MaxGeneration
    /\ \E v \in [req[q].batch -> Outcomes(req[q].at)] :
          /\ SetState(s, Record(state[s], v, req[q].at, None))
          /\ Judge(s, v, state[s].generation, None)
          /\ SetReq(q, [req[q] EXCEPT !.pc = "issue", !.batch = {}, !.at = 0,
                !.unevidenced = @ \cup {i \in req[q].batch : v[i].kind = "none"}])
    /\ UNCHANGED <<now, renewal, ledger, life, uses>>

(***************************************************************************)
(* Chutes answers a discovery with the nonces of its instances, which it   *)
(* made between the request and the response and which stay valid for the  *)
(* lifetime it states.  It may list a nonce again while it is valid.       *)
(***************************************************************************)
DiscoverReturns(q) ==
    LET s == req[q].scope IN
    /\ req[q].pc = "discover"
    /\ \E f \in [Nonces -> Maybe(Instances)], l \in Lifetimes, made \in req[q].at .. now :
          LET N == {n \in Nonces : f[n] # None}
              pool == [i \in Instances |-> {n \in N : f[n] = i}]
          IN  /\ \A n \in N : made < life[n] => life[n] = made + l
              /\ SetState(s, Refill(state[s], pool, req[q].at, l))
              /\ life' = [n \in Nonces |-> IF n \in N THEN made + l ELSE life[n]]
              /\ uses' = [n \in Nonces |-> IF n \in N /\ made >= life[n] THEN 0 ELSE uses[n]]
    /\ SetReq(q, [req[q] EXCEPT !.pc = "issue", !.at = 0])
    /\ UNCHANGED <<now, renewal, ledger, judged>>

(* The discovery or the evidence call fails.                               *)
CallFails(q) ==
    /\ req[q].pc \in {"admit", "discover"}
    /\ Fail(q, state[req[q].scope])
    /\ UNCHANGED ledger

(***************************************************************************)
(* The admission task panics in a call.  Its caller, if it is still there, *)
(* waits for the lock to invalidate the scope.                             *)
(***************************************************************************)
Panic(q) ==
    /\ req[q].pc \in {"admit", "discover"}
    /\ SetReq(q, IF req[q].abandoned THEN NoRequest
                 ELSE [NoRequest EXCEPT !.pc = "invalidate", !.scope = req[q].scope])
    /\ UNCHANGED <<now, state, renewal, ledger, life, uses, judged>>

Invalidate(q) ==
    /\ req[q].pc = "invalidate"
    /\ LockFree(req[q].scope)
    /\ Reset(req[q].scope)
    /\ SetReq(q, NoRequest)
    /\ UNCHANGED <<now, ledger, life, uses>>

(* A scope that no request refers to is evicted from the map and dropped.  *)
Evict(s) ==
    /\ UsersOf(s) = {}
    /\ state[s] # EmptyState \/ renewal[s] # NoRenewal
    /\ Reset(s)
    /\ UNCHANGED <<now, req, ledger, life, uses>>

(* The invocation is answered, or fails, or no other instance is tried.    *)
Answered(q) ==
    /\ req[q].pc = "invoke"
    /\ SetReq(q, NoRequest)
    /\ UNCHANGED <<now, state, renewal, ledger, life, uses, judged>>

(* The instance turned the request away: retry_ticket for another one.     *)
RetryTicket(q) ==
    LET s == req[q].scope
        st == Prune(state[s])
        avoid == req[q].turnedAway \cup {req[q].instance}
    IN
    /\ req[q].pc = "invoke"
    /\ Cardinality(avoid) < MaxInvoke
    /\ LockFree(s)
    /\ ~LedgerFull
    /\ \E D \in SUBSET Issued, i \in Instances, n \in Nonces :
          /\ Pops(st, avoid, D, i, n)
          /\ Enter(st, n)
          /\ SetState(s, [st EXCEPT
                !.pool = Without(@, D \cup {n}, Eligible(st, avoid)),
                !.lastServed = now])
          /\ SetReq(q, [req[q] EXCEPT !.turnedAway = avoid, !.instance = i,
                                      !.nonce = n])
    /\ UNCHANGED <<now, renewal, life, judged>>

(***************************************************************************)
(* retry_ticket finds no other instance, or the ledger is full: no retry,  *)
(* and the state is pruned all the same.                                   *)
(***************************************************************************)
RetryNone(q) ==
    LET s == req[q].scope
        avoid == req[q].turnedAway \cup {req[q].instance}
        st == Prune(state[s])
    IN
    /\ req[q].pc = "invoke"
    /\ Cardinality(avoid) < MaxInvoke
    /\ LockFree(s)
    /\ \/ NoTicket(st, avoid) /\ SetState(s, Drained(st, avoid))
       \/ /\ LedgerFull
          /\ \E D \in SUBSET Issued, i \in Instances, n \in Nonces :
                /\ Pops(st, avoid, D, i, n)
                /\ SetState(s, [st EXCEPT !.pool =
                                  Without(@, D \cup {n}, Eligible(st, avoid))])
    /\ PruneLedger(st)
    /\ SetReq(q, NoRequest)
    /\ UNCHANGED <<now, renewal, life, uses, judged>>

-----------------------------------------------------------------------------
(* renew_while_warm                                                        *)

Earliest(st) == CHOOSE t \in {st.admitted[i] : i \in Present(st.admitted)} :
                  \A i \in Present(st.admitted) : t <= st.admitted[i]

Later(a, b) == IF a > b THEN a ELSE b

Awake(s) ==
    /\ renewal[s].pc = "asleep"
    /\ renewal[s].wake <= now
    /\ LockFree(s)

(* Nothing is admitted any more, or nothing was served for a whole TTL.    *)
RenewalStops(s) ==
    LET st == Prune(state[s]) IN
    /\ Awake(s)
    /\ Present(st.admitted) = {} \/ ~Warm(st)
    /\ SetState(s, st)
    /\ renewal' = [renewal EXCEPT ![s] = NoRenewal]
    /\ UNCHANGED <<now, req, ledger, life, uses, judged>>

(* When the renewal planned for target may be tried.                       *)
Wake(st, target) ==
    IF st.lastRecorded = None THEN target ELSE Later(target, st.lastRecorded + MinInterval)

Targets(s, st) ==
    IF renewal[s].planned # None THEN {renewal[s].planned}
    ELSE {Earliest(st) - RefreshAhead - j : j \in 0 .. RenewJitter}

RenewalPlans(s) ==
    LET st == Prune(state[s]) IN
    /\ Awake(s)
    /\ Present(st.admitted) # {} /\ Warm(st)
    /\ SetState(s, st)
    /\ \E target \in Targets(s, st) :
          /\ Wake(st, target) > now
          /\ renewal' = [renewal EXCEPT ![s].planned = target, ![s].wake = Wake(st, target)]
    /\ UNCHANGED <<now, req, ledger, life, uses, judged>>

(***************************************************************************)
(* The evidence call is charged and begins, with the lock released; or it  *)
(* is denied, which backs evidence calls off until after now.              *)
(***************************************************************************)
RenewalFetches(s) ==
    LET st == Prune(state[s]) IN
    /\ Awake(s)
    /\ Present(st.admitted) # {} /\ Warm(st)
    /\ \E target \in Targets(s, st) : Wake(st, target) <= now
    /\ \/ /\ SetState(s, [st EXCEPT !.renewalSince = st.generation])
          /\ renewal' = [renewal EXCEPT ![s] =
                [pc |-> "fetching", planned |-> None, wake |-> 0,
                 due |-> Expiring(st, now + RefreshAhead + RenewJitter),
                 since |-> st.generation, anchor |-> now]]
       \/ /\ SetState(s, st)
          /\ renewal' = [renewal EXCEPT ![s].planned = None, ![s].wake = now + 1]
    /\ UNCHANGED <<now, req, ledger, life, uses, judged>>

(* The evidence call answers and the lock is taken again.                  *)
RenewalLands(s) ==
    LET r == renewal[s]
        st == [state[s] EXCEPT !.renewalSince = None]
    IN
    /\ r.pc = "fetching"
    /\ LockFree(s)
    /\ st.generation < MaxGeneration
    /\ \E v \in [r.due -> Outcomes(r.anchor)] :
          /\ SetState(s, Record(st, v, r.anchor, r.since))
          /\ Judge(s, v, r.since, r.since)
    /\ renewal' = [renewal EXCEPT ![s] = [NoRenewal EXCEPT !.pc = "asleep"]]
    /\ UNCHANGED <<now, req, ledger, life, uses>>

(* It fails: evidence calls back off and the admissions stay as they are.  *)
RenewalFails(s) ==
    /\ renewal[s].pc = "fetching"
    /\ LockFree(s)
    /\ SetState(s, [state[s] EXCEPT !.renewalSince = None])
    /\ renewal' = [renewal EXCEPT ![s] = [NoRenewal EXCEPT !.pc = "asleep", !.wake = now + 1]]
    /\ UNCHANGED <<now, req, ledger, life, uses, judged>>

Tick ==
    /\ now < MaxTime
    /\ now' = now + 1
    /\ UNCHANGED <<state, renewal, req, ledger, life, uses, judged>>

-----------------------------------------------------------------------------
Working(q) ==
    \/ Lock(q) \/ GiveUp(q)
    \/ IssueTicket(q) \/ IssueLedgerFull(q) \/ IssueAdmit(q) \/ IssueDiscover(q)
    \/ IssueFails(q) \/ AdmitReturns(q) \/ DiscoverReturns(q) \/ CallFails(q)
    \/ Invalidate(q)

Renewing(s) ==
    \/ RenewalStops(s) \/ RenewalPlans(s) \/ RenewalFetches(s)
    \/ RenewalLands(s) \/ RenewalFails(s)

Next ==
    \/ \E q \in Requests :
          \/ \E s \in Scopes : Ask(q, s)
          \/ Working(q) \/ Abandon(q) \/ Panic(q)
          \/ Answered(q) \/ RetryTicket(q) \/ RetryNone(q)
    \/ \E s \in Scopes : Renewing(s) \/ Evict(s)
    \/ Tick

Spec == Init /\ [][Next]_vars

(***************************************************************************)
(* Every call of the admission task is under a client timeout, so each of  *)
(* a request's own steps is taken if it stays possible; tokio's Mutex is   *)
(* handed on in order, so a waiter that finds it free again and again gets *)
(* it.                                                                     *)
(***************************************************************************)
FairSpec ==
    /\ Spec
    /\ \A q \in Requests : WF_vars(Working(q)) /\ SF_vars(Invalidate(q))

-----------------------------------------------------------------------------
(* Properties                                                              *)

ChuteState ==
    [listed : SUBSET Instances, pool : [Instances -> SUBSET Nonces],
     issueUntil : Maybe(Int), validUntil : Maybe(Int),
     admitted : [Instances -> Maybe(Int)], rejected : [Instances -> Maybe(Int)],
     lastServed : Maybe(Int), generation : Nat,
     decided : [Instances -> Maybe(Nat)], renewalSince : Maybe(Nat),
     lastRecorded : Maybe(Int)]

Renewal == [pc : {"off", "asleep", "fetching"}, planned : Maybe(Int), wake : Int,
            due : SUBSET Instances, since : Nat, anchor : Int]

Request == [pc : {"idle", "wait", "issue", "admit", "discover", "invalidate", "invoke"},
            scope : Maybe(Scopes), discoveries : 0 .. MaxDiscoveries,
            admissions : 0 .. MaxAdmissions,
            unevidenced : SUBSET Instances, batch : SUBSET Instances, at : Int,
            abandoned : BOOLEAN, turnedAway : SUBSET Instances,
            instance : Maybe(Instances), nonce : Maybe(Nonces)]

Judged == [began : Nat, rejectedAt : Nat, expires : Int]

(* Every variable has its type.                                            *)
TypeOK ==
    /\ now \in Nat
    /\ state \in [Scopes -> ChuteState]
    /\ renewal \in [Scopes -> Renewal]
    /\ req \in [Requests -> Request]
    /\ ledger \in [Nonces -> Maybe(Int)]
    /\ life \in [Nonces -> Int]
    /\ uses \in [Nonces -> Nat]
    /\ judged \in [Scopes -> [Instances -> Judged]]

(***************************************************************************)
(* No two tickets are issued with the same nonce while Chutes accepts it,  *)
(* even when a rediscovery, or a discovery under another credential, lists *)
(* the nonce again: the ledger outlasts the nonce's validity, the pool is  *)
(* dropped before it ends (ChuteState::refill, NonceLedger).               *)
(***************************************************************************)
NoncesOnce == \A n \in Nonces : uses[n] <= 1

(***************************************************************************)
(* An admission in force rests on evidence whose fetch began no earlier    *)
(* than the last rejection of that instance: a renewal that began before a *)
(* rejection was recorded cannot undo it when it lands later, even after   *)
(* the rejection itself has expired (ChuteState::record and prune).        *)
(***************************************************************************)
LaterRejectionWins ==
    \A s \in Scopes, i \in Instances :
        state[s].admitted[i] # None => judged[s][i].rejectedAt <= judged[s][i].began

Granted(q) ==
    /\ req'[q].pc = "invoke"
    /\ req[q].pc # "invoke" \/ req[q].nonce # req'[q].nonce

(***************************************************************************)
(* At the moment a ticket is issued, its nonce is still valid at Chutes    *)
(* for the whole margin, the evidence that admitted its instance has not   *)
(* expired, and the instance has not already turned this request away.     *)
(***************************************************************************)
TicketSound(q) ==
    Granted(q) =>
      /\ now + NonceMargin < life[req'[q].nonce]
      /\ now < judged[req'[q].scope][req'[q].instance].expires
      /\ req'[q].instance \notin req'[q].turnedAway

(* Every ticket is sound when it is cut (take_ticket, Deadline, refill).   *)
TicketsSound == [][\A q \in Requests : TicketSound(q)]_vars

(***************************************************************************)
(* Whatever the calls answer, issue ends: a request that has its scope's   *)
(* lock gets a ticket or an error and releases the lock.                   *)
(***************************************************************************)
IssueEnds == \A q \in Requests : req[q].pc = "issue" ~> req[q].pc \in {"idle", "invoke"}
=============================================================================
