---------------------------- MODULE ChutesBudgets ----------------------------
(***************************************************************************)
(* The budgets of admission.rs: per credential, how often Chutes is asked, *)
(* the single-flight gate of discoveries and the backoffs of each chute.   *)
(* A budget that holds nothing is dropped by the next call of any          *)
(* credential, so the limits must survive the budget being dropped and     *)
(* made again.  Workers are the callers: requests (Issuer::issue) and      *)
(* renewals (renew_while_warm); each step of a worker is one call of       *)
(* Discoveries, made under its mutex.                                      *)
(***************************************************************************)
EXTENDS Integers, Sequences, FiniteSets

CONSTANTS
    Credentials, Chutes, Workers,
    Gates,           \* identities of Budget::in_flight locks
    DiscoveryLimit,  \* DISCOVERIES_PER_MINUTE
    EvidenceLimit,   \* EVIDENCE_PER_MINUTE
    Window,          \* DISCOVERY_WINDOW and RATE_WINDOW
    Slack,           \* RATE_WINDOW_SLACK
    Jitter,          \* RATE_JITTER
    BackoffStart,    \* BACKOFF_START
    BackoffMax,      \* BACKOFF_MAX
    RefusalBackoff,  \* REFUSAL_BACKOFF
    MaxCredentials,  \* MAX_CREDENTIALS
    MaxTime,         \* bound on the clock
    MaxCalls,        \* bound on the evidence calls of a credential
    None

ASSUME ConstantsAssumption ==
    /\ {DiscoveryLimit, EvidenceLimit, Window, Slack, Jitter, BackoffStart, BackoffMax,
        RefusalBackoff, MaxCredentials, MaxTime, MaxCalls} \subseteq Nat
    /\ Window > 0 /\ BackoffStart > 0 /\ BackoffStart <= BackoffMax
    /\ None \notin Gates /\ None \notin Credentials /\ None \notin Chutes

VARIABLES
    now,
    held,     \* credentials that have a Budget in Discoveries::budgets
    budget,   \* budget[c]: the Budget of c, if c is held
    worker,   \* worker[w]: what caller w is doing
    log,      \* log[c]: when each evidence call of c began, and for which chute
    quiet     \* quiet[c][x]: until when Chutes' refusals ask for no evidence call

vars == <<now, held, budget, worker, log, quiet>>

NoBackoff == [until |-> 0, step |-> 0]

EmptyBudget == [gate |-> None, recent |-> <<>>, evidence |-> <<>>,
                backoff |-> [x \in Chutes |-> NoBackoff],
                evidenceBackoff |-> [x \in Chutes |-> NoBackoff]]

Resting == [pc |-> "rest", cred |-> None, chute |-> None, gate |-> None]

Init ==
    /\ now = 0
    /\ held = {}
    /\ budget = [c \in Credentials |-> EmptyBudget]
    /\ worker = [w \in Workers |-> Resting]
    /\ log = [c \in Credentials |-> <<>>]
    /\ quiet = [c \in Credentials |-> [x \in Chutes |-> 0]]

-----------------------------------------------------------------------------
(* Budget                                                                  *)

(* Times are popped from the front up to the first within the window.      *)
Recent(times) ==
    LET live == {k \in 1 .. Len(times) : times[k] + Window > now}
        first == CHOOSE k \in live : \A j \in live : k <= j
    IN  IF live = {} THEN <<>> ELSE SubSeq(times, first, Len(times))

KeepBackoffs(f) ==
    [x \in Chutes |-> IF f[x].until + 2 * BackoffMax > now THEN f[x] ELSE NoBackoff]

Prune(b) == [b EXCEPT !.recent = Recent(@), !.evidence = Recent(@),
                      !.backoff = KeepBackoffs(@), !.evidenceBackoff = KeepBackoffs(@)]

GateUsers(g) == {w \in Workers : worker[w].gate = g}

(* Mutant: a budget counts as idle while its evidence calls still count.   *)
IdleForgetsEvidence(b) ==
    /\ b.recent = <<>>
    /\ \A x \in Chutes : b.backoff[x] = NoBackoff /\ b.evidenceBackoff[x] = NoBackoff
    /\ GateUsers(b.gate) = {}

(* Mutant: a budget counts as idle while a caller refers to its gate.      *)
IdleForgetsGate(b) ==
    /\ b.recent = <<>> /\ b.evidence = <<>>
    /\ \A x \in Chutes : b.backoff[x] = NoBackoff /\ b.evidenceBackoff[x] = NoBackoff

Idle(b) ==
    /\ b.recent = <<>> /\ b.evidence = <<>>
    /\ \A x \in Chutes : b.backoff[x] = NoBackoff /\ b.evidenceBackoff[x] = NoBackoff
    /\ GateUsers(b.gate) = {}

BackingOff(b, x) == b.backoff[x].until > now

EvidenceBackingOff(b, x) == b.evidenceBackoff[x].until > now

-----------------------------------------------------------------------------
(* Discoveries                                                             *)

(* What with_budget's retain leaves.                                       *)
Kept == {c \in held : ~Idle(Prune(budget[c]))}

Admissible(c) == c \in Kept \/ Cardinality(Kept) < MaxCredentials

FreeGates == {g \in Gates : GateUsers(g) = {} /\ \A c \in held : budget[c].gate # g}

(* entry(credential).or_default()                                          *)
Entry(H, B, c, g) == IF c \in H THEN B[c] ELSE [EmptyBudget EXCEPT !.gate = g]

(* The budgets after the sweep.                                            *)
Swept == [c \in Credentials |-> IF c \in Kept THEN Prune(budget[c]) ELSE EmptyBudget]

(* with_budget: sweep, then store f(the budget of c).                      *)
WithBudget(c, f(_)) ==
    \E g \in FreeGates :
       /\ held' = Kept \cup {c}
       /\ budget' = [Swept EXCEPT ![c] = f(Entry(Kept, Swept, c, g))]

Same(b) == b

DiscoveryDenied(b, x) == BackingOff(b, x) \/ Len(b.recent) >= DiscoveryLimit

EvidenceDenied(b, x) ==
    BackingOff(b, x) \/ EvidenceBackingOff(b, x) \/ Len(b.evidence) >= EvidenceLimit

UntilNextWindow == Window - (now % Window) + Slack

Max2(a, b) == IF a > b THEN a ELSE b

Min2(a, b) == IF a < b THEN a ELSE b

Errors == {"rate_limited", "below_minimum", "other"}

BackoffWait(error, step, spread) ==
    CASE error = "rate_limited"  -> Max2(step, UntilNextWindow + spread)
      [] error = "below_minimum" -> RefusalBackoff
      [] error = "other"         -> step

BackOff(old, error, spread) ==
    LET step == IF old = NoBackoff THEN BackoffStart ELSE Min2(old.step * 2, BackoffMax)
        until == now + BackoffWait(error, step, spread)
    IN  [until |-> Max2(old.until, until), step |-> step]

Refusal(error) == error \in {"rate_limited", "below_minimum"}

(* Chutes' answer asks for quiet; the properties remember for how long.    *)
Hush(c, x, error) ==
    quiet' = [quiet EXCEPT ![c][x] =
        IF Refusal(error)
        THEN Max2(@, now + BackoffWait(error, BackoffStart, 0))
        ELSE @]

(* failed: on the request path.                                            *)
Failed(c, x, error) ==
    \E g \in FreeGates, spread, spread2 \in 0 .. Jitter :
       LET b == Entry(held, budget, c, g) IN
       /\ held' = held \cup {c}
       /\ budget' = [budget EXCEPT ![c] = [b EXCEPT
             !.backoff[x] = BackOff(@, error, spread),
             !.evidenceBackoff[x] = IF Refusal(error) THEN BackOff(@, error, spread2) ELSE @]]

(* evidence_failed: on the renewal path, with the budgets B of H held.     *)
EvidenceFailed(H, B, c, x, error) ==
    \E g \in FreeGates, spread \in 0 .. Jitter :
       LET b == Entry(H, B, c, g) IN
       /\ held' = H \cup {c}
       /\ budget' = [B EXCEPT ![c] =
             [b EXCEPT !.evidenceBackoff[x] = BackOff(@, error, spread)]]

(* Mutant: a ticket served from the cache clears the evidence backoff too. *)
ClearedBoth(c, x) ==
    IF c \in held
    THEN [budget EXCEPT ![c].backoff[x] = NoBackoff, ![c].evidenceBackoff[x] = NoBackoff]
    ELSE budget

(* succeeded: a ticket was issued.                                         *)
Cleared(c, x) ==
    IF c \in held THEN [budget EXCEPT ![c].backoff[x] = NoBackoff] ELSE budget

-----------------------------------------------------------------------------
(* The callers                                                             *)

Does(w, pc, c, x, g) ==
    worker' = [worker EXCEPT ![w] = [pc |-> pc, cred |-> c, chute |-> x, gate |-> g]]

Rests(w) == worker' = [worker EXCEPT ![w] = Resting]

(* claim: fail fast, or take a reference to the gate.                      *)
Claim(w, c, x) ==
    /\ worker[w].pc = "rest"
    /\ Admissible(c)
    /\ WithBudget(c, Same)
    /\ \/ DiscoveryDenied(Swept[c], x) /\ UNCHANGED worker
       \/ ~DiscoveryDenied(Swept[c], x) /\ Does(w, "gate", c, x, budget'[c].gate)
    /\ UNCHANGED <<now, log, quiet>>

GateFree(g) == \A w \in GateUsers(g) : worker[w].pc = "gate"

(* The gate is locked and charge rechecks: the discovery begins, or not.   *)
ChargeDiscovery(w) ==
    LET c == worker[w].cred
        x == worker[w].chute
        add(b) == [b EXCEPT !.recent = Append(@, now)]
    IN
    /\ worker[w].pc = "gate"
    /\ GateFree(worker[w].gate)
    /\ Admissible(c)
    /\ \/ /\ DiscoveryDenied(Swept[c], x)
          /\ WithBudget(c, Same)
          /\ Rests(w)
       \/ /\ ~DiscoveryDenied(Swept[c], x)
          /\ WithBudget(c, add)
          /\ Does(w, "discover", c, x, worker[w].gate)
    /\ UNCHANGED <<now, log, quiet>>

(* charge_evidence lets the evidence call of w begin.                      *)
Charge(w, c, x, pc) ==
    LET add(b) == [b EXCEPT !.evidence = Append(@, now)] IN
    /\ worker[w].pc = "rest"
    /\ Admissible(c)
    /\ Len(log[c]) < MaxCalls
    /\ ~EvidenceDenied(Swept[c], x)
    /\ WithBudget(c, add)
    /\ Does(w, pc, c, x, None)
    /\ log' = [log EXCEPT ![c] = Append(@, [at |-> now, chute |-> x])]
    /\ UNCHANGED <<now, quiet>>

RequestEvidence(w, c, x) == Charge(w, c, x, "admit")

(* It denies a request's: nothing but the sweep happens.                   *)
EvidenceRefused(w, c, x) ==
    /\ worker[w].pc = "rest"
    /\ Admissible(c)
    /\ EvidenceDenied(Swept[c], x)
    /\ WithBudget(c, Same)
    /\ UNCHANGED <<now, worker, log, quiet>>

(* Discoveries::evidence_blocked_until, which a renewal sleeps through.    *)
Blocked(c, x) ==
    c \in held /\ (BackingOff(budget[c], x) \/ EvidenceBackingOff(budget[c], x))

RenewalEvidence(w, c, x) == ~Blocked(c, x) /\ Charge(w, c, x, "renew")

(* It denies a renewal's, which then backs evidence calls off.             *)
RenewalRefused(w, c, x) ==
    /\ worker[w].pc = "rest"
    /\ ~Blocked(c, x)
    /\ ~Admissible(c) \/ EvidenceDenied(Swept[c], x)
    /\ EvidenceFailed(Kept, Swept, c, x, "other")
    /\ UNCHANGED <<now, worker, log, quiet>>

(***************************************************************************)
(* A request fails with its discovery or evidence call, or after it,       *)
(* because no instance is left to try.                                     *)
(***************************************************************************)
CallFails(w) ==
    LET c == worker[w].cred
        x == worker[w].chute
    IN
    /\ worker[w].pc \in {"discover", "admit"}
    /\ \E error \in Errors : Failed(c, x, error) /\ Hush(c, x, error)
    /\ Rests(w)
    /\ UNCHANGED <<now, log>>

(* A renewal's evidence call fails.                                        *)
RenewalFails(w) ==
    LET c == worker[w].cred
        x == worker[w].chute
    IN
    /\ worker[w].pc = "renew"
    /\ \E error \in Errors : EvidenceFailed(held, budget, c, x, error) /\ Hush(c, x, error)
    /\ Rests(w)
    /\ UNCHANGED <<now, log>>

(* The call answers.                                                       *)
CallReturns(w) ==
    /\ worker[w].pc \in {"discover", "admit", "renew"}
    /\ Rests(w)
    /\ UNCHANGED <<now, held, budget, log, quiet>>

(* A request of c for x is served, from the cache or after its calls.      *)
Served(w, c, x) ==
    /\ worker[w].pc = "rest"
    /\ c \in held
    /\ budget' = Cleared(c, x)
    /\ UNCHANGED <<now, held, worker, log, quiet>>

Tick ==
    /\ now < MaxTime
    /\ now' = now + 1
    /\ UNCHANGED <<held, budget, worker, log, quiet>>

Next ==
    \/ \E w \in Workers :
          \/ ChargeDiscovery(w) \/ CallFails(w) \/ RenewalFails(w) \/ CallReturns(w)
          \/ \E c \in Credentials, x \in Chutes :
                \/ Claim(w, c, x)
                \/ RequestEvidence(w, c, x) \/ EvidenceRefused(w, c, x)
                \/ RenewalEvidence(w, c, x) \/ RenewalRefused(w, c, x)
                \/ Served(w, c, x)
    \/ Tick

Spec == Init /\ [][Next]_vars

-----------------------------------------------------------------------------
(* Properties                                                              *)

Backoff == [until : Nat, step : 0 .. BackoffMax]

Budget == [gate : Gates \cup {None}, recent : Seq(Nat), evidence : Seq(Nat),
           backoff : [Chutes -> Backoff], evidenceBackoff : [Chutes -> Backoff]]

(* Every variable has its type.                                            *)
TypeOK ==
    /\ now \in Nat
    /\ held \subseteq Credentials
    /\ budget \in [Credentials -> Budget]
    /\ worker \in [Workers -> [pc : {"rest", "gate", "discover", "admit", "renew"},
                               cred : Credentials \cup {None}, chute : Chutes \cup {None},
                               gate : Gates \cup {None}]]
    /\ log \in [Credentials -> Seq([at : Nat, chute : Chutes])]
    /\ quiet \in [Credentials -> [Chutes -> Nat]]

(***************************************************************************)
(* In any window, no credential begins more evidence calls than            *)
(* EVIDENCE_PER_MINUTE, however often its budget is swept and made again.  *)
(***************************************************************************)
EvidenceRate ==
    \A c \in Credentials :
        Cardinality({k \in DOMAIN log[c] : log[c][k].at + Window > now}) <= EvidenceLimit

(***************************************************************************)
(* A credential has at most one discovery in flight: a budget is not       *)
(* dropped while a caller refers to its gate, so no second gate appears.   *)
(***************************************************************************)
SingleFlight ==
    \A v, w \in Workers :
        /\ v # w /\ worker[v].pc = "discover" /\ worker[w].pc = "discover"
        => worker[v].cred # worker[w].cred

(***************************************************************************)
(* After Chutes rate-limits or refuses a chute, no evidence call for it    *)
(* begins until the wait is over, on either path, even when a ticket from  *)
(* the cache clears the request backoff meanwhile (Discoveries::failed,    *)
(* succeeded, Budget::idle).                                               *)
(***************************************************************************)
QuietAfterRefusal ==
    [][\A c \in Credentials, x \in Chutes :
          log'[c] = Append(log[c], [at |-> now, chute |-> x]) => quiet[c][x] <= now]_vars

==============================================================================
