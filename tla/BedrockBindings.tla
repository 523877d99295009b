--------------------------- MODULE BedrockBindings ---------------------------
(***************************************************************************)
(* The Bedrock Mantle adapter's model bindings                             *)
(* (attestd/src/bedrock_mantle.rs): the cache of registry snapshots, the   *)
(* one task that refreshes it, and the requests that look a binding up,    *)
(* nudge that task and wait for it over two watch channels.  An action is  *)
(* what runs between two awaits; the cache's lock is held within one.      *)
(***************************************************************************)
EXTENDS Integers, FiniteSets, Option

CONSTANTS
    Models, Selectors,     \* canonical models; (upstream, response) model pairs
    MaxRevision,           \* bound on revisions
    Requests,
    RefreshInterval,       \* BINDINGS_REFRESH_INTERVAL
    MinInterval,           \* BINDINGS_ON_DEMAND_MIN_INTERVAL
    Timeout,               \* BINDINGS_REFRESH_TIMEOUT
    InitialDelay,          \* BINDINGS_RETRY_INITIAL_DELAY
    MaxDelay,              \* BINDINGS_RETRY_MAX_DELAY
    FreshnessTTL,          \* BINDINGS_FRESHNESS_TTL
    MaxGeneration,         \* bound on refreshes
    MaxTime                \* bound on the clock

(* The compile-time assertion on the delays, and what the values satisfy.  *)
ASSUME DelaysAssumption ==
    /\ MaxRevision \in Nat /\ MaxGeneration \in Nat /\ MaxTime \in Nat
    /\ MinInterval \in Nat /\ Timeout \in Nat /\ FreshnessTTL \in Nat
    /\ InitialDelay \in Nat \ {0} /\ MaxDelay \in Nat /\ RefreshInterval \in Nat
    /\ MinInterval <= InitialDelay /\ InitialDelay <= MaxDelay
    /\ Timeout + MaxDelay + MaxDelay \div 4 < RefreshInterval

ASSUME NoneAssumption ==
    /\ None \notin Nat
    /\ None \notin [revision : 1 .. MaxRevision, selectors : Selectors]
    /\ None \notin [revision : 0 .. MaxRevision,
                    bindings : [Models -> [revision : 1 .. MaxRevision, selectors : Selectors]
                                            \cup {None}]]

VARIABLES
    now,
    cache,      \* BindingCache: snapshot (or None), fetchedAt, highest
    task,       \* run_binding_refresher's locals and place
    nudge,      \* the nudge channel's value; seen: by the refresher
    status,     \* the status channel's value: BindingRefreshStatus
    req,        \* requests; seen: the status channel's, by each
    bound       \* history: the row a request for each model was last bound to

vars == <<now, cache, task, nudge, status, req, bound>>

Row == [revision : 1 .. MaxRevision, selectors : Selectors]

(* parse_bindings_payload: a snapshot's rows are no newer than it is.      *)
Snapshot == {s \in [revision : 0 .. MaxRevision, bindings : [Models -> Row \cup {None}]] :
               \A m \in Models : s.bindings[m] # None => s.bindings[m].revision <= s.revision}

NoRequest == [pc |-> "idle", model |-> None, revision |-> 0, generation |-> 0,
              deadline |-> 0, until |-> 0, seen |-> TRUE]

Init ==
    /\ now = 0
    /\ cache = [snapshot |-> None, fetchedAt |-> 0, highest |-> [m \in Models |-> None]]
    /\ task = [pc |-> "plan", delay |-> 0, completedAt |-> None, nextAttempt |-> None,
               generation |-> 0, pending |-> FALSE, demandAt |-> None, wakeAt |-> 0,
               ok |-> FALSE]
    /\ nudge = [value |-> 0, seen |-> TRUE]
    /\ status = [kind |-> "gap", generation |-> 0, until |-> 0]
    /\ req = [q \in Requests |-> NoRequest]
    /\ bound = [m \in Models |-> None]

-----------------------------------------------------------------------------
(* BindingCache                                                            *)

(* Mutant: a row is compared with the snapshot's, not the highest, row.    *)
RollsBackCached(m, next) ==
    LET previous == cache.snapshot.bindings[m] IN
    /\ previous # None /\ next # None
    /\ \/ next.revision < previous.revision
       \/ next.revision = previous.revision /\ next # previous

(* A row that apply refuses when it accepts a newer snapshot.              *)
RollsBack(m, next) ==
    LET previous == cache.highest[m] IN
    /\ previous # None /\ next # None
    /\ \/ next.revision < previous.revision
       \/ next.revision = previous.revision /\ next # previous
       \/ cache.snapshot.bindings[m] = None /\ next.revision <= previous.revision

(* Mutant: apply looks at the snapshot's revision only.                    *)
RefusedByRevision(s) ==
    /\ cache.snapshot # None
    /\ \/ s.revision < cache.snapshot.revision
       \/ s.revision = cache.snapshot.revision /\ s # cache.snapshot

(* BindingCache::apply returns an error.                                   *)
Refused(s) ==
    /\ cache.snapshot # None
    /\ \/ s.revision < cache.snapshot.revision
       \/ s.revision = cache.snapshot.revision /\ s # cache.snapshot
       \/ /\ s.revision > cache.snapshot.revision
          /\ \E m \in Models : RollsBack(m, s.bindings[m])

(* BindingCache::apply returns Ok.                                         *)
Applied(s) == [snapshot |-> s, fetchedAt |-> now,
               highest |-> [m \in Models |->
                  IF s.bindings[m] = None THEN cache.highest[m] ELSE s.bindings[m]]]

Cached(m) == IF cache.snapshot = None THEN None ELSE cache.snapshot.bindings[m]

(* BindingCache::current_binding                                           *)
Lookup(m, expected) ==
    LET b == Cached(m) IN
    IF cache.snapshot = None THEN "refresh"
    ELSE IF b # None /\ expected < b.revision THEN "behind"
    ELSE IF now - cache.fetchedAt > FreshnessTTL THEN "refresh"
    ELSE IF b = None \/ b.revision # expected THEN "refresh"
    ELSE "ready"

-----------------------------------------------------------------------------
(* The refresher                                                           *)

LaterOf(a, b) == IF a > b THEN a ELSE b

EarlierOf(a, b) == IF a < b THEN a ELSE b

Waiting == {"check", "gap", "nudge", "parked"}

(* status.send_replace: every subscriber has a change it has not seen.     *)
SendStatus(s) ==
    /\ status' = s
    /\ req' = [q \in Requests |->
                 IF req[q].pc \in Waiting THEN [req[q] EXCEPT !.seen = FALSE] ELSE req[q]]

(***************************************************************************)
(* The top of the loop, to the sleep: when to wake, by the period or by    *)
(* demand.                                                                 *)
(***************************************************************************)
Pending == IF nudge.seen THEN task.pending ELSE nudge.value >= task.generation

PeriodicAt == IF task.nextAttempt = None THEN now ELSE task.nextAttempt

DemandAt ==
    LaterOf(IF task.completedAt = None THEN now ELSE task.completedAt + MinInterval,
            IF task.delay > 0 THEN PeriodicAt ELSE now)

Plan ==
    /\ task.pc = "plan"
    /\ nudge' = [nudge EXCEPT !.seen = TRUE]
    /\ task' = [task EXCEPT
         !.pc = "sleep", !.pending = Pending,
         !.demandAt = IF Pending THEN DemandAt ELSE None,
         !.wakeAt = IF Pending THEN EarlierOf(PeriodicAt, DemandAt) ELSE PeriodicAt]
    /\ UNCHANGED <<now, cache, status, req, bound>>

(* Mutant: the nudge is read and forgotten.                                *)
NudgedForgets ==
    /\ task.pc = "sleep" /\ ~nudge.seen
    /\ nudge' = [nudge EXCEPT !.seen = TRUE]
    /\ task' = [task EXCEPT !.pc = "plan"]
    /\ UNCHANGED <<now, cache, status, req, bound>>

(* select!: a nudge ends the sleep; the loop starts again.                 *)
Nudged ==
    /\ task.pc = "sleep" /\ ~nudge.seen
    /\ nudge' = [nudge EXCEPT !.seen = TRUE]
    /\ task' = [task EXCEPT !.pc = "plan", !.pending = nudge.value >= task.generation,
                            !.demandAt = None, !.wakeAt = 0]
    /\ UNCHANGED <<now, cache, status, req, bound>>

Due ==
    \/ now >= PeriodicAt
    \/ task.demandAt # None /\ now >= task.demandAt

(* The sleep is over (or was not needed) and a refresh is due.             *)
Fetch ==
    /\ task.pc = "sleep" /\ now >= task.wakeAt /\ Due
    /\ task.generation < MaxGeneration
    /\ nudge' = [nudge EXCEPT !.seen = TRUE]
    /\ task' = [task EXCEPT !.pc = "fetch", !.pending = FALSE, !.demandAt = None, !.wakeAt = 0]
    /\ SendStatus([kind |-> "flight", generation |-> task.generation, until |-> now + Timeout])
    /\ UNCHANGED <<now, cache, bound>>

(* refresh_bindings: the registry answers a well-formed snapshot.          *)
Land(s) ==
    /\ task.pc = "fetch"
    /\ cache' = IF Refused(s) THEN cache ELSE Applied(s)
    /\ task' = [task EXCEPT !.pc = "landed", !.ok = ~Refused(s)]
    /\ UNCHANGED <<now, nudge, status, req, bound>>

(* refresh_bindings: no answer, or one that does not parse.                *)
FetchFails ==
    /\ task.pc = "fetch"
    /\ task' = [task EXCEPT !.pc = "landed", !.ok = FALSE]
    /\ UNCHANGED <<now, cache, nudge, status, req, bound>>

(***************************************************************************)
(* next_delay: doubled to its cap, stretched by up to a quarter.  The task *)
(* keeps the delay of its last failure instead of the count of failures    *)
(* since a success, and zero for no failure.                               *)
(***************************************************************************)

NextDelay(delay) == IF delay = 0 THEN InitialDelay ELSE EarlierOf(2 * delay, MaxDelay)

(* Mutant: the jitter spreads the delay down to nothing.                   *)
DelaysFullJitter(base) == IF base = 0 THEN {RefreshInterval} ELSE 0 .. base

Delays(base) == IF base = 0 THEN {RefreshInterval} ELSE base .. base + base \div 4

(* The rest of the loop's body, after refresh_bindings.                    *)
Publish ==
    /\ task.pc = "landed"
    /\ LET base == IF task.ok THEN 0 ELSE NextDelay(task.delay)
           g == task.generation + 1
       IN \E delay \in Delays(base) :
            /\ task' = [task EXCEPT
                 !.pc = "plan", !.delay = base, !.completedAt = now,
                 !.nextAttempt = now + delay, !.generation = g,
                 !.pending = nudge.value >= g, !.ok = FALSE]
            /\ SendStatus(IF task.ok
                 THEN [kind |-> "gap", generation |-> g, until |-> now + MinInterval]
                 ELSE [kind |-> "backoff", generation |-> g, until |-> now + delay])
    /\ nudge' = [nudge EXCEPT !.seen = TRUE]
    /\ UNCHANGED <<now, cache, bound>>

-----------------------------------------------------------------------------
(* Requests: forward_request's lookup and wait_for_binding_refresh         *)

SetReq(q, r) == req' = [req EXCEPT ![q] = r]

(* q goes on at pc; the wait's locals, if any, are gone.                   *)
Proceed(q, pc) == [NoRequest EXCEPT !.pc = pc, !.model = req[q].model,
                                    !.revision = req[q].revision]

(* The second and last lookup.                                             *)
LookAgain(q) == Proceed(q, "again")

(* A validated request for m with the binding revision its header names.   *)
Ask(q, m, revision) ==
    /\ req[q].pc = "idle"
    /\ SetReq(q, [NoRequest EXCEPT !.pc = "look", !.model = m, !.revision = revision])
    /\ UNCHANGED <<now, cache, task, nudge, status, bound>>

(* A current binding: the request is built for it, under the cache's lock. *)
Bind(q) ==
    /\ req[q].pc \in {"look", "again"}
    /\ Lookup(req[q].model, req[q].revision) = "ready"
    /\ bound' = [bound EXCEPT ![req[q].model] = Cached(req[q].model)]
    /\ SetReq(q, Proceed(q, "bound"))
    /\ UNCHANGED <<now, cache, task, nudge, status>>

(***************************************************************************)
(* The lock is gone when the client executes the request, so a refresh and *)
(* another request's Bind and Send may come between this one's.            *)
(***************************************************************************)
Send(q) ==
    /\ req[q].pc = "bound"
    /\ SetReq(q, NoRequest)
    /\ UNCHANGED <<now, cache, task, nudge, status, bound>>

(* Behind at once, or anything but ready after the one wait.               *)
Reject(q) ==
    /\ \/ /\ req[q].pc = "look" /\ Lookup(req[q].model, req[q].revision) = "behind"
       \/ /\ req[q].pc = "again" /\ Lookup(req[q].model, req[q].revision) # "ready"
    /\ SetReq(q, NoRequest)
    /\ UNCHANGED <<now, cache, task, nudge, status, bound>>

NeedRefresh(q) ==
    /\ req[q].pc = "look" /\ Lookup(req[q].model, req[q].revision) = "refresh"
    /\ SetReq(q, [req[q] EXCEPT !.pc = "subscribe"])
    /\ UNCHANGED <<now, cache, task, nudge, status, bound>>

BackingOff == status.kind = "backoff" /\ now < status.until

(* wait_for_binding_refresh, to its loop.                                  *)
Subscribe(q) ==
    /\ req[q].pc = "subscribe"
    /\ SetReq(q, IF BackingOff THEN LookAgain(q) ELSE [req[q] EXCEPT
         !.pc = "check", !.generation = status.generation,
         !.deadline = CASE status.kind = "flight" -> status.until
                        [] status.kind = "gap" -> LaterOf(status.until, now) + Timeout
                        [] status.kind = "backoff" -> now + Timeout])
    /\ UNCHANGED <<now, cache, task, nudge, status, bound>>

(* The loop reads the status: return, wait for a change, or nudge.         *)
Check(q) ==
    /\ req[q].pc = "check"
    /\ SetReq(q,
         IF status.generation # req[q].generation \/ BackingOff THEN LookAgain(q)
         ELSE IF status.kind = "flight" THEN [req[q] EXCEPT !.seen = TRUE, !.pc = "parked"]
         ELSE IF status.kind = "gap" /\ now < status.until
         THEN [req[q] EXCEPT !.seen = TRUE, !.pc = "gap", !.until = status.until]
         ELSE [req[q] EXCEPT !.seen = TRUE, !.pc = "nudge"])
    /\ UNCHANGED <<now, cache, task, nudge, status, bound>>

(* refresh_nudge.send_modify, then status.changed().                       *)
Nudge(q) ==
    /\ req[q].pc = "nudge"
    /\ nudge' = [value |-> LaterOf(nudge.value, req[q].generation), seen |-> FALSE]
    /\ SetReq(q, [req[q] EXCEPT !.pc = "parked"])
    /\ UNCHANGED <<now, cache, task, status, bound>>

(* A change of status, or the end of the on-demand gap.                    *)
Wakes(q) ==
    /\ \/ req[q].pc \in {"parked", "gap"} /\ ~req[q].seen
       \/ req[q].pc = "gap" /\ now >= req[q].until
    /\ SetReq(q, [req[q] EXCEPT !.pc = "check", !.until = 0])
    /\ UNCHANGED <<now, cache, task, nudge, status, bound>>

(* Mutant: only the gap is under the timeout.                              *)
TimesOutInGap(q) ==
    /\ req[q].pc = "gap" /\ now >= req[q].deadline
    /\ SetReq(q, LookAgain(q))
    /\ UNCHANGED <<now, cache, task, nudge, status, bound>>

(* timeout_at                                                              *)
TimesOut(q) ==
    /\ req[q].pc \in {"parked", "gap"} /\ now >= req[q].deadline
    /\ SetReq(q, LookAgain(q))
    /\ UNCHANGED <<now, cache, task, nudge, status, bound>>

(* The caller goes away while its handler waits, or executes the request.  *)
Leaves(q) ==
    /\ req[q].pc \in {"parked", "gap", "bound"}
    /\ SetReq(q, NoRequest)
    /\ UNCHANGED <<now, cache, task, nudge, status, bound>>

Tick ==
    /\ now < MaxTime
    /\ now' = now + 1
    /\ UNCHANGED <<cache, task, nudge, status, req, bound>>

-----------------------------------------------------------------------------

Refresher == Plan \/ Nudged \/ Fetch \/ FetchFails \/ Publish

Serves(q) ==
    \/ Bind(q) \/ Send(q) \/ Reject(q) \/ NeedRefresh(q) \/ Subscribe(q)
    \/ Check(q) \/ Nudge(q) \/ Wakes(q) \/ TimesOut(q)

Next ==
    \/ Refresher \/ Tick
    \/ \E s \in Snapshot : Land(s)
    \/ \E q \in Requests, m \in Models, r \in 1 .. MaxRevision : Ask(q, m, r)
    \/ \E q \in Requests : Serves(q) \/ Leaves(q)

Spec == Init /\ [][Next]_vars

(***************************************************************************)
(* A request's own steps and the clock go on; the refresher need not: a    *)
(* request must end even if the refresher never answers.                   *)
(***************************************************************************)
FairSpec == Spec /\ WF_vars(Tick) /\ \A q \in Requests : WF_vars(Serves(q))

-----------------------------------------------------------------------------
(* Properties                                                              *)

Maybe(S) == S \cup {None}

Status == [kind : {"flight", "backoff", "gap"}, generation : 0 .. MaxGeneration, until : Nat]

(* Every variable has its type; the cached rows fit the snapshot.          *)
TypeOK ==
    /\ now \in 0 .. MaxTime
    /\ cache \in [snapshot : Maybe(Snapshot), fetchedAt : Nat, highest : [Models -> Maybe(Row)]]
    /\ task \in [pc : {"plan", "sleep", "fetch", "landed"}, delay : 0 .. MaxDelay,
                  completedAt : Maybe(Nat), nextAttempt : Maybe(Nat),
                  generation : 0 .. MaxGeneration, pending : BOOLEAN,
                  demandAt : Maybe(Nat), wakeAt : Nat, ok : BOOLEAN]
    /\ nudge \in [value : 0 .. MaxGeneration, seen : BOOLEAN]
    /\ status \in Status
    /\ req \in [Requests ->
         [pc : Waiting \cup {"idle", "look", "subscribe", "again", "bound"},
          model : Maybe(Models), revision : 0 .. MaxRevision,
          generation : 0 .. MaxGeneration, deadline : Nat, until : Nat,
          seen : BOOLEAN]]
    /\ bound \in [Models -> Maybe(Row)]

(***************************************************************************)
(* Whatever snapshots the registry serves, the rows in force are those of  *)
(* an append-only log: a row is never rolled back, never changed under its *)
(* revision, and a removed model never returns with an old revision        *)
(* (BindingCache::apply and highest_binding).                              *)
(***************************************************************************)
Log == INSTANCE BindingLog WITH
    Rows <- Row,
    row <- [m \in Models |-> Cached(m)],
    floor <- [m \in Models |->
                IF cache.highest[m] = None THEN 0 ELSE cache.highest[m].revision]

RowsOnlyAdvance == Log!Spec

(***************************************************************************)
(* A request for a model is bound to the row of the one bound before it,   *)
(* or to one of a higher revision, across refreshes, refusals, removals    *)
(* and returns of the model.  This is about what requests are built for: a *)
(* bound request may still be overtaken on its way upstream by one bound   *)
(* later, for forward_request gives the lock back before it executes.      *)
(***************************************************************************)
BoundForward ==
    [][\A m \in Models : bound[m] # None /\ bound'[m] # bound[m]
          => bound'[m].revision > bound[m].revision]_vars

(***************************************************************************)
(* A request waiting for a refresh that is not under way is owed one: its  *)
(* nudge is unread, or the refresher has planned for it.  No interleaving  *)
(* of the two watch channels loses the nudge and leaves the request to its *)
(* timeout (wait_for_binding_refresh, run_binding_refresher).              *)
(***************************************************************************)
NoLostNudge ==
    \A q \in Requests :
        /\ req[q].pc = "parked" /\ req[q].seen
        /\ status.kind # "flight" /\ status.generation = req[q].generation
        => \/ ~nudge.seen /\ nudge.value >= task.generation
           \/ task.pending /\ (task.pc = "plan" \/ task.demandAt # None)

(***************************************************************************)
(* However requests nudge, the registry is asked at most once per on-demand*)
(* interval after the last answer, and never during a failure's backoff.   *)
(***************************************************************************)
FetchSpacing ==
    [][task.pc = "sleep" /\ task'.pc = "fetch" =>
          /\ task.completedAt # None => now >= task.completedAt + MinInterval
          /\ task.delay > 0 => now >= task.nextAttempt]_vars

(***************************************************************************)
(* A request waits for the refresher no longer than its deadline, even if  *)
(* the refresher never completes (for deadlines within the bounded clock). *)
(***************************************************************************)
WaitEnds ==
    \A q \in Requests :
        req[q].pc \in Waiting /\ req[q].deadline <= MaxTime ~> req[q].pc \notin Waiting
==============================================================================
