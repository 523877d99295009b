---------------------------- MODULE AttestedPool ----------------------------
(***************************************************************************)
(* The pool of attested upstream connections that the NEAR and the KubeTEE *)
(* proxies share (attestd/src/attested_pool.rs): the Attested connections, *)
(* the per-target Pool of idle ones, the Lease that carries a response     *)
(* body, and what every forwarding task holds of them.  The two proxies    *)
(* (NearProxy, KubeteeProxy) extend this module with their control flow.   *)
(*                                                                         *)
(* A connection identity that is closed and that nobody refers to stands   *)
(* for a connection that does not exist yet, so Conns bounds how many      *)
(* exist at a time, not how many are ever made.  Likewise a task that has   *)
(* ended is "new" again and may serve another request.                     *)
(***************************************************************************)
EXTENDS Integers, FiniteSets

CONSTANTS
    Conns,        \* identities of upstream connections
    Tasks,        \* forwarding tasks, one per downstream request
    Targets,      \* upstream hosts, each with a pool of its own
    MaxAge,       \* PoolLimits::age
    MaxIdleAge,   \* PoolLimits::idle_age, or None
    MaxRequests,  \* PoolLimits::requests
    MaxIdle,      \* PoolLimits::idle
    Attempts,     \* ATTESTATION_ATTEMPTS
    Deadlines,    \* the not_after instants an attestation may carry
    MaxTime,      \* bound on the clock
    None          \* Option::None

ASSUME ConstantsAssumption ==
    /\ None \notin Nat /\ None \notin Conns /\ None \notin Targets
    /\ MaxAge \in Nat \ {0} /\ MaxIdleAge \in (Nat \ {0}) \cup {None}
    /\ MaxRequests \in Nat \ {0} /\ MaxIdle \in Nat \ {0}
    /\ Attempts \in Nat \ {0} /\ MaxTime \in Nat

ASSUME DeadlinesAssumption == Deadlines \subseteq Nat

VARIABLES
    now,    \* the clock that Instant::now and Utc::now read
    link,   \* link[c]: the Attested of connection c and its transport
    idle,   \* idle[t]: the connections in Pool::idle of target t
    task    \* task[r]: where the forwarding of request r has got to

poolVars == <<now, link, idle, task>>

Time == 0 .. MaxTime

(***************************************************************************)
(* exchange is what HTTP/1 has outstanding on the connection: nothing, the *)
(* attestation fetch, a request still in the sender's channel, a request   *)
(* whose serialization began, or a response body not read to its end.      *)
(***************************************************************************)
Exchange == {"none", "fetch", "queued", "sent", "body"}

(***************************************************************************)
(* open is the transport.  guarded says that an Attested owns its driver:  *)
(* Drop for Attested aborts the driver, while a bare UpstreamConnection    *)
(* that is dropped leaves it running.                                      *)
(***************************************************************************)
Link == [open : BOOLEAN, guarded : BOOLEAN, verified : BOOLEAN,
         target : Targets \cup {None}, attestedAt : Time, idleSince : Time \cup {None},
         expiresAt : Nat \cup {None}, requests : Nat, exchange : Exchange]

Closed == [open |-> FALSE, guarded |-> FALSE, verified |-> FALSE,
           target |-> None, attestedAt |-> 0, idleSince |-> None,
           expiresAt |-> None, requests |-> 0, exchange |-> "none"]

Phase == {"new", "read", "take", "ready", "connect", "fetch", "verify", "fresh",
          "awaiting", "body"}

Holding == {"ready", "fetch", "verify", "fresh", "awaiting", "body"}

Task == [pc : Phase, kind : {"chat", "models"}, target : Targets \cup {None},
         conn : Conns \cup {None}, attempt : Nat, retried : BOOLEAN,
         delivered : Nat]

Fresh == [pc |-> "new", kind |-> "chat", target |-> None, conn |-> None,
          attempt |-> 0, retried |-> FALSE, delivered |-> 0]

PoolInit ==
    /\ now = 0
    /\ link = [c \in Conns |-> Closed]
    /\ idle = [t \in Targets |-> {}]
    /\ task = [r \in Tasks |-> Fresh]

-----------------------------------------------------------------------------
(* Attested and Pool                                                       *)

UsableLink(l) ==
    /\ l.expiresAt # None => now < l.expiresAt
    /\ now - l.attestedAt < MaxAge
    /\ l.idleSince # None /\ MaxIdleAge # None => now - l.idleSince < MaxIdleAge
    /\ l.requests < MaxRequests
    /\ l.open

Usable(c) == UsableLink(link[c])

(* What retain leaves of the idle connections of t.                        *)
Retained(t) == {c \in idle[t] : Usable(c)}

(* What retain drops: Drop for Attested aborts the transport's driver.     *)
Swept(t) == idle[t] \ Retained(t)

(***************************************************************************)
(* pop returns the last one pushed.  give_back stamps idle_since as it     *)
(* pushes, so the last one has the latest idle_since; among connections    *)
(* given back at the same instant the model pops any.                      *)
(***************************************************************************)
Latest(S) == {c \in S : \A d \in S : link[d].idleSince <= link[c].idleSince}

(* The connections no task and no pool refers to.                          *)
Unused == {c \in Conns :
             /\ ~link[c].open
             /\ \A t \in Targets : c \notin idle[t]
             /\ \A r \in Tasks : task[r].conn # c}

(* Mutant: the driver task is detached, not aborted, when S is dropped.    *)
DetachesDrivers(S) == [c \in Conns |->
    IF c \in S THEN [Closed EXCEPT !.open = link[c].open,
                                   !.guarded = link[c].guarded]
    ELSE link[c]]

Dropped(S) == [c \in Conns |-> IF c \in S THEN Closed ELSE link[c]]

SetTask(r, pc, c) == task' = [task EXCEPT ![r].pc = pc, ![r].conn = c]

(* The task answered, with a response or an error.                         *)
EndTask(r) == task' = [task EXCEPT ![r] = Fresh]

(* The task ends and drops the connection it holds: retire().              *)
RetireAndEnd(r) ==
    /\ link' = Dropped({task[r].conn})
    /\ EndTask(r)
    /\ UNCHANGED <<now, idle>>

(* Mutant: take looks at the last connection and leaves it in the pool.    *)
TakeLeavesPooled(r) ==
    LET t == task[r].target IN
    /\ task[r].pc = "take"
    /\ link' = Dropped(Swept(t))
    /\ idle' = [idle EXCEPT ![t] = Retained(t)]
    /\ \/ /\ Retained(t) = {}
          /\ task' = [task EXCEPT ![r].pc = "connect", ![r].attempt = 0]
       \/ \E c \in Latest(Retained(t)) : SetTask(r, "ready", c)
    /\ UNCHANGED now

(* Pool::take, for the task r: it then waits for readiness, or connects.   *)
TakePooled(r) ==
    LET t == task[r].target IN
    /\ task[r].pc = "take"
    /\ link' = Dropped(Swept(t))
    /\ \/ /\ Retained(t) = {}
          /\ idle' = [idle EXCEPT ![t] = {}]
          /\ task' = [task EXCEPT ![r].pc = "connect", ![r].attempt = 0]
       \/ \E c \in Latest(Retained(t)) :
             /\ idle' = [idle EXCEPT ![t] = Retained(t) \ {c}]
             /\ SetTask(r, "ready", c)
    /\ UNCHANGED now

(* Mutant: the bound is checked off by one.                                *)
RoomForOneMore(t) == Cardinality(Retained(t)) <= MaxIdle

(* give_back keeps a connection while the swept pool is below its bound.   *)
HasRoom(t) == Cardinality(Retained(t)) < MaxIdle

(***************************************************************************)
(* Pool::give_back of the connection r holds, read to the end of its       *)
(* response: stamp it idle, retire it if it is unusable, else sweep the    *)
(* pool and keep it if there is room.                                      *)
(***************************************************************************)
GiveBack(r) ==
    LET c == task[r].conn
        t == task[r].target
        back == [link[c] EXCEPT !.idleSince = now, !.exchange = "none"]
    IN  /\ EndTask(r)
        /\ UNCHANGED now
        /\ \/ /\ ~UsableLink(back)
              /\ link' = Dropped({c})
              /\ UNCHANGED idle
           \/ /\ UsableLink(back)
              /\ HasRoom(t)
              /\ link' = [Dropped(Swept(t)) EXCEPT ![c] = back]
              /\ idle' = [idle EXCEPT ![t] = Retained(t) \cup {c}]
           \/ /\ UsableLink(back)
              /\ ~HasRoom(t)
              /\ link' = Dropped(Swept(t) \cup {c})
              /\ idle' = [idle EXCEPT ![t] = Retained(t)]

-----------------------------------------------------------------------------
(* The request on the wire                                                 *)

(* checkout returned c: requests += 1, and the request goes to the sender. *)
BeginSend(r, c) ==
    /\ link' = [link EXCEPT ![c].requests = @ + 1, ![c].exchange = "queued"]
    /\ SetTask(r, "awaiting", c)
    /\ UNCHANGED <<now, idle>>

(* hyper's connection task takes the request and starts to serialize it.   *)
Dispatch(r) ==
    LET c == task[r].conn IN
    /\ task[r].pc = "awaiting"
    /\ link[c].open /\ link[c].exchange = "queued"
    /\ link' = [link EXCEPT ![c].exchange = "sent"]
    /\ task' = [task EXCEPT ![r].delivered = @ + 1]
    /\ UNCHANGED <<now, idle>>

(* Response headers arrive; Lease::new finds a body still to be read.      *)
ResponseHead(r) ==
    LET c == task[r].conn IN
    /\ task[r].pc = "awaiting"
    /\ task[r].kind = "chat"
    /\ link[c].open /\ link[c].exchange = "sent"
    /\ link' = [link EXCEPT ![c].exchange = "body"]
    /\ SetTask(r, "body", c)
    /\ UNCHANGED <<now, idle>>

(* Response headers arrive with an empty body: Lease::new gives it back.   *)
EmptyResponse(r) ==
    LET c == task[r].conn IN
    /\ task[r].pc = "awaiting"
    /\ task[r].kind = "chat"
    /\ link[c].open /\ link[c].exchange = "sent"
    /\ GiveBack(r)

(* Lease::poll_frame returns the last frame, or None.                      *)
BodyEnd(r) ==
    /\ task[r].pc = "body"
    /\ GiveBack(r)

(* Lease::poll_frame returns an error: the transport failed mid-body.      *)
BodyError(r) ==
    /\ task[r].pc = "body"
    /\ ~link[task[r].conn].open
    /\ RetireAndEnd(r)

(* The send fails after serialization began, or times out.                 *)
SendFailed(r) ==
    /\ task[r].pc = "awaiting"
    /\ RetireAndEnd(r)

-----------------------------------------------------------------------------
(* Connecting and retrying                                                 *)

(***************************************************************************)
(* upstream_proxy::connect reaches target and leaves c open; attested_at   *)
(* is read before the attestation is fetched.  NEAR wraps the connection   *)
(* in an Attested at once (guarded); KubeTEE only once it is attested.     *)
(***************************************************************************)
Connected(r, guarded) ==
    /\ task[r].pc = "connect"
    /\ \E c \in Unused :
          /\ link' = [link EXCEPT ![c] = [Closed EXCEPT
                         !.open = TRUE, !.guarded = guarded,
                         !.target = task[r].target, !.attestedAt = now,
                         !.exchange = "fetch"]]
          /\ SetTask(r, "fetch", c)
    /\ UNCHANGED <<now, idle>>

(* Mutant: attestation is retried without a bound.                         *)
AttemptsUnbounded(r) ==
    /\ link' = Dropped({task[r].conn})
    /\ task' = [task EXCEPT ![r].pc = "connect", ![r].conn = None]
    /\ UNCHANGED <<now, idle>>

(* retry_attestation after one failed attempt, whose connection is dropped. *)
AttemptFailed(r) ==
    /\ link' = Dropped({task[r].conn})
    /\ \/ /\ task[r].attempt + 1 < Attempts
          /\ task' = [task EXCEPT ![r].pc = "connect", ![r].conn = None,
                                  ![r].attempt = @ + 1]
       \/ /\ task[r].attempt + 1 >= Attempts
          /\ EndTask(r)
    /\ UNCHANGED <<now, idle>>

(* Resolution, TCP, TLS or the HTTP/1 handshake fails or times out.         *)
ConnectFailed(r) == task[r].pc = "connect" /\ AttemptFailed(r)

(* The attestation fetch fails, times out, or is refused.                   *)
FetchFailed(r) == task[r].pc = "fetch" /\ AttemptFailed(r)

-----------------------------------------------------------------------------
(* The environment                                                         *)

(***************************************************************************)
(* The future of r is dropped with what it holds: an Attested aborts its   *)
(* driver, a bare UpstreamConnection leaves it running on its own.         *)
(***************************************************************************)
Bare(r) == task[r].pc \in Holding /\ ~link[task[r].conn].guarded

Abandon(r) ==
    \/ ~Bare(r) /\ RetireAndEnd(r)
    \/ Bare(r) /\ EndTask(r) /\ UNCHANGED <<now, link, idle>>

(* Mutant: dropping a Lease gives the connection back, body unread.        *)
CancelGivesBack(r) ==
    /\ task[r].pc # "new"
    /\ \/ /\ task[r].pc = "body"
          /\ EndTask(r)
          /\ idle' = [idle EXCEPT ![task[r].target] = @ \cup {task[r].conn}]
          /\ link' = [link EXCEPT ![task[r].conn].idleSince = now]
          /\ UNCHANGED now
       \/ /\ task[r].pc # "body"
          /\ Abandon(r)

(***************************************************************************)
(* The downstream client goes away: the handler's future, or the Lease, is *)
(* dropped, and with it the connection it holds.                           *)
(***************************************************************************)
Cancel(r) ==
    /\ task[r].pc # "new"
    /\ Abandon(r)

(***************************************************************************)
(* The upstream, or the network, closes an open connection; one that was   *)
(* left to its own driver may also end with it, its sender being gone.     *)
(***************************************************************************)
PeerClose(c) ==
    /\ link[c].open
    /\ link' = [link EXCEPT ![c].open = FALSE]
    /\ UNCHANGED <<now, idle, task>>

Tick ==
    /\ now < MaxTime
    /\ now' = now + 1
    /\ UNCHANGED <<link, idle, task>>

-----------------------------------------------------------------------------
(* Properties, stated once for both proxies                                *)

(* Every variable has its type.                                            *)
TypeOK ==
    /\ now \in Time
    /\ link \in [Conns -> Link]
    /\ idle \in [Targets -> SUBSET Conns]
    /\ task \in [Tasks -> Task]

(***************************************************************************)
(* No connection is ever in two places: in the pool of one target only,    *)
(* held by one task only, and never both.  Pool::take moves it out under   *)
(* the lock, Lease and forward give it back at most once.                  *)
(***************************************************************************)
SingleOwner ==
    /\ \A t, u \in Targets : t # u => idle[t] \cap idle[u] = {}
    /\ \A r, q \in Tasks : r # q /\ task[r].conn # None => task[r].conn # task[q].conn
    /\ \A r \in Tasks, t \in Targets : task[r].conn \notin idle[t]

(***************************************************************************)
(* A pooled connection was attested for the target whose pool it is in,    *)
(* and no byte of an earlier exchange is outstanding on it: the Lease only *)
(* gives back what was read to its end, so the next response read from the *)
(* connection cannot belong to an earlier request.                         *)
(***************************************************************************)
PooledClean ==
    \A t \in Targets : \A c \in idle[t] :
        /\ link[c].verified /\ link[c].target = t
        /\ link[c].exchange = "none"

(***************************************************************************)
(* No transport that an Attested ever owned outlives its owner: an open    *)
(* connection is in a pool or held by a task that has not ended, or else   *)
(* its caller left while it was still bare.  Such a one was never attested *)
(* and never carried a request.  Drop for Attested aborts the driver task, *)
(* which dropping its JoinHandle would only detach; NEAR's connections are *)
(* wrapped from the start, KubeTEE's only after attest has returned.       *)
(***************************************************************************)
Owned(c) ==
    \/ \E t \in Targets : c \in idle[t]
    \/ \E r \in Tasks : task[r].conn = c /\ task[r].pc \in Holding

LeftBare(c) == ~link[c].guarded /\ ~link[c].verified /\ link[c].requests = 0

NoOrphans == \A c \in Conns : link[c].open => Owned(c) \/ LeftBare(c)

(* No pool ever keeps more than PoolLimits::idle connections.              *)
IdleBounded == \A t \in Targets : Cardinality(idle[t]) <= MaxIdle

(***************************************************************************)
(* The pool is sound: every connection has one owner, a pooled one is      *)
(* attested and clean, no transport that was ever wrapped is orphaned, and *)
(* no pool exceeds its bound, however takes, returns, retirements and lost *)
(* callers interleave.                                                     *)
(***************************************************************************)
PoolSound == SingleOwner /\ PooledClean /\ NoOrphans /\ IdleBounded

(***************************************************************************)
(* No request is serialized onto two upstream connections, whatever fails  *)
(* and is retried ("never sent twice", kubetee_verify::forward; "hyper has *)
(* not started serializing it", near_verify::send_inference).              *)
(***************************************************************************)
DeliveredOnce == \A r \in Tasks : task[r].delivered <= 1

(***************************************************************************)
(* When a request is handed to a connection, that connection has been      *)
(* attested for the request's own target, has no other exchange on it, and *)
(* at that very moment is within its ages, its keyset's deadline and its   *)
(* request budget: the checks made before waiting for readiness, or before *)
(* the attestation ended, are made again after the wait.                   *)
(***************************************************************************)
Handed(r) == task[r].pc # "awaiting" /\ task'[r].pc = "awaiting"

HandsOnlyToUsable ==
    \A r \in Tasks : Handed(r) =>
        LET l == link[task'[r].conn] IN
        /\ l.verified /\ l.target = task[r].target /\ l.exchange = "none"
        /\ l.expiresAt # None => now < l.expiresAt
        /\ now < l.attestedAt + MaxAge
        /\ l.idleSince # None /\ MaxIdleAge # None => now < l.idleSince + MaxIdleAge
        /\ l.requests < MaxRequests

HandedOnlyToUsable == [][HandsOnlyToUsable]_poolVars

(***************************************************************************)
(* forward always answers: a task that has started leaves the connection   *)
(* and attestation phases and the wait for response headers.               *)
(***************************************************************************)
ForwardAnswers ==
    \A r \in Tasks : task[r].pc = "take" ~> task[r].pc \in {"new", "body"}
=============================================================================
