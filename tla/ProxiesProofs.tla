----------------------------- MODULE ProxiesProofs -----------------------------
(***************************************************************************)
(* The two verifying proxies keep the invariant of the attested pool, for  *)
(* any number of requests, connections and targets, any limits and any     *)
(* clock: first the invariant and that each action they share preserves    *)
(* it, then the steps of each proxy, and for KubeTEE that every attested   *)
(* connection carries the deadline of its keyset.                          *)
(***************************************************************************)
EXTENDS NearProxy, KubeteeProxy, FiniteSetTheorems, TLAPS

(***************************************************************************)
(* What a task's phase says of the connection it holds and of how often    *)
(* its request was serialized.                                             *)
(***************************************************************************)
TaskOK(r) ==
    LET s == task[r]
        l == link[s.conn]
    IN  /\ s.conn # None <=> s.pc \in Holding
        /\ s.pc # "new" => s.target # None
        /\ s.pc \in Holding => l.target = s.target
        /\ s.pc \in {"ready", "fresh", "awaiting", "body"} => l.verified
        /\ s.pc \in {"ready", "verify", "fresh"} => l.exchange = "none"
        /\ s.pc = "awaiting" => l.exchange \in {"queued", "sent"}
        /\ s.delivered = IF \/ s.pc = "body"
                            \/ s.pc = "awaiting" /\ l.exchange = "sent"
                         THEN 1 ELSE 0

(***************************************************************************)
(* A connection is wrapped in an Attested before it counts as attested and *)
(* before it carries a request.                                            *)
(***************************************************************************)
WrappedFirst(l) == l.verified \/ l.requests # 0 => l.guarded

AllWrappedFirst == \A c \in Conns : WrappedFirst(link[c])

FiniteIdle == \A t \in Targets : IsFiniteSet(idle[t])

(***************************************************************************)
(* The inductive invariant: the properties the runs check, with what each  *)
(* phase of a task guarantees about the connection it holds.               *)
(***************************************************************************)
PoolInv ==
    /\ TypeOK
    /\ \A r \in Tasks : TaskOK(r)
    /\ AllWrappedFirst
    /\ SingleOwner /\ PooledClean /\ NoOrphans
    /\ FiniteIdle /\ IdleBounded

-----------------------------------------------------------------------------
LEMMA ClosedType == Closed \in Link /\ Fresh \in Task
BY ConstantsAssumption DEF Closed, Link, Time, Exchange, Fresh, Task, Phase

(* The pool starts empty and every task new.                               *)
LEMMA PoolInitInv == PoolInit => PoolInv
<1> SUFFICES ASSUME PoolInit PROVE PoolInv
  OBVIOUS
<1>1. TypeOK
  BY ClosedType, ConstantsAssumption DEF PoolInit, TypeOK, Time
<1>2. FiniteIdle /\ IdleBounded
  BY FS_EmptySet, ConstantsAssumption DEF PoolInit, FiniteIdle, IdleBounded
<1>3. SingleOwner /\ PooledClean /\ NoOrphans
  BY DEF PoolInit, SingleOwner, PooledClean, NoOrphans, Fresh, Closed
<1>5. AllWrappedFirst
  BY DEF PoolInit, AllWrappedFirst, WrappedFirst, Closed
<1>4. \A r \in Tasks : TaskOK(r)
  BY DEF PoolInit, TaskOK, Fresh, Holding
<1> QED BY <1>1, <1>2, <1>3, <1>4, <1>5 DEF PoolInv

(* A connection that is not wrapped was never attested nor used, so only   *)
(* the wrapped ones need an owner.                                         *)
LEMMA UnwrappedLeft ==
  ASSUME AllWrappedFirst',
         \A d \in Conns : link'[d].open /\ link'[d].guarded => Owned(d)'
  PROVE  NoOrphans'
BY DEF AllWrappedFirst, WrappedFirst, NoOrphans, LeftBare

(***************************************************************************)
(* A step that changes task r and links no other task holds leaves what    *)
(* every other task knows.                                                 *)
(***************************************************************************)
LEMMA OthersKept ==
  ASSUME PoolInv, NEW r \in Tasks, NEW q \in Tasks, q # r,
         task'[q] = task[q],
         task[q].conn # None => link'[task[q].conn] = link[task[q].conn]
  PROVE  TaskOK(q)'
<1>1. TaskOK(q)
  BY DEF PoolInv
<1>2. CASE task[q].conn # None
  BY <1>1, <1>2 DEF TaskOK, Holding
<1>3. CASE task[q].conn = None
  BY <1>1, <1>3 DEF TaskOK, Holding
<1> QED BY <1>2, <1>3

(* What a task holds is a connection, alone in holding it.                 *)
LEMMA HeldAlone ==
  ASSUME PoolInv, NEW r \in Tasks, NEW q \in Tasks, q # r, task[q].conn # None
  PROVE  task[q].conn \in Conns /\ task[q].conn # task[r].conn
BY DEF PoolInv, TypeOK, Task, SingleOwner

LEMMA HeldConn ==
  ASSUME PoolInv, NEW r \in Tasks, task[r].pc \in Holding
  PROVE  /\ task[r].conn \in Conns /\ task[r].target \in Targets
         /\ link[task[r].conn] \in Link
         /\ link[task[r].conn].target = task[r].target
BY DEF PoolInv, TypeOK, Task, TaskOK, Holding

(***************************************************************************)
(* A step of task r that leaves the pools alone and changes no connection  *)
(* but c, the one it holds or takes into use.                              *)
(***************************************************************************)
HeldChange(r, c) ==
    /\ c = task[r].conn \/ (c \in Unused /\ task[r].conn = None)
    /\ \A q \in Tasks : q # r => task'[q] = task[q]
    /\ \A d \in Conns : d # c => link'[d] = link[d]
    /\ \/ task'[r].conn = c
       \/ /\ task'[r].conn = None
          /\ c \in Conns => ~link'[c].open \/ ~link'[c].guarded
    /\ c \in Conns => WrappedFirst(link'[c])
    /\ idle' = idle

(* For such a step only the types and what r then knows are left to show.  *)
LEMMA HeldStep ==
  ASSUME PoolInv, NEW r \in Tasks, NEW c, HeldChange(r, c), TypeOK', TaskOK(r)'
  PROVE  PoolInv'
<1> USE DEF HeldChange
<1>1. \A t \in Targets : c \notin idle[t]
  BY DEF PoolInv, SingleOwner, Unused
<1>2. \A q \in Tasks : q # r /\ task[q].conn # None =>
          task[q].conn \in Conns /\ task[q].conn # c
  BY HeldAlone DEF Unused
<1>3. ASSUME NEW q \in Tasks PROVE TaskOK(q)'
  <2>1. CASE q = r
    BY <2>1
  <2>2. CASE q # r
    BY <1>2, <2>2, OthersKept
  <2> QED BY <2>1, <2>2
<1>4. SingleOwner'
  <2>1. \A t, u \in Targets : t # u => idle'[t] \cap idle'[u] = {}
    BY DEF PoolInv, SingleOwner
  <2>2. \A p, q \in Tasks : p # q /\ task'[p].conn # None => task'[p].conn # task'[q].conn
    BY <1>2 DEF PoolInv, SingleOwner
  <2>3. \A p \in Tasks, t \in Targets : task'[p].conn \notin idle'[t]
    BY <1>1, ConstantsAssumption DEF PoolInv, TypeOK, SingleOwner
  <2> QED BY <2>1, <2>2, <2>3 DEF SingleOwner
<1>5. PooledClean'
  BY <1>1 DEF PoolInv, TypeOK, PooledClean
<1>8. AllWrappedFirst'
  BY DEF PoolInv, AllWrappedFirst
<1>6. NoOrphans'
  <2> SUFFICES ASSUME NEW d \in Conns, link'[d].open, link'[d].guarded,
                      \A t \in Targets : d \notin idle'[t]
               PROVE  \E q \in Tasks : task'[q].conn = d /\ task'[q].pc \in Holding
    BY <1>8, UnwrappedLeft DEF Owned
  <2>1. CASE d = c
    <3>1. task'[r].conn = d /\ d # None
      BY <2>1, ConstantsAssumption
    <3> QED BY <3>1 DEF TaskOK
  <2>2. CASE d # c
    <3>1. PICK q \in Tasks : task[q].conn = d /\ task[q].pc \in Holding
      BY <2>2 DEF PoolInv, NoOrphans, Owned, LeftBare
    <3>2. q # r
      BY <2>2, <3>1, ConstantsAssumption
    <3> QED BY <3>1, <3>2
  <2> QED BY <2>1, <2>2
<1>7. FiniteIdle' /\ IdleBounded'
  BY DEF PoolInv, FiniteIdle, IdleBounded
<1> QED BY <1>3, <1>4, <1>5, <1>6, <1>7, <1>8 DEF PoolInv

(* Rewriting a record's fields within their types.                         *)
LEMMA LinkUpdate ==
  ASSUME NEW l \in Link, NEW n \in Nat, NEW e \in Exchange
  PROVE  [l EXCEPT !.requests = n, !.exchange = e] \in Link
BY DEF Link

(* A task ends and drops its connection.                                   *)
LEMMA RetireInv ==
  ASSUME PoolInv, NEW r \in Tasks, RetireAndEnd(r)
  PROVE  PoolInv'
<1> USE DEF RetireAndEnd, EndTask, Dropped
<1>1. TypeOK'
  BY ClosedType DEF PoolInv, TypeOK
<1>2. TaskOK(r)'
  BY DEF PoolInv, TypeOK, TaskOK, Fresh, Holding
<1>3. HeldChange(r, task[r].conn)
  BY DEF PoolInv, TypeOK, Fresh, Closed, HeldChange, WrappedFirst
<1> QED BY <1>1, <1>2, <1>3, HeldStep

(***************************************************************************)
(* The caller leaves: what it held is dropped, or left running if it was   *)
(* not wrapped yet.                                                        *)
(***************************************************************************)
LEMMA AbandonInv ==
  ASSUME PoolInv, NEW r \in Tasks, Abandon(r)
  PROVE  PoolInv'
<1>1. CASE RetireAndEnd(r)
  BY <1>1, RetireInv
<1>2. CASE Bare(r) /\ EndTask(r) /\ UNCHANGED <<now, link, idle>>
  <2>1. task[r].conn \in Conns /\ ~link[task[r].conn].guarded
    BY <1>2, HeldConn DEF Bare
  <2>2. TypeOK' /\ task'[r] = Fresh
    BY <1>2, ClosedType DEF EndTask, PoolInv, TypeOK
  <2>3. TaskOK(r)'
    BY <2>2 DEF TaskOK, Fresh, Holding
  <2>4. HeldChange(r, task[r].conn)
    BY <1>2, <2>1, <2>2 DEF EndTask, Fresh, HeldChange, PoolInv, TypeOK, AllWrappedFirst
  <2> QED BY <2>2, <2>3, <2>4, HeldStep
<1> QED BY <1>1, <1>2 DEF Abandon

(* retry_attestation drops the connection of the failed attempt.           *)
LEMMA AttemptFailedInv ==
  ASSUME PoolInv, NEW r \in Tasks, AttemptFailed(r),
         task[r].pc \in {"connect", "fetch", "verify"}
  PROVE  PoolInv'
<1>1. CASE EndTask(r)
  BY <1>1, RetireInv DEF AttemptFailed, RetireAndEnd
<1>2. CASE task' = [task EXCEPT ![r].pc = "connect", ![r].conn = None,
                                ![r].attempt = @ + 1]
  <2> DEFINE n == task[r].attempt + 1
             s == [task[r] EXCEPT !.pc = "connect", !.conn = None, !.attempt = n]
  <2>1. task[r] \in Task /\ n \in Nat
    BY DEF PoolInv, TypeOK, Task
  <2>2. task' = [task EXCEPT ![r] = s]
    BY <1>2, <2>1 DEF PoolInv, TypeOK
  <2> HIDE DEF n
  <2>3. /\ s \in Task /\ s.pc = "connect" /\ s.conn = None
        /\ s.target = task[r].target /\ s.delivered = task[r].delivered
    BY <2>1 DEF Task, Phase
  <2> HIDE DEF s
  <2>4. TypeOK'
    BY <2>2, <2>3, ClosedType DEF AttemptFailed, Dropped, PoolInv, TypeOK
  <2>5. TaskOK(r)'
    BY <2>2, <2>3 DEF PoolInv, TypeOK, TaskOK, Holding
  <2>6. HeldChange(r, task[r].conn)
    BY <2>2, <2>3 DEF AttemptFailed, Dropped, Closed, PoolInv, TypeOK, HeldChange, WrappedFirst
  <2> QED BY <2>4, <2>5, <2>6, HeldStep
<1> QED BY <1>1, <1>2 DEF AttemptFailed

(***************************************************************************)
(* A step of task r that keeps its connection c and rewrites the records   *)
(* of both.                                                                *)
(***************************************************************************)
Rewrites(r, c, l, s) ==
    /\ c = task[r].conn /\ c \in Conns /\ s.conn = c
    /\ l \in Link /\ s \in Task /\ WrappedFirst(l)
    /\ link' = [link EXCEPT ![c] = l]
    /\ task' = [task EXCEPT ![r] = s]
    /\ UNCHANGED <<now, idle>>

LEMMA RewriteStep ==
  ASSUME PoolInv, NEW r \in Tasks, NEW c, NEW l, NEW s, Rewrites(r, c, l, s), TaskOK(r)'
  PROVE  PoolInv'
<1>1. TypeOK' /\ HeldChange(r, c)
  BY DEF Rewrites, HeldChange, PoolInv, TypeOK
<1> QED BY <1>1, HeldStep

(* A rewrite that keeps what WrappedFirst is about, and the target.        *)
Kept(l, k) ==
    /\ l.guarded = k.guarded /\ l.verified = k.verified
    /\ l.requests = k.requests /\ l.target = k.target

LEMMA KeptWrapped ==
  ASSUME PoolInv, NEW c \in Conns, NEW l, Kept(l, link[c])
  PROVE  WrappedFirst(l)
BY DEF PoolInv, AllWrappedFirst, WrappedFirst, Kept

(* A connection that carries the next request.                             *)
LEMMA BeginSendInv ==
  ASSUME PoolInv, NEW r \in Tasks, BeginSend(r, task[r].conn),
         task[r].pc \in {"ready", "fresh"}
  PROVE  PoolInv'
<1> DEFINE c == task[r].conn
           n == link[c].requests + 1
           l == [link[c] EXCEPT !.requests = n, !.exchange = "queued"]
           s == [task[r] EXCEPT !.pc = "awaiting", !.conn = c]
<1>1. c \in Conns /\ link[c] \in Link /\ task[r] \in Task /\ n \in Nat
  BY HeldConn DEF Holding, PoolInv, TypeOK, Link
<1>2. link' = [link EXCEPT ![c] = l] /\ task' = [task EXCEPT ![r] = s]
  BY <1>1 DEF BeginSend, SetTask, PoolInv, TypeOK
<1> HIDE DEF n
<1>3. /\ s \in Task /\ s.pc = "awaiting" /\ s.conn = c
      /\ s.target = task[r].target /\ s.delivered = task[r].delivered
  BY <1>1 DEF Task, Phase
<1>4. /\ l \in Link /\ l.exchange = "queued" /\ l.guarded = link[c].guarded
      /\ l.verified = link[c].verified /\ l.target = link[c].target
  BY <1>1, LinkUpdate DEF Link, Exchange
<1> HIDE DEF l, s
<1>5. TaskOK(r)'
  BY <1>1, <1>2, <1>3, <1>4 DEF PoolInv, TypeOK, TaskOK, Holding
<1>7. WrappedFirst(l)
  BY <1>1, <1>4 DEF PoolInv, TaskOK, AllWrappedFirst, WrappedFirst
<1>6. Rewrites(r, c, l, s)
  BY <1>1, <1>2, <1>3, <1>4, <1>7 DEF Rewrites, BeginSend
<1> QED BY <1>5, <1>6, RewriteStep

(* hyper starts to serialize the request.                                  *)
LEMMA DispatchInv ==
  ASSUME PoolInv, NEW r \in Tasks, Dispatch(r)
  PROVE  PoolInv'
<1> DEFINE c == task[r].conn
           l == [link[c] EXCEPT !.exchange = "sent"]
           s == [task[r] EXCEPT !.delivered = @ + 1]
<1>1. c \in Conns /\ link[c] \in Link /\ task[r] \in Task
  BY HeldConn DEF Dispatch, Holding, PoolInv, TypeOK
<1>2. link' = [link EXCEPT ![c] = l] /\ task' = [task EXCEPT ![r] = s]
  BY <1>1 DEF Dispatch, PoolInv, TypeOK
<1>3. /\ s \in Task /\ s.pc = task[r].pc /\ s.conn = c
      /\ s.target = task[r].target /\ s.delivered = task[r].delivered + 1
  BY <1>1 DEF Task
<1>4. /\ l \in Link /\ l.exchange = "sent" /\ Kept(l, link[c])
  BY <1>1 DEF Link, Exchange, Kept
<1> HIDE DEF l, s
<1>5. TaskOK(r)'
  BY <1>1, <1>2, <1>3, <1>4 DEF Dispatch, PoolInv, TypeOK, TaskOK, Holding, Kept
<1>6. Rewrites(r, c, l, s)
  BY <1>1, <1>2, <1>3, <1>4, KeptWrapped DEF Rewrites, Dispatch
<1> QED BY <1>5, <1>6, RewriteStep

(* The response head arrives.                                              *)
LEMMA ResponseHeadInv ==
  ASSUME PoolInv, NEW r \in Tasks, ResponseHead(r)
  PROVE  PoolInv'
<1> DEFINE c == task[r].conn
           l == [link[c] EXCEPT !.exchange = "body"]
           s == [task[r] EXCEPT !.pc = "body", !.conn = c]
<1>1. c \in Conns /\ link[c] \in Link /\ task[r] \in Task
  BY HeldConn DEF ResponseHead, Holding, PoolInv, TypeOK
<1>2. link' = [link EXCEPT ![c] = l] /\ task' = [task EXCEPT ![r] = s]
  BY <1>1 DEF ResponseHead, SetTask, PoolInv, TypeOK
<1>3. /\ s \in Task /\ s.pc = "body" /\ s.conn = c
      /\ s.target = task[r].target /\ s.delivered = task[r].delivered
  BY <1>1 DEF Task, Phase
<1>4. l \in Link /\ Kept(l, link[c])
  BY <1>1 DEF Link, Exchange, Kept
<1> HIDE DEF l, s
<1>5. TaskOK(r)'
  BY <1>1, <1>2, <1>3, <1>4 DEF ResponseHead, PoolInv, TypeOK, TaskOK, Holding, Kept
<1>6. Rewrites(r, c, l, s)
  BY <1>1, <1>2, <1>3, <1>4, KeptWrapped DEF Rewrites, ResponseHead
<1> QED BY <1>5, <1>6, RewriteStep

(* A connection comes up for a task that had none, wrapped or bare.        *)
LEMMA ConnectedInv ==
  ASSUME PoolInv, NEW r \in Tasks, NEW g \in BOOLEAN, Connected(r, g)
  PROVE  PoolInv'
<1>1. PICK c \in Unused :
         /\ link' = [link EXCEPT ![c] = [Closed EXCEPT
                       !.open = TRUE, !.guarded = g, !.target = task[r].target,
                       !.attestedAt = now, !.exchange = "fetch"]]
         /\ SetTask(r, "fetch", c)
  BY DEF Connected
<1> DEFINE l == [Closed EXCEPT !.open = TRUE, !.guarded = g, !.target = task[r].target,
                               !.attestedAt = now, !.exchange = "fetch"]
           s == [task[r] EXCEPT !.pc = "fetch", !.conn = c]
<1>2. c \in Conns /\ task[r] \in Task /\ task[r].conn = None /\ now \in Time
  BY DEF Unused, Connected, PoolInv, TypeOK, TaskOK, Holding
<1>3. link' = [link EXCEPT ![c] = l] /\ task' = [task EXCEPT ![r] = s]
  BY <1>1, <1>2 DEF SetTask, PoolInv, TypeOK
<1>4. /\ s \in Task /\ s.pc = "fetch" /\ s.conn = c
      /\ s.target = task[r].target /\ s.delivered = task[r].delivered
  BY <1>2 DEF Task, Phase
<1>5. l \in Link /\ l.target = task[r].target /\ WrappedFirst(l)
  BY <1>2, ConstantsAssumption DEF Closed, Link, Exchange, Task, WrappedFirst
<1> HIDE DEF l, s
<1>6. TypeOK'
  BY <1>3, <1>4, <1>5 DEF Connected, PoolInv, TypeOK
<1>7. TaskOK(r)'
  BY <1>2, <1>3, <1>4, <1>5, ConstantsAssumption
  DEF Connected, PoolInv, TypeOK, TaskOK, Holding
<1>8. HeldChange(r, c)
  BY <1>2, <1>3, <1>4, <1>5 DEF Connected, HeldChange, PoolInv, TypeOK
<1> QED BY <1>6, <1>7, <1>8, HeldStep

(* The peer closes a connection, in a pool or held.                        *)
LEMMA PeerCloseInv ==
  ASSUME PoolInv, NEW c \in Conns, PeerClose(c)
  PROVE  PoolInv'
<1> DEFINE l == [link[c] EXCEPT !.open = FALSE]
<1>1. /\ link' = [link EXCEPT ![c] = l]
      /\ l \in Link /\ ~l.open /\ Kept(l, link[c])
      /\ l.exchange = link[c].exchange
  BY DEF PeerClose, PoolInv, TypeOK, Link, Kept
<1> HIDE DEF l
<1>2. TypeOK'
  BY <1>1 DEF PeerClose, PoolInv, TypeOK
<1>3. ASSUME NEW q \in Tasks PROVE TaskOK(q)'
  <2>1. \A d \in Conns : /\ link'[d].verified = link[d].verified
                         /\ link'[d].target = link[d].target
                         /\ link'[d].exchange = link[d].exchange
    BY <1>1 DEF PoolInv, TypeOK, Kept
  <2>2. task'[q] = task[q] /\ TaskOK(q) /\ (task[q].conn # None => task[q].conn \in Conns)
    BY DEF PeerClose, PoolInv, TypeOK, Task
  <2> QED BY <2>1, <2>2 DEF TaskOK, Holding
<1>4. SingleOwner' /\ FiniteIdle' /\ IdleBounded'
  BY DEF PeerClose, PoolInv, SingleOwner, FiniteIdle, IdleBounded
<1>5. PooledClean' /\ NoOrphans'
  BY <1>1 DEF PeerClose, PoolInv, TypeOK, PooledClean, NoOrphans, Owned, LeftBare, Kept
<1>6. AllWrappedFirst'
  BY <1>1, KeptWrapped DEF PoolInv, TypeOK, AllWrappedFirst
<1> QED BY <1>2, <1>3, <1>4, <1>5, <1>6 DEF PoolInv

LEMMA TickInv ==
  ASSUME PoolInv, Tick
  PROVE  PoolInv'
<1>1. TypeOK'
  BY ConstantsAssumption DEF Tick, PoolInv, TypeOK, Time
<1>2. SingleOwner' /\ PooledClean' /\ NoOrphans' /\ FiniteIdle' /\ IdleBounded'
  BY DEF Tick, PoolInv, SingleOwner, PooledClean, NoOrphans, Owned, LeftBare, FiniteIdle,
         IdleBounded
<1>3. AllWrappedFirst' /\ \A q \in Tasks : TaskOK(q)'
  BY DEF Tick, PoolInv, TaskOK, AllWrappedFirst, WrappedFirst
<1> QED BY <1>1, <1>2, <1>3 DEF PoolInv

LEMMA StutterInv ==
  ASSUME PoolInv, UNCHANGED poolVars
  PROVE  PoolInv'
BY DEF poolVars, PoolInv, TypeOK, TaskOK, AllWrappedFirst, WrappedFirst, SingleOwner,
       PooledClean, NoOrphans, Owned, LeftBare, FiniteIdle, IdleBounded

(***************************************************************************)
(* A sweep of the pool of t, where S of what it retained stays: no task    *)
(* loses its connection, and the pools keep their bound.                   *)
(***************************************************************************)
Sweeps(t, S) ==
    /\ t \in Targets
    /\ S \subseteq Retained(t)
    /\ idle' = [idle EXCEPT ![t] = S]

LEMMA SweepBounded ==
  ASSUME PoolInv, NEW t, NEW S, Sweeps(t, S)
  PROVE  FiniteIdle' /\ IdleBounded'
<1>1. /\ IsFiniteSet(idle[t]) /\ Cardinality(idle[t]) <= MaxIdle
      /\ S \subseteq idle[t]
  BY DEF Sweeps, PoolInv, FiniteIdle, IdleBounded, Retained
<1>2. IsFiniteSet(S) /\ Cardinality(S) <= Cardinality(idle[t])
  BY <1>1, FS_Subset
<1>3. Cardinality(S) \in Nat /\ Cardinality(idle[t]) \in Nat
  BY <1>1, <1>2, FS_CardinalityType
<1>4. Cardinality(S) <= MaxIdle
  BY <1>1, <1>2, <1>3, ConstantsAssumption
<1> QED BY <1>2, <1>4 DEF Sweeps, PoolInv, TypeOK, FiniteIdle, IdleBounded

(* What a sweep drops no task holds.                                       *)
LEMMA SweptUnheld ==
  ASSUME PoolInv, NEW t \in Targets, NEW q \in Tasks
  PROVE  task[q].conn \notin Swept(t)
BY DEF PoolInv, SingleOwner, Swept

(* Pool::take pops a usable connection, or finds none.                     *)
LEMMA TakeInv ==
  ASSUME PoolInv, NEW r \in Tasks, TakePooled(r)
  PROVE  PoolInv'
<1> DEFINE t == task[r].target
<1>1. task[r] \in Task /\ t \in Targets /\ task[r].conn = None /\ task[r].pc = "take"
  BY DEF TakePooled, PoolInv, TypeOK, Task, TaskOK, Holding
<1>2. /\ link' \in [Conns -> Link]
      /\ \A d \in Conns : d \notin Swept(t) => link'[d] = link[d]
      /\ \A d \in Conns : link'[d].open => d \notin Swept(t)
      /\ AllWrappedFirst'
  BY ClosedType DEF TakePooled, Dropped, Closed, PoolInv, TypeOK, AllWrappedFirst, WrappedFirst
<1>3. ASSUME NEW q \in Tasks, q # r, task'[q] = task[q]
      PROVE  TaskOK(q)'
  BY <1>1, <1>2, <1>3, OthersKept, SweptUnheld, HeldAlone
<1>4. CASE /\ Retained(t) = {}
           /\ idle' = [idle EXCEPT ![t] = {}]
           /\ task' = [task EXCEPT ![r].pc = "connect", ![r].attempt = 0]
  <2> DEFINE s == [task[r] EXCEPT !.pc = "connect", !.attempt = 0]
  <2>1. /\ s \in Task /\ s.pc = "connect" /\ s.conn = None
        /\ s.target = t /\ s.delivered = task[r].delivered
    BY <1>1 DEF Task, Phase
  <2>2. /\ task' = [task EXCEPT ![r] = s] /\ task'[r] = s
        /\ \A q \in Tasks : q # r => task'[q] = task[q]
    BY <1>1, <1>4 DEF PoolInv, TypeOK
  <2> HIDE DEF s
  <2>3. TypeOK'
    BY <1>2, <1>4, <2>1, <2>2 DEF TakePooled, PoolInv, TypeOK
  <2>4. TaskOK(r)'
    BY <1>1, <2>1, <2>2 DEF PoolInv, TaskOK, Holding
  <2>5. SingleOwner'
    <3>1. \A u \in Targets : idle'[u] \subseteq idle[u]
      BY <1>4 DEF PoolInv, TypeOK
    <3>2. \A q \in Tasks : task'[q].conn = task[q].conn
      BY <1>1, <2>1, <2>2
    <3> QED BY <3>1, <3>2 DEF PoolInv, SingleOwner
  <2>6. PooledClean'
    BY <1>1, <1>2, <1>4 DEF PoolInv, TypeOK, PooledClean, SingleOwner, Swept
  <2>7. NoOrphans'
    <3> SUFFICES ASSUME NEW d \in Conns, link'[d].open, link'[d].guarded
                 PROVE  Owned(d)'
      BY <1>2, UnwrappedLeft
    <3> USE DEF Owned
    <3>1. link[d].open /\ d \notin idle[t] /\ link[d].guarded
      BY <1>2, <1>4 DEF Swept
    <3>2. CASE \E u \in Targets : d \in idle[u]
      BY <1>4, <3>1, <3>2 DEF PoolInv, TypeOK
    <3>3. CASE \E q \in Tasks : task[q].conn = d /\ task[q].pc \in Holding
      BY <1>1, <2>2, <3>3 DEF Holding
    <3> QED BY <3>1, <3>2, <3>3 DEF PoolInv, NoOrphans, LeftBare
  <2>8. FiniteIdle' /\ IdleBounded'
    BY <1>1, <1>4, SweepBounded DEF Sweeps
  <2> QED BY <1>2, <1>3, <2>2, <2>3, <2>4, <2>5, <2>6, <2>7, <2>8 DEF PoolInv
<1>5. ASSUME NEW c \in Latest(Retained(t)),
             idle' = [idle EXCEPT ![t] = Retained(t) \ {c}],
             SetTask(r, "ready", c)
      PROVE  PoolInv'
  <2> DEFINE s == [task[r] EXCEPT !.pc = "ready", !.conn = c]
  <2>1. c \in idle[t] /\ c \in Conns /\ c \in Retained(t) /\ c \notin Swept(t)
    BY <1>1 DEF Latest, Retained, Swept, PoolInv, TypeOK
  <2>2. /\ s \in Task /\ s.pc = "ready" /\ s.conn = c
        /\ s.target = t /\ s.delivered = task[r].delivered
    BY <1>1, <2>1 DEF Task, Phase
  <2>3. /\ task' = [task EXCEPT ![r] = s] /\ task'[r] = s
        /\ \A q \in Tasks : q # r => task'[q] = task[q]
    BY <1>1, <1>5 DEF SetTask, PoolInv, TypeOK
  <2> HIDE DEF s
  <2>4. TypeOK'
    BY <1>2, <1>5, <2>2, <2>3 DEF TakePooled, PoolInv, TypeOK, Retained
  <2>5. TaskOK(r)'
    <3>1. link'[c] = link[c] /\ link[c].verified /\ link[c].target = t
          /\ link[c].exchange = "none"
      BY <1>1, <1>2, <2>1 DEF PoolInv, PooledClean
    <3>2. c # None
      BY <2>1, ConstantsAssumption
    <3> QED BY <1>1, <2>2, <2>3, <3>1, <3>2, ConstantsAssumption
            DEF PoolInv, TaskOK, Holding
  <2>6. SingleOwner'
    <3>1. /\ \A u \in Targets : idle'[u] \subseteq idle[u]
          /\ c \notin idle'[t]
      BY <1>1, <1>5 DEF PoolInv, TypeOK, Retained
    <3>2. \A u \in Targets : u # t => c \notin idle[u]
      BY <1>1, <2>1 DEF PoolInv, SingleOwner
    <3>3. \A q \in Tasks : task[q].conn # c
      BY <1>1, <2>1 DEF PoolInv, SingleOwner
    <3>4. \A u \in Targets : c \notin idle'[u]
      BY <3>1, <3>2
    <3>5. \A u, v \in Targets : u # v => idle'[u] \cap idle'[v] = {}
      BY <3>1 DEF PoolInv, SingleOwner
    <3>6. \A p, q \in Tasks : p # q /\ task'[p].conn # None => task'[p].conn # task'[q].conn
      BY <2>2, <2>3, <3>3 DEF PoolInv, SingleOwner
    <3>7. \A p \in Tasks, u \in Targets : task'[p].conn \notin idle'[u]
      BY <2>2, <2>3, <3>1, <3>4 DEF PoolInv, SingleOwner
    <3> QED BY <3>5, <3>6, <3>7 DEF SingleOwner
  <2>7. PooledClean'
    BY <1>1, <1>2, <1>5 DEF PoolInv, TypeOK, PooledClean, SingleOwner, Swept, Retained
  <2>8. NoOrphans'
    <3> SUFFICES ASSUME NEW d \in Conns, link'[d].open, link'[d].guarded
                 PROVE  Owned(d)'
      BY <1>2, UnwrappedLeft
    <3> USE DEF Owned
    <3>1. link[d].open /\ d \notin Swept(t) /\ link[d].guarded
      BY <1>2
    <3>2. CASE d = c
      BY <2>2, <2>3, <3>2 DEF Holding
    <3>3. CASE d # c /\ \E u \in Targets : d \in idle[u]
      BY <1>5, <3>1, <3>3 DEF PoolInv, TypeOK, Swept
    <3>4. CASE \E q \in Tasks : task[q].conn = d /\ task[q].pc \in Holding
      BY <1>1, <2>3, <3>4 DEF Holding
    <3> QED BY <3>1, <3>2, <3>3, <3>4 DEF PoolInv, NoOrphans, LeftBare
  <2>9. FiniteIdle' /\ IdleBounded'
    <3>1. Sweeps(t, Retained(t) \ {c})
      BY <1>1, <1>5 DEF Sweeps
    <3> QED BY <3>1, SweepBounded
  <2> QED BY <1>2, <1>3, <2>3, <2>4, <2>5, <2>6, <2>7, <2>8, <2>9 DEF PoolInv
<1> QED BY <1>4, <1>5 DEF TakePooled

(***************************************************************************)
(* Pool::give_back ends the task and retires its connection, or sweeps the *)
(* pool and keeps the connection if there is room.                         *)
(***************************************************************************)
LEMMA GiveBackInv ==
  ASSUME PoolInv, NEW r \in Tasks, GiveBack(r), task[r].pc \in {"awaiting", "body"}
  PROVE  PoolInv'
<1> DEFINE c == task[r].conn
           t == task[r].target
           back == [link[c] EXCEPT !.idleSince = now, !.exchange = "none"]
<1>1. /\ c \in Conns /\ t \in Targets /\ link[c] \in Link /\ c # None
      /\ link[c].verified /\ link[c].target = t
  BY HeldConn, ConstantsAssumption DEF Holding, PoolInv, TaskOK
<1>2. /\ back \in Link /\ back.exchange = "none"
      /\ back.verified = link[c].verified /\ back.target = t
      /\ back.guarded = link[c].guarded
  BY <1>1 DEF Link, Exchange, PoolInv, TypeOK
<1>10. WrappedFirst(back)
  BY <1>1, <1>2 DEF PoolInv, AllWrappedFirst, WrappedFirst
<1>3. /\ \A u \in Targets : c \notin idle[u]
      /\ \A q \in Tasks : q # r => task[q].conn # c
  BY <1>1 DEF PoolInv, SingleOwner
<1>4. /\ task' \in [Tasks -> Task] /\ task'[r] = Fresh
      /\ \A q \in Tasks : q # r => task'[q] = task[q]
  BY ClosedType DEF GiveBack, EndTask, PoolInv, TypeOK
<1>5. TaskOK(r)'
  BY <1>4 DEF TaskOK, Fresh, Holding
<1>6. ASSUME \A d \in Conns : d # c /\ d \notin Swept(t) => link'[d] = link[d],
             NEW q \in Tasks
      PROVE  TaskOK(q)'
  <2>1. CASE q = r
    BY <1>5, <2>1
  <2>2. CASE q # r
    BY <1>1, <1>4, <1>6, <2>2, OthersKept, SweptUnheld, HeldAlone
  <2> QED BY <2>1, <2>2
<1>7. CASE link' = Dropped({c}) /\ UNCHANGED idle
  BY <1>7, RetireInv DEF GiveBack, RetireAndEnd
<1>8. CASE /\ Cardinality(Retained(t)) < MaxIdle
           /\ link' = [Dropped(Swept(t)) EXCEPT ![c] = back]
           /\ idle' = [idle EXCEPT ![t] = Retained(t) \cup {c}]
  <2> HIDE DEF back
  <2>1. /\ link' \in [Conns -> Link] /\ link'[c] = back
        /\ \A d \in Conns : d # c /\ d \notin Swept(t) => link'[d] = link[d]
        /\ \A d \in Conns : d # c /\ link'[d].open => d \notin Swept(t)
        /\ \A d \in Conns : d # c => WrappedFirst(link'[d])
    BY <1>1, <1>2, <1>8, ClosedType
    DEF Dropped, Closed, PoolInv, TypeOK, AllWrappedFirst, WrappedFirst
  <2>8. AllWrappedFirst'
    BY <1>10, <2>1 DEF AllWrappedFirst
  <2>2. TypeOK'
    BY <1>1, <1>4, <1>8, <2>1 DEF GiveBack, PoolInv, TypeOK, Retained
  <2>3. /\ idle'[t] = Retained(t) \cup {c}
        /\ \A u \in Targets : u # t => idle'[u] = idle[u]
        /\ Retained(t) \subseteq idle[t]
    BY <1>1, <1>8 DEF PoolInv, TypeOK, Retained
  <2>4. SingleOwner'
    <3>1. \A u, v \in Targets : u # v => idle'[u] \cap idle'[v] = {}
      BY <1>1, <1>3, <2>3 DEF PoolInv, SingleOwner
    <3>2. \A p, q \in Tasks : p # q /\ task'[p].conn # None => task'[p].conn # task'[q].conn
      BY <1>4 DEF PoolInv, SingleOwner, Fresh
    <3>3. \A p \in Tasks, u \in Targets : task'[p].conn \notin idle'[u]
      <4> SUFFICES ASSUME NEW p \in Tasks, NEW u \in Targets
                   PROVE  task'[p].conn \notin idle'[u]
        OBVIOUS
      <4>1. CASE p = r
        BY <1>4, <2>2, <4>1, ConstantsAssumption DEF TypeOK, Fresh
      <4>2. CASE p # r
        BY <1>1, <1>3, <1>4, <2>3, <4>2 DEF PoolInv, SingleOwner
      <4> QED BY <4>1, <4>2
    <3> QED BY <3>1, <3>2, <3>3 DEF SingleOwner
  <2>5. PooledClean'
    <3> SUFFICES ASSUME NEW u \in Targets, NEW d \in idle'[u]
                 PROVE  /\ link'[d].verified /\ link'[d].target = u
                        /\ link'[d].exchange = "none"
      BY DEF PooledClean
    <3>1. CASE d = c
      BY <1>1, <1>2, <1>3, <2>1, <2>3, <3>1
    <3>2. CASE d # c
      <4>1. d \in idle[u] /\ d \in Conns /\ d \notin Swept(t)
        BY <1>1, <2>3, <3>2 DEF PoolInv, TypeOK, SingleOwner, Swept
      <4> QED BY <2>1, <3>2, <4>1 DEF PoolInv, PooledClean
    <3> QED BY <3>1, <3>2
  <2>6. NoOrphans'
    <3> SUFFICES ASSUME NEW d \in Conns, link'[d].open, link'[d].guarded
                 PROVE  Owned(d)'
      BY <2>8, UnwrappedLeft
    <3> USE DEF Owned
    <3>1. CASE d = c
      BY <1>1, <2>3, <3>1
    <3>2. CASE d # c
      <4>1. link[d].open /\ d \notin Swept(t) /\ link[d].guarded
        BY <2>1, <3>2
      <4>2. CASE \E u \in Targets : d \in idle[u]
        BY <2>3, <4>1, <4>2 DEF Swept
      <4>3. CASE \E q \in Tasks : task[q].conn = d /\ task[q].pc \in Holding
        BY <1>4, <3>2, <4>3
      <4> QED BY <4>1, <4>2, <4>3 DEF PoolInv, NoOrphans, LeftBare
    <3> QED BY <3>1, <3>2
  <2>7. FiniteIdle' /\ IdleBounded'
    <3>1. IsFiniteSet(Retained(t))
      BY <1>1, <2>3, FS_Subset DEF PoolInv, FiniteIdle
    <3>2. c \notin Retained(t)
      BY <1>1, <1>3, <2>3
    <3>3. /\ IsFiniteSet(Retained(t) \cup {c})
          /\ Cardinality(Retained(t) \cup {c}) = Cardinality(Retained(t)) + 1
      BY <3>1, <3>2, FS_AddElement
    <3>4. Cardinality(Retained(t) \cup {c}) <= MaxIdle
      BY <1>8, <3>1, <3>3, FS_CardinalityType, ConstantsAssumption
    <3> QED BY <2>3, <3>3, <3>4 DEF PoolInv, FiniteIdle, IdleBounded
  <2> QED BY <1>6, <2>1, <2>2, <2>4, <2>5, <2>6, <2>7, <2>8 DEF PoolInv
<1>9. CASE /\ link' = Dropped(Swept(t) \cup {c})
           /\ idle' = [idle EXCEPT ![t] = Retained(t)]
  <2>1. /\ link' \in [Conns -> Link]
        /\ \A d \in Conns : d # c /\ d \notin Swept(t) => link'[d] = link[d]
        /\ \A d \in Conns : link'[d].open => d # c /\ d \notin Swept(t)
        /\ AllWrappedFirst'
    BY <1>9, ClosedType DEF Dropped, Closed, PoolInv, TypeOK, AllWrappedFirst, WrappedFirst
  <2>2. TypeOK'
    BY <1>4, <1>9, <2>1 DEF GiveBack, PoolInv, TypeOK, Retained
  <2>3. /\ idle'[t] = Retained(t)
        /\ \A u \in Targets : u # t => idle'[u] = idle[u]
        /\ \A u \in Targets : idle'[u] \subseteq idle[u]
    BY <1>1, <1>9 DEF PoolInv, TypeOK, Retained
  <2>4. SingleOwner'
    <3>1. None \notin Conns /\ \A u \in Targets : idle'[u] \subseteq Conns
      BY <2>2, ConstantsAssumption DEF TypeOK
    <3> QED BY <1>4, <2>3, <3>1 DEF PoolInv, SingleOwner, Fresh
  <2>5. PooledClean'
    <3> SUFFICES ASSUME NEW u \in Targets, NEW d \in idle'[u]
                 PROVE  /\ link'[d].verified /\ link'[d].target = u
                        /\ link'[d].exchange = "none"
      BY DEF PooledClean
    <3>1. d \in idle[u] /\ d \in Conns /\ d # c /\ d \notin Swept(t)
      BY <1>1, <1>3, <2>3 DEF PoolInv, TypeOK, SingleOwner, Swept
    <3> QED BY <2>1, <3>1 DEF PoolInv, PooledClean
  <2>6. NoOrphans'
    <3> SUFFICES ASSUME NEW d \in Conns, link'[d].open, link'[d].guarded
                 PROVE  Owned(d)'
      BY <2>1, UnwrappedLeft
    <3> USE DEF Owned
    <3>1. link[d].open /\ d \notin Swept(t) /\ d # c /\ link[d].guarded
      BY <2>1
    <3>2. CASE \E u \in Targets : d \in idle[u]
      BY <2>3, <3>1, <3>2 DEF Swept
    <3>3. CASE \E q \in Tasks : task[q].conn = d /\ task[q].pc \in Holding
      BY <1>4, <3>1, <3>3
    <3> QED BY <3>1, <3>2, <3>3 DEF PoolInv, NoOrphans, LeftBare
  <2>7. FiniteIdle' /\ IdleBounded'
    BY <1>1, <1>9, SweepBounded DEF Sweeps
  <2> QED BY <1>6, <2>1, <2>2, <2>4, <2>5, <2>6, <2>7 DEF PoolInv
<1> QED BY <1>7, <1>8, <1>9 DEF GiveBack, HasRoom

(* The properties are parts of the invariant.                              *)
LEMMA PoolInvImplies ==
  PoolInv => /\ TypeOK /\ SingleOwner /\ PooledClean /\ NoOrphans /\ IdleBounded
             /\ DeliveredOnce
BY DEF PoolInv, TaskOK, DeliveredOnce

-----------------------------------------------------------------------------
(***************************************************************************)
(* The NEAR proxy.                                                         *)
(***************************************************************************)

(* Every connection is wrapped in an Attested from the moment it is up.    *)
AllWrapped == \A c \in Conns : link[c] = Closed \/ link[c].guarded

NearInv == PoolInv /\ AllWrapped

(* A request starts.                                                       *)
LEMMA NearStartInv ==
  ASSUME PoolInv, NEW r \in Tasks, Start(r)
  PROVE  PoolInv'
<1>1. PICK t \in Targets : task' = [task EXCEPT ![r].pc = "take", ![r].target = t]
  BY DEF Start
<1> DEFINE s == [task[r] EXCEPT !.pc = "take", !.target = t]
<1>2. task[r] \in Task /\ task[r].pc = "new" /\ task[r].conn = None
  BY DEF Start, PoolInv, TypeOK, TaskOK, Holding
<1>3. /\ s \in Task /\ s.pc = "take" /\ s.conn = None /\ s.target = t
      /\ s.delivered = task[r].delivered
  BY <1>2 DEF Task, Phase
<1>4. task' = [task EXCEPT ![r] = s]
  BY <1>1, <1>2 DEF PoolInv, TypeOK
<1> HIDE DEF s
<1>5. TypeOK'
  BY <1>3, <1>4 DEF Start, PoolInv, TypeOK
<1>6. TaskOK(r)'
  BY <1>2, <1>3, <1>4, ConstantsAssumption DEF PoolInv, TypeOK, TaskOK, Holding
<1>7. HeldChange(r, None)
  BY <1>2, <1>3, <1>4 DEF Start, HeldChange, PoolInv, TypeOK, AllWrappedFirst
<1> QED BY <1>5, <1>6, <1>7, HeldStep

(* A pooled connection that is not ready is retired and the next one taken. *)
LEMMA PooledNotReadyInv ==
  ASSUME PoolInv, NEW r \in Tasks, PooledNotReady(r)
  PROVE  PoolInv'
<1> DEFINE s == [task[r] EXCEPT !.pc = "take", !.conn = None]
<1>1. task[r] \in Task /\ task[r].pc = "ready"
  BY DEF PooledNotReady, PoolInv, TypeOK
<1>2. /\ s \in Task /\ s.pc = "take" /\ s.conn = None /\ s.target = task[r].target
      /\ s.delivered = task[r].delivered
  BY <1>1 DEF Task, Phase
<1>3. task' = [task EXCEPT ![r] = s]
  BY <1>1 DEF PooledNotReady, SetTask, PoolInv, TypeOK
<1> HIDE DEF s
<1>4. TypeOK'
  BY <1>2, <1>3, ClosedType DEF PooledNotReady, Dropped, PoolInv, TypeOK
<1>5. TaskOK(r)'
  BY <1>1, <1>2, <1>3 DEF PoolInv, TypeOK, TaskOK, Holding
<1>6. HeldChange(r, task[r].conn)
  BY <1>2, <1>3 DEF PooledNotReady, Dropped, Closed, HeldChange, PoolInv, TypeOK,
                           WrappedFirst
<1> QED BY <1>4, <1>5, <1>6, HeldStep

(* The complete report was read from the connection.                       *)
LEMMA FetchedInv ==
  ASSUME PoolInv, NEW r \in Tasks, Fetched(r)
  PROVE  PoolInv'
<1> DEFINE c == task[r].conn
           l == [link[c] EXCEPT !.exchange = "none"]
           s == [task[r] EXCEPT !.pc = "verify", !.conn = c]
<1>1. c \in Conns /\ link[c] \in Link /\ task[r] \in Task /\ task[r].pc = "fetch"
  BY HeldConn DEF Fetched, Holding, PoolInv, TypeOK
<1>2. link' = [link EXCEPT ![c] = l] /\ task' = [task EXCEPT ![r] = s]
  BY <1>1 DEF Fetched, SetTask, PoolInv, TypeOK
<1>3. /\ s \in Task /\ s.pc = "verify" /\ s.conn = c
      /\ s.target = task[r].target /\ s.delivered = task[r].delivered
  BY <1>1 DEF Task, Phase
<1>4. l \in Link /\ l.exchange = "none" /\ l.target = link[c].target
  BY <1>1 DEF Link, Exchange
<1>7. Kept(l, link[c])
  BY <1>1 DEF Link, Kept
<1> HIDE DEF l, s
<1>5. TaskOK(r)'
  BY <1>1, <1>2, <1>3, <1>4 DEF PoolInv, TypeOK, TaskOK, Holding
<1>6. Rewrites(r, c, l, s)
  BY <1>1, <1>2, <1>3, <1>4, <1>7, KeptWrapped DEF Rewrites, Fetched
<1> QED BY <1>5, <1>6, RewriteStep

(* verify_identity, the quote and the GPU verdict together leave no fault. *)
LEMMA VerifiedGenuine ==
  ASSUME NEW t \in Targets, NEW e \in Evidence, e.fault # "quote",
         VerifyIdentity(e, t), VerifyGpu(e)
  PROVE  Genuine(e, t)
BY DEF Evidence, Fault, VerifyIdentity, VerifyGpu, Genuine

(* The report verified: the connection is attested for its target.         *)
LEMMA VerifiedInv ==
  ASSUME NearInv, NEW r \in Tasks, Verified(r)
  PROVE  PoolInv'
<1> DEFINE c == task[r].conn
           t == task[r].target
           l == [link[c] EXCEPT !.verified = TRUE]
           s == [task[r] EXCEPT !.pc = "fresh", !.conn = c]
<1>1. /\ c \in Conns /\ t \in Targets /\ link[c] \in Link /\ task[r] \in Task
      /\ task[r].pc = "verify" /\ PoolInv
  BY HeldConn DEF Verified, Holding, NearInv, PoolInv, TypeOK
<1>9. link[c].guarded
  BY <1>1, HeldConn, ConstantsAssumption DEF Holding, NearInv, AllWrapped, Closed
<1>2. PICK e \in Evidence :
         /\ e.fault # "quote" /\ VerifyIdentity(e, t) /\ VerifyGpu(e)
         /\ link' = [link EXCEPT ![c].verified = Genuine(e, t)]
  BY DEF Verified
<1>3. Genuine(e, t) = TRUE
  BY <1>1, <1>2, VerifiedGenuine DEF Genuine
<1>4. link' = [link EXCEPT ![c] = l] /\ task' = [task EXCEPT ![r] = s]
  BY <1>1, <1>2, <1>3 DEF Verified, SetTask, PoolInv, TypeOK
<1>5. /\ s \in Task /\ s.pc = "fresh" /\ s.conn = c
      /\ s.target = task[r].target /\ s.delivered = task[r].delivered
  BY <1>1 DEF Task, Phase
<1>6. /\ l \in Link /\ l.verified /\ l.exchange = link[c].exchange
      /\ l.target = link[c].target /\ WrappedFirst(l)
  BY <1>1, <1>9 DEF Link, WrappedFirst
<1> HIDE DEF l, s
<1>7. TaskOK(r)'
  BY <1>1, <1>4, <1>5, <1>6 DEF PoolInv, TypeOK, TaskOK, Holding
<1>8. Rewrites(r, c, l, s)
  BY <1>1, <1>4, <1>5, <1>6 DEF Rewrites, Verified
<1> QED BY <1>1, <1>7, <1>8, RewriteStep

(* hyper hands the request back: a fresh connection is attested, or none.  *)
LEMMA UnsentInv ==
  ASSUME PoolInv, NEW r \in Tasks, Unsent(r)
  PROVE  PoolInv'
<1>1. CASE EndTask(r)
  BY <1>1, RetireInv DEF Unsent, RetireAndEnd
<1>2. CASE task' = [task EXCEPT ![r].pc = "connect", ![r].conn = None,
                                ![r].attempt = 0, ![r].retried = TRUE]
  <2> DEFINE s == [task[r] EXCEPT !.pc = "connect", !.conn = None,
                                  !.attempt = 0, !.retried = TRUE]
  <2>1. task[r] \in Task /\ task[r].pc = "awaiting"
    BY DEF Unsent, PoolInv, TypeOK
  <2>2. /\ s \in Task /\ s.pc = "connect" /\ s.conn = None
        /\ s.target = task[r].target /\ s.delivered = task[r].delivered
    BY <2>1 DEF Task, Phase
  <2>3. task' = [task EXCEPT ![r] = s]
    BY <1>2, <2>1 DEF PoolInv, TypeOK
  <2> HIDE DEF s
  <2>4. TypeOK'
    BY <2>2, <2>3, ClosedType DEF Unsent, Dropped, PoolInv, TypeOK
  <2>5. TaskOK(r)'
    BY <2>1, <2>2, <2>3 DEF Unsent, PoolInv, TypeOK, TaskOK, Holding
  <2>6. HeldChange(r, task[r].conn)
    BY <2>2, <2>3 DEF Unsent, Dropped, Closed, HeldChange, PoolInv, TypeOK, WrappedFirst
  <2> QED BY <2>4, <2>5, <2>6, HeldStep
<1> QED BY <1>1, <1>2 DEF Unsent

-----------------------------------------------------------------------------
(* Every step of the proxy keeps the invariant.                            *)
LEMMA NearNextInv == NearInv /\ [Next]_poolVars => PoolInv'
<1> SUFFICES ASSUME NearInv, PoolInv, [Next]_poolVars PROVE PoolInv'
  BY DEF NearInv
<1>1. ASSUME NEW r \in Tasks, Start(r) PROVE PoolInv'
  BY <1>1, NearStartInv
<1>2. ASSUME NEW r \in Tasks, Checkout(r) PROVE PoolInv'
  <2>1. CASE TakePooled(r)
    BY <2>1, TakeInv
  <2>2. CASE PooledReady(r) \/ FreshReady(r)
    BY <2>2, BeginSendInv DEF PooledReady, FreshReady
  <2>3. CASE PooledNotReady(r)
    BY <2>3, PooledNotReadyInv
  <2>4. CASE Connected(r, TRUE)
    BY <2>4, ConnectedInv
  <2>5. CASE ConnectFailed(r) \/ FetchFailed(r) \/ Rejected(r)
    BY <2>5, AttemptFailedInv DEF ConnectFailed, FetchFailed, Rejected
  <2>6. CASE Fetched(r)
    BY <2>6, FetchedInv
  <2>7. CASE Verified(r)
    BY <2>7, VerifiedInv
  <2>8. CASE FreshNotReady(r)
    BY <2>8, RetireInv DEF FreshNotReady
  <2> QED BY <1>2, <2>1, <2>2, <2>3, <2>4, <2>5, <2>6, <2>7, <2>8 DEF Checkout
<1>3. ASSUME NEW r \in Tasks, Inference(r) PROVE PoolInv'
  <2>1. CASE Dispatch(r)
    BY <2>1, DispatchInv
  <2>2. CASE ResponseHead(r)
    BY <2>2, ResponseHeadInv
  <2>3. CASE EmptyResponse(r)
    BY <2>3, GiveBackInv DEF EmptyResponse
  <2>4. CASE Unsent(r)
    BY <2>4, UnsentInv
  <2>5. CASE SendFailed(r)
    BY <2>5, RetireInv DEF SendFailed
  <2> QED BY <1>3, <2>1, <2>2, <2>3, <2>4, <2>5 DEF Inference
<1>4. ASSUME NEW r \in Tasks, Leased(r) PROVE PoolInv'
  BY <1>4, GiveBackInv, RetireInv DEF Leased, BodyEnd, BodyError
<1>5. ASSUME NEW r \in Tasks, Cancel(r) PROVE PoolInv'
  BY <1>5, AbandonInv DEF Cancel
<1>6. ASSUME NEW c \in Conns, PeerClose(c) PROVE PoolInv'
  BY <1>6, PeerCloseInv
<1>7. CASE Tick
  BY <1>7, TickInv
<1>8. CASE UNCHANGED poolVars
  BY <1>8, StutterInv
<1> QED BY <1>1, <1>2, <1>3, <1>4, <1>5, <1>6, <1>7, <1>8 DEF Next

(***************************************************************************)
(* A step leaves every connection gone, or wrapped if it was: sweeps and   *)
(* retirements close, everything else rewrites other fields.               *)
(***************************************************************************)
KeepsWrapped ==
    \A c \in Conns : link'[c] = Closed \/ link'[c] = link[c] \/ link'[c].guarded

LEMMA KeepsWrappedInv == NearInv /\ KeepsWrapped => AllWrapped'
BY DEF NearInv, AllWrapped, KeepsWrapped

(* What a task holds is wrapped.                                           *)
LEMMA HeldWrapped ==
  ASSUME NearInv, NEW r \in Tasks, task[r].pc \in Holding
  PROVE  /\ task[r].conn \in Conns /\ link[task[r].conn] \in Link
         /\ link[task[r].conn].guarded
BY HeldConn, ConstantsAssumption DEF NearInv, AllWrapped, Closed

(* Every step of the proxy leaves every connection wrapped.                *)
LEMMA NearNextWrapped == NearInv /\ [Next]_poolVars => AllWrapped'
<1> SUFFICES ASSUME NearInv, [Next]_poolVars PROVE KeepsWrapped
  BY KeepsWrappedInv
<1>1. link \in [Conns -> Link]
  BY DEF NearInv, PoolInv, TypeOK
<1>2. ASSUME NEW S, link' = Dropped(S) PROVE KeepsWrapped
  BY <1>2 DEF Dropped, KeepsWrapped
<1>3. ASSUME link' = link PROVE KeepsWrapped
  BY <1>3 DEF KeepsWrapped
<1>4. ASSUME NEW r \in Tasks, RetireAndEnd(r) \/ AttemptFailed(r) \/ Abandon(r)
      PROVE  KeepsWrapped
  BY <1>2, <1>3, <1>4 DEF RetireAndEnd, AttemptFailed, Abandon
<1>5. ASSUME NEW r \in Tasks, task[r].pc \in Holding,
             NEW l, l.guarded = link[task[r].conn].guarded,
             link' = [link EXCEPT ![task[r].conn] = l]
      PROVE  KeepsWrapped
  BY <1>1, <1>5, HeldWrapped DEF KeepsWrapped
<1>6. ASSUME NEW r \in Tasks, GiveBack(r), task[r].pc \in {"awaiting", "body"}
      PROVE  KeepsWrapped
  <2> DEFINE c == task[r].conn
             t == task[r].target
             back == [link[c] EXCEPT !.idleSince = now, !.exchange = "none"]
  <2>1. c \in Conns /\ back.guarded
    BY <1>6, HeldWrapped DEF Holding, Link
  <2>2. CASE link' = [Dropped(Swept(t)) EXCEPT ![c] = back]
    <3> HIDE DEF back
    <3> QED BY <2>1, <2>2 DEF Dropped, KeepsWrapped
  <2> QED BY <1>2, <1>6, <2>2 DEF GiveBack
<1>7. ASSUME NEW r \in Tasks, BeginSend(r, task[r].conn), task[r].pc \in {"ready", "fresh"}
      PROVE  KeepsWrapped
  <2> DEFINE c == task[r].conn
             l == [link[c] EXCEPT !.requests = @ + 1, !.exchange = "queued"]
  <2>1. c \in Conns /\ l.guarded = link[c].guarded
    BY <1>7, HeldWrapped DEF Holding, Link
  <2>2. link' = [link EXCEPT ![c] = l]
    BY <1>1, <1>7, <2>1 DEF BeginSend
  <2> HIDE DEF l
  <2> QED BY <1>5, <1>7, <2>1, <2>2 DEF Holding
<1>8. ASSUME NEW r \in Tasks, Checkout(r) PROVE KeepsWrapped
  <2>1. CASE TakePooled(r)
    BY <1>2, <2>1 DEF TakePooled
  <2>2. CASE PooledReady(r) \/ FreshReady(r)
    BY <1>7, <2>2 DEF PooledReady, FreshReady
  <2>3. CASE PooledNotReady(r)
    BY <1>2, <2>3 DEF PooledNotReady
  <2>4. CASE Connected(r, TRUE)
    BY <1>1, <2>4 DEF Connected, Closed, KeepsWrapped
  <2>5. CASE ConnectFailed(r) \/ FetchFailed(r) \/ Rejected(r)
    BY <1>4, <2>5 DEF ConnectFailed, FetchFailed, Rejected
  <2>6. CASE Fetched(r)
    <3> DEFINE l == [link[task[r].conn] EXCEPT !.exchange = "none"]
    <3>1. l.guarded = link[task[r].conn].guarded /\ task[r].pc \in Holding
      BY <2>6, HeldWrapped DEF Fetched, Holding, Link
    <3>2. link' = [link EXCEPT ![task[r].conn] = l]
      BY <1>1, <2>6 DEF Fetched
    <3> HIDE DEF l
    <3> QED BY <1>5, <3>1, <3>2
  <2>7. CASE Verified(r)
    <3>1. PICK v : link' = [link EXCEPT ![task[r].conn].verified = v]
      BY <2>7 DEF Verified
    <3> DEFINE l == [link[task[r].conn] EXCEPT !.verified = v]
    <3>2. l.guarded = link[task[r].conn].guarded /\ task[r].pc \in Holding
      BY <2>7, HeldWrapped DEF Verified, Holding, Link
    <3>3. link' = [link EXCEPT ![task[r].conn] = l]
      BY <1>1, <3>1
    <3> HIDE DEF l
    <3> QED BY <1>5, <3>2, <3>3
  <2>8. CASE FreshNotReady(r)
    BY <1>4, <2>8 DEF FreshNotReady
  <2> QED BY <1>8, <2>1, <2>2, <2>3, <2>4, <2>5, <2>6, <2>7, <2>8 DEF Checkout
<1>9. ASSUME NEW r \in Tasks, Inference(r) PROVE KeepsWrapped
  <2>1. CASE Dispatch(r) \/ ResponseHead(r)
    <3>1. PICK e \in {"sent", "body"} : link' = [link EXCEPT ![task[r].conn].exchange = e]
      BY <2>1 DEF Dispatch, ResponseHead
    <3> DEFINE l == [link[task[r].conn] EXCEPT !.exchange = e]
    <3>2. l.guarded = link[task[r].conn].guarded /\ task[r].pc \in Holding
      BY <2>1, HeldWrapped DEF Dispatch, ResponseHead, Holding, Link
    <3>3. link' = [link EXCEPT ![task[r].conn] = l]
      BY <1>1, <3>1
    <3> HIDE DEF l
    <3> QED BY <1>5, <3>2, <3>3
  <2>2. CASE EmptyResponse(r)
    BY <1>6, <2>2 DEF EmptyResponse
  <2>3. CASE Unsent(r)
    BY <1>2, <2>3 DEF Unsent
  <2>4. CASE SendFailed(r)
    BY <1>4, <2>4 DEF SendFailed
  <2> QED BY <1>9, <2>1, <2>2, <2>3, <2>4 DEF Inference
<1>10. ASSUME NEW r \in Tasks, Start(r) \/ Leased(r) \/ Cancel(r) PROVE KeepsWrapped
  BY <1>3, <1>4, <1>6, <1>10 DEF Start, Leased, BodyEnd, BodyError, Cancel
<1>11. ASSUME NEW c \in Conns, PeerClose(c) PROVE KeepsWrapped
  BY <1>1, <1>11 DEF PeerClose, NearInv, AllWrapped, Closed, Link, KeepsWrapped
<1>12. CASE Tick \/ UNCHANGED poolVars
  BY <1>3, <1>12 DEF Tick, poolVars
<1> QED BY <1>8, <1>9, <1>10, <1>11, <1>12 DEF Next

(* The invariant holds of every reachable state.                           *)
THEOREM NearInvariance == Spec => []NearInv
<1>1. PoolInit => NearInv
  BY PoolInitInv DEF PoolInit, NearInv, AllWrapped
<1>2. NearInv /\ [Next]_poolVars => NearInv'
  BY NearNextInv, NearNextWrapped DEF NearInv
<1> QED BY <1>1, <1>2, PTL DEF Spec

(* Every variable keeps its type.                                          *)
THEOREM NearTypeCorrect == Spec => []TypeOK
BY NearInvariance, PoolInvImplies, PTL DEF NearInv

(***************************************************************************)
(* A connection is in one pool, or with one request, never both: two       *)
(* requests never share an attested connection.                            *)
(***************************************************************************)
THEOREM NearSingleOwner == Spec => []SingleOwner
BY NearInvariance, PoolInvImplies, PTL DEF NearInv

(***************************************************************************)
(* A pooled connection was attested for its pool's target and nothing of   *)
(* an earlier exchange is left on it.                                      *)
(***************************************************************************)
THEOREM NearPooledClean == Spec => []PooledClean
BY NearInvariance, PoolInvImplies, PTL DEF NearInv

(***************************************************************************)
(* No transport outlives the pool slot or the request that owned it, not   *)
(* even one whose caller left before it was attested: NEAR's connections   *)
(* are wrapped as soon as they are up.                                     *)
(***************************************************************************)
AllOwned == \A c \in Conns : link[c].open => Owned(c)

THEOREM NearAllOwned == Spec => []AllOwned
<1>1. NearInv => AllOwned
  BY DEF NearInv, PoolInv, NoOrphans, LeftBare, AllWrapped, Closed, AllOwned
<1> QED BY <1>1, NearInvariance, PTL

(* No pool exceeds its bound.                                              *)
THEOREM NearIdleBounded == Spec => []IdleBounded
BY NearInvariance, PoolInvImplies, PTL DEF NearInv

(***************************************************************************)
(* The pool is sound: one owner per connection, clean and attested pooled  *)
(* connections, no orphaned transport, no pool above its bound.            *)
(***************************************************************************)
THEOREM NearPoolSound == Spec => []PoolSound
<1>1. AllOwned => NoOrphans
  BY DEF AllOwned, NoOrphans
<1> QED BY <1>1, NearSingleOwner, NearPooledClean, NearAllOwned, NearIdleBounded, PTL
        DEF PoolSound

(* No request is serialized onto two upstream connections.                 *)
THEOREM NearDeliveredOnce == Spec => []DeliveredOnce
BY NearInvariance, PoolInvImplies, PTL DEF NearInv

-----------------------------------------------------------------------------
(* What holds of the connection when a request is handed to it.            *)
HandedWell(r) ==
    Handed(r) =>
      LET l == link[task'[r].conn] IN
      /\ l.verified /\ l.target = task[r].target /\ l.exchange = "none"
      /\ l.expiresAt # None => now < l.expiresAt
      /\ now < l.attestedAt + MaxAge
      /\ l.idleSince # None /\ MaxIdleAge # None => now < l.idleSince + MaxIdleAge
      /\ l.requests < MaxRequests

(* The readiness checks hand over a usable, attested, clean connection.    *)
LEMMA BeginSendHands ==
  ASSUME PoolInv, NEW r \in Tasks, task[r].pc \in {"ready", "fresh"},
         Usable(task[r].conn), BeginSend(r, task[r].conn)
  PROVE  HandedWell(r)
<1> DEFINE c == task[r].conn
           l == link[c]
<1>1. c \in Conns /\ l \in Link /\ task[r] \in Task /\ task \in [Tasks -> Task]
  BY HeldConn DEF Holding, PoolInv, TypeOK
<1>2. task'[r].conn = c
  BY <1>1 DEF BeginSend, SetTask, Task
<1>3. l.verified /\ l.target = task[r].target /\ l.exchange = "none"
  BY DEF PoolInv, TaskOK, Holding
<1>4. /\ now \in Nat /\ l.attestedAt \in Nat /\ l.idleSince \in Nat \cup {None}
      /\ MaxAge \in Nat /\ MaxIdleAge \in Nat \cup {None}
  BY <1>1, ConstantsAssumption DEF PoolInv, TypeOK, Link, Time
<1> HIDE DEF l
<1>5. /\ l.expiresAt # None => now < l.expiresAt
      /\ now < l.attestedAt + MaxAge
      /\ l.idleSince # None /\ MaxIdleAge # None => now < l.idleSince + MaxIdleAge
      /\ l.requests < MaxRequests
  BY <1>4 DEF Usable, UsableLink, l
<1> QED BY <1>2, <1>3, <1>5 DEF HandedWell, l

(* No other step hands a request over.                                     *)
LEMMA HandedStep == PoolInv /\ [Next]_poolVars => \A r \in Tasks : HandedWell(r)
<1> SUFFICES ASSUME PoolInv, [Next]_poolVars, NEW r \in Tasks, Handed(r)
             PROVE  HandedWell(r)
  BY DEF HandedWell
<1>1. task \in [Tasks -> Task] /\ task[r].pc # "awaiting" /\ task'[r].pc = "awaiting"
  BY DEF PoolInv, TypeOK, Handed
<1>2. task' # task
  BY <1>1
<1>3. PICK q \in Tasks : Start(q) \/ Checkout(q) \/ Inference(q) \/ Leased(q) \/ Cancel(q)
  BY <1>2 DEF Next, PeerClose, Tick, poolVars
<1>4. CASE PooledReady(q) \/ FreshReady(q)
  <2>1. q = r
    BY <1>1, <1>4 DEF PooledReady, FreshReady, BeginSend, SetTask
  <2> QED BY <1>4, <2>1, BeginSendHands DEF PooledReady, FreshReady
<1>5. CASE ~(PooledReady(q) \/ FreshReady(q))
  <2>1. task'[r].pc # "awaiting" \/ task[r].pc = "awaiting"
    <3> USE <1>1 DEF SetTask, EndTask, RetireAndEnd, Fresh, Task
    <3>1. CASE Start(q)
      BY <3>1 DEF Start
    <3>2. CASE Checkout(q)
      BY <1>5, <3>2 DEF Checkout, TakePooled, PooledNotReady, Connected, ConnectFailed,
         Fetched, FetchFailed, Verified, Rejected, AttemptFailed, FreshNotReady
    <3>3. CASE Inference(q)
      BY <3>3 DEF Inference, Dispatch, ResponseHead, EmptyResponse, GiveBack, Unsent,
         SendFailed
    <3>4. CASE Leased(q) \/ Cancel(q)
      BY <3>4 DEF Leased, BodyEnd, BodyError, GiveBack, Cancel, Abandon
    <3> QED BY <1>3, <3>1, <3>2, <3>3, <3>4
  <2> QED BY <1>1, <2>1
<1> QED BY <1>4, <1>5

(***************************************************************************)
(* A request is only ever handed to a connection that is attested for its  *)
(* target, carries nothing else, and is at that moment within its ages,    *)
(* deadline and request budget.                                            *)
(***************************************************************************)
THEOREM NearHandedOnlyToUsable == Spec => HandedOnlyToUsable
<1>1. PoolInv /\ [Next]_poolVars =>
        [\A r \in Tasks : HandedWell(r)]_poolVars
  BY HandedStep
<1> QED BY <1>1, NearInvariance, PTL DEF NearInv, Spec, HandedOnlyToUsable, HandsOnlyToUsable, HandedWell

-----------------------------------------------------------------------------
(***************************************************************************)
(* The KubeTEE proxy.                                                      *)
(***************************************************************************)

(***************************************************************************)
(* A connection whose attestation verified, or is being verified, carries  *)
(* the deadline of the keyset it was bound to.                             *)
(***************************************************************************)
DeadlineKnown ==
    /\ \A c \in Conns : link[c].verified => link[c].expiresAt # None
    /\ \A r \in Tasks : task[r].pc = "verify" => link[task[r].conn].expiresAt # None

KubeteeInv == PoolInv /\ DeadlineKnown

-----------------------------------------------------------------------------
(***************************************************************************)
(* A step of a task without a connection that starts, or reads its body.   *)
(***************************************************************************)
LEMMA NoConnStep ==
  ASSUME PoolInv, NEW r \in Tasks, task[r].conn = None, NEW s \in Task,
         task' = [task EXCEPT ![r] = s], UNCHANGED <<now, link, idle>>,
         s.conn = None, s.pc \in {"read", "take"}, s.target # None,
         s.delivered = task[r].delivered
  PROVE  PoolInv'
<1>1. TypeOK'
  BY DEF PoolInv, TypeOK
<1>2. TaskOK(r)'
  BY ConstantsAssumption DEF PoolInv, TypeOK, TaskOK, Holding
<1>3. HeldChange(r, None)
  BY DEF HeldChange, PoolInv, TypeOK, AllWrappedFirst
<1> QED BY <1>1, <1>2, <1>3, HeldStep

(* A request starts.                                                       *)
LEMMA KubeteeStartInv ==
  ASSUME PoolInv, NEW r \in Tasks, StartChat(r) \/ StartModels(r)
  PROVE  PoolInv'
<1>1. task[r] \in Task /\ task[r].conn = None /\ task \in [Tasks -> Task]
  BY DEF StartChat, StartModels, PoolInv, TypeOK, TaskOK, Holding
<1>2. CASE StartChat(r)
  <2>1. PICK t \in Targets : task' = [task EXCEPT ![r].pc = "read", ![r].target = t]
    BY <1>2 DEF StartChat
  <2> DEFINE s == [task[r] EXCEPT !.pc = "read", !.target = t]
  <2>2. /\ s \in Task /\ s.pc = "read" /\ s.conn = None /\ s.target = t
        /\ s.delivered = task[r].delivered
    BY <1>1 DEF Task, Phase
  <2>3. task' = [task EXCEPT ![r] = s]
    BY <1>1, <2>1
  <2> HIDE DEF s
  <2> QED BY <1>1, <1>2, <2>2, <2>3, NoConnStep, ConstantsAssumption DEF StartChat
<1>3. CASE StartModels(r)
  <2>1. PICK t \in Targets :
           task' = [task EXCEPT ![r].pc = "take", ![r].target = t, ![r].kind = "models"]
    BY <1>3 DEF StartModels
  <2> DEFINE s == [task[r] EXCEPT !.pc = "take", !.target = t, !.kind = "models"]
  <2>2. /\ s \in Task /\ s.pc = "take" /\ s.conn = None /\ s.target = t
        /\ s.delivered = task[r].delivered
    BY <1>1 DEF Task, Phase
  <2>3. task' = [task EXCEPT ![r] = s]
    BY <1>1, <2>1
  <2> HIDE DEF s
  <2> QED BY <1>1, <1>3, <2>2, <2>3, NoConnStep, ConstantsAssumption DEF StartModels
<1> QED BY <1>2, <1>3

(* The body was read, or refused.                                          *)
LEMMA BodyReadInv ==
  ASSUME PoolInv, NEW r \in Tasks, BodyRead(r)
  PROVE  PoolInv'
<1> DEFINE s == [task[r] EXCEPT !.pc = "take", !.conn = None]
<1>1. /\ task[r] \in Task /\ task[r].conn = None /\ task \in [Tasks -> Task]
      /\ task[r].target # None
  BY DEF BodyRead, PoolInv, TypeOK, TaskOK, Holding
<1>2. /\ s \in Task /\ s.pc = "take" /\ s.conn = None /\ s.target = task[r].target
      /\ s.delivered = task[r].delivered
  BY <1>1 DEF Task, Phase
<1>3. task' = [task EXCEPT ![r] = s]
  BY <1>1 DEF BodyRead, SetTask
<1> HIDE DEF s
<1> QED BY <1>1, <1>2, <1>3, NoConnStep DEF BodyRead

LEMMA BodyRefusedInv ==
  ASSUME PoolInv, NEW r \in Tasks, BodyRefused(r)
  PROVE  PoolInv'
<1>1. task[r].conn = None
  BY DEF BodyRefused, PoolInv, TaskOK, Holding
<1>2. link' = Dropped({task[r].conn})
  BY <1>1, ConstantsAssumption DEF BodyRefused, Dropped, PoolInv, TypeOK
<1> QED BY <1>2, RetireInv DEF BodyRefused, RetireAndEnd

(* A pooled connection that is not ready is retired and the next one taken. *)
LEMMA KubeteeNotReadyInv ==
  ASSUME PoolInv, NEW r \in Tasks, KubeteeNotReady(r)
  PROVE  PoolInv'
<1> DEFINE s == [task[r] EXCEPT !.pc = "take", !.conn = None]
<1>1. task[r] \in Task /\ task[r].pc = "ready"
  BY DEF KubeteeNotReady, PoolInv, TypeOK
<1>2. /\ s \in Task /\ s.pc = "take" /\ s.conn = None /\ s.target = task[r].target
      /\ s.delivered = task[r].delivered
  BY <1>1 DEF Task, Phase
<1>3. task' = [task EXCEPT ![r] = s]
  BY <1>1 DEF KubeteeNotReady, SetTask, PoolInv, TypeOK
<1> HIDE DEF s
<1>4. TypeOK'
  BY <1>2, <1>3, ClosedType DEF KubeteeNotReady, Dropped, PoolInv, TypeOK
<1>5. TaskOK(r)'
  BY <1>1, <1>2, <1>3 DEF PoolInv, TypeOK, TaskOK, Holding
<1>6. HeldChange(r, task[r].conn)
  BY <1>2, <1>3 DEF KubeteeNotReady, Dropped, Closed, HeldChange, PoolInv, TypeOK,
                           WrappedFirst
<1> QED BY <1>4, <1>5, <1>6, HeldStep

(* The response was read and its binding holds.                            *)
LEMMA KeysetFetchedInv ==
  ASSUME PoolInv, NEW r \in Tasks, KeysetFetched(r)
  PROVE  /\ PoolInv'
         /\ \E l \in Link : /\ link' = [link EXCEPT ![task[r].conn] = l]
                            /\ l.expiresAt # None
<1> DEFINE c == task[r].conn
           s == [task[r] EXCEPT !.pc = "verify", !.conn = c]
<1>1. c \in Conns /\ link[c] \in Link /\ task[r] \in Task /\ task[r].pc = "fetch"
  BY HeldConn DEF KeysetFetched, Holding, PoolInv, TypeOK
<1>2. PICK notAfter \in Deadlines :
         link' = [link EXCEPT ![c].exchange = "none", ![c].expiresAt = notAfter]
  BY DEF KeysetFetched
<1> DEFINE l == [link[c] EXCEPT !.exchange = "none", !.expiresAt = notAfter]
<1>3. link' = [link EXCEPT ![c] = l] /\ task' = [task EXCEPT ![r] = s]
  BY <1>1, <1>2 DEF KeysetFetched, SetTask, PoolInv, TypeOK
<1>4. /\ s \in Task /\ s.pc = "verify" /\ s.conn = c
      /\ s.target = task[r].target /\ s.delivered = task[r].delivered
  BY <1>1 DEF Task, Phase
<1>5. /\ l \in Link /\ l.exchange = "none" /\ l.target = link[c].target
      /\ l.expiresAt # None
  BY <1>1, DeadlinesAssumption, ConstantsAssumption DEF Link, Exchange
<1>9. Kept(l, link[c])
  BY <1>1 DEF Link, Kept
<1> HIDE DEF l, s
<1>6. TaskOK(r)'
  BY <1>1, <1>3, <1>4, <1>5 DEF PoolInv, TypeOK, TaskOK, Holding
<1>7. Rewrites(r, c, l, s)
  BY <1>1, <1>3, <1>4, <1>5, <1>9, KeptWrapped DEF Rewrites, KeysetFetched
<1>8. PoolInv'
  BY <1>6, <1>7, RewriteStep
<1> QED BY <1>3, <1>5, <1>8

(* A freshly verified connection that is usable carries the request.       *)
LEMMA VerifiedUsableInv ==
  ASSUME PoolInv, NEW r \in Tasks, VerifiedUsable(r)
  PROVE  PoolInv'
<1> DEFINE c == task[r].conn
           n == link[c].requests + 1
           l == [link[c] EXCEPT !.guarded = TRUE, !.verified = TRUE, !.requests = n,
                                !.exchange = "queued"]
           s == [task[r] EXCEPT !.pc = "awaiting", !.conn = c]
<1>1. /\ c \in Conns /\ link[c] \in Link /\ task[r] \in Task /\ task[r].pc = "verify"
      /\ n \in Nat
  BY HeldConn DEF VerifiedUsable, Holding, PoolInv, TypeOK, Link
<1>2. PICK fault \in QuoteFault :
         /\ VerifyAttestation(fault)
         /\ link' = [link EXCEPT ![c].guarded = TRUE, ![c].verified = (fault = "none"),
                                 ![c].requests = @ + 1, ![c].exchange = "queued"]
  BY DEF VerifiedUsable
<1>3. (fault = "none") = TRUE
  BY <1>2 DEF VerifyAttestation
<1>4. link' = [link EXCEPT ![c] = l] /\ task' = [task EXCEPT ![r] = s]
  BY <1>1, <1>2, <1>3 DEF VerifiedUsable, SetTask, PoolInv, TypeOK, Link
<1> HIDE DEF n
<1>5. /\ s \in Task /\ s.pc = "awaiting" /\ s.conn = c
      /\ s.target = task[r].target /\ s.delivered = task[r].delivered
  BY <1>1 DEF Task, Phase
<1>6. /\ l \in Link /\ l.verified /\ l.exchange = "queued" /\ l.target = link[c].target
      /\ WrappedFirst(l)
  BY <1>1 DEF Link, Exchange, WrappedFirst
<1> HIDE DEF l, s
<1>7. TaskOK(r)'
  BY <1>1, <1>4, <1>5, <1>6 DEF PoolInv, TypeOK, TaskOK, Holding
<1>8. Rewrites(r, c, l, s)
  BY <1>1, <1>4, <1>5, <1>6 DEF Rewrites, VerifiedUsable
<1> QED BY <1>7, <1>8, RewriteStep

-----------------------------------------------------------------------------
(* Every step of the proxy keeps the pool's invariant.                     *)
LEMMA KubeteeNextInv == PoolInv /\ [KubeteeNext]_poolVars => PoolInv'
<1> SUFFICES ASSUME PoolInv, [KubeteeNext]_poolVars PROVE PoolInv'
  OBVIOUS
<1>1. ASSUME NEW r \in Tasks, StartChat(r) \/ StartModels(r) PROVE PoolInv'
  BY <1>1, KubeteeStartInv
<1>2. ASSUME NEW r \in Tasks, KubeteeCheckout(r) PROVE PoolInv'
  <2>1. CASE BodyRead(r) \/ BodyRefused(r)
    BY <2>1, BodyReadInv, BodyRefusedInv
  <2>2. CASE TakePooled(r)
    BY <2>2, TakeInv
  <2>3. CASE KubeteeReady(r)
    BY <2>3, BeginSendInv DEF KubeteeReady
  <2>4. CASE KubeteeNotReady(r)
    BY <2>4, KubeteeNotReadyInv
  <2>5. CASE Connected(r, FALSE)
    BY <2>5, ConnectedInv
  <2>6. CASE ConnectFailed(r) \/ FetchFailed(r) \/ QuoteRejected(r)
    BY <2>6, AttemptFailedInv DEF ConnectFailed, FetchFailed, QuoteRejected
  <2>7. CASE KeysetFetched(r)
    BY <2>7, KeysetFetchedInv
  <2>8. CASE VerifiedUsable(r)
    BY <2>8, VerifiedUsableInv
  <2>9. CASE VerifiedUnusable(r)
    BY <2>9, RetireInv DEF VerifiedUnusable
  <2> QED BY <1>2, <2>1, <2>2, <2>3, <2>4, <2>5, <2>6, <2>7, <2>8, <2>9 DEF KubeteeCheckout
<1>3. ASSUME NEW r \in Tasks, KubeteeInference(r) PROVE PoolInv'
  <2>1. CASE Dispatch(r)
    BY <2>1, DispatchInv
  <2>2. CASE ResponseHead(r)
    BY <2>2, ResponseHeadInv
  <2>3. CASE EmptyResponse(r) \/ ModelsRead(r)
    BY <2>3, GiveBackInv DEF EmptyResponse, ModelsRead
  <2>4. CASE SendFailed(r)
    BY <2>4, RetireInv DEF SendFailed
  <2> QED BY <1>3, <2>1, <2>2, <2>3, <2>4 DEF KubeteeInference
<1>4. ASSUME NEW r \in Tasks, KubeteeLeased(r) PROVE PoolInv'
  BY <1>4, GiveBackInv, RetireInv DEF KubeteeLeased, BodyEnd, BodyError
<1>5. ASSUME NEW r \in Tasks, Cancel(r) PROVE PoolInv'
  BY <1>5, AbandonInv DEF Cancel
<1>6. ASSUME NEW c \in Conns, PeerClose(c) PROVE PoolInv'
  BY <1>6, PeerCloseInv
<1>7. CASE Tick
  BY <1>7, TickInv
<1>8. CASE UNCHANGED poolVars
  BY <1>8, StutterInv
<1> QED BY <1>1, <1>2, <1>3, <1>4, <1>5, <1>6, <1>7, <1>8 DEF KubeteeNext

-----------------------------------------------------------------------------
(***************************************************************************)
(* A step that keeps the deadline of every connection it leaves verified,  *)
(* and of every connection a task goes on verifying.                       *)
(***************************************************************************)
KeepsDeadlines ==
    /\ \A c \in Conns : link'[c].verified =>
          link[c].verified /\ link'[c].expiresAt = link[c].expiresAt
    /\ \A q \in Tasks : task'[q].pc = "verify" =>
          /\ task[q].pc = "verify" /\ task'[q].conn = task[q].conn
          /\ link'[task[q].conn].expiresAt = link[task[q].conn].expiresAt

LEMMA KeepsDeadlinesInv ==
  ASSUME DeadlineKnown, KeepsDeadlines
  PROVE  DeadlineKnown'
BY DEF DeadlineKnown, KeepsDeadlines

(* A connection being verified is held by its task alone, and in no pool.  *)
LEMMA VerifyingAlone ==
  ASSUME PoolInv, NEW q \in Tasks, task[q].pc = "verify"
  PROVE  /\ task[q].conn \in Conns
         /\ \A r \in Tasks : r # q => task[r].conn # task[q].conn
         /\ \A t \in Targets : task[q].conn \notin idle[t]
BY HeldConn DEF PoolInv, SingleOwner, TaskOK, Holding

(* Ending a task, or failing its attempt, drops its own connection only.   *)
LEMMA DropKeeps ==
  ASSUME PoolInv, NEW r \in Tasks, link' = Dropped({task[r].conn}),
         task'[r].pc # "verify", \A q \in Tasks : q # r => task'[q] = task[q]
  PROVE  KeepsDeadlines
BY VerifyingAlone DEF Dropped, Closed, KeepsDeadlines

LEMMA RetireKeeps ==
  ASSUME PoolInv, NEW r \in Tasks, RetireAndEnd(r)
  PROVE  KeepsDeadlines
BY DropKeeps DEF RetireAndEnd, EndTask, Fresh, PoolInv, TypeOK

LEMMA AbandonKeeps ==
  ASSUME PoolInv, NEW r \in Tasks, Abandon(r)
  PROVE  KeepsDeadlines
BY RetireKeeps DEF Abandon, EndTask, Fresh, KeepsDeadlines, PoolInv, TypeOK

LEMMA GiveBackKeeps ==
  ASSUME PoolInv, NEW r \in Tasks, GiveBack(r), task[r].pc \in {"awaiting", "body"}
  PROVE  KeepsDeadlines
<1> DEFINE c == task[r].conn
           t == task[r].target
           back == [link[c] EXCEPT !.idleSince = now, !.exchange = "none"]
<1>1. c \in Conns /\ t \in Targets /\ link[c] \in Link
  BY HeldConn DEF Holding
<1>2. back.verified = link[c].verified /\ back.expiresAt = link[c].expiresAt
  BY <1>1 DEF Link
<1>3. /\ task'[r].pc = "new"
      /\ \A q \in Tasks : q # r => task'[q] = task[q]
  BY DEF GiveBack, EndTask, Fresh, PoolInv, TypeOK
<1>4. \/ link' = Dropped({c}) \/ link' = Dropped(Swept(t) \cup {c})
      \/ link' = [Dropped(Swept(t)) EXCEPT ![c] = back]
  BY DEF GiveBack
<1> HIDE DEF back
<1>5. \A d \in Conns : link'[d].verified =>
         link[d].verified /\ link'[d].expiresAt = link[d].expiresAt
  <2> SUFFICES ASSUME NEW d \in Conns, link'[d].verified
               PROVE  link[d].verified /\ link'[d].expiresAt = link[d].expiresAt
    OBVIOUS
  <2>1. CASE link' = [Dropped(Swept(t)) EXCEPT ![c] = back]
    <3>1. CASE d = c
      BY <1>1, <1>2, <2>1, <3>1 DEF Dropped
    <3>2. CASE d # c
      BY <2>1, <3>2 DEF Dropped, Closed
    <3> QED BY <3>1, <3>2
  <2>2. CASE link' = Dropped({c}) \/ link' = Dropped(Swept(t) \cup {c})
    BY <2>2 DEF Dropped, Closed
  <2> QED BY <1>4, <2>1, <2>2
<1>6. \A d \in Conns : d # c /\ d \notin idle[t] => link'[d] = link[d]
  BY <1>1, <1>4 DEF Dropped, Swept
<1> QED BY <1>1, <1>3, <1>5, <1>6, VerifyingAlone DEF KeepsDeadlines

LEMMA TakeKeeps ==
  ASSUME PoolInv, NEW r \in Tasks, TakePooled(r)
  PROVE  KeepsDeadlines
<1>1. task[r].target \in Targets /\ task[r] \in Task /\ task \in [Tasks -> Task]
  BY DEF TakePooled, PoolInv, TypeOK, Task, TaskOK
<1>2. task'[r].pc # "verify" /\ \A q \in Tasks : q # r => task'[q] = task[q]
  BY <1>1 DEF TakePooled, SetTask, Task
<1> QED BY <1>1, <1>2, VerifyingAlone DEF TakePooled, Dropped, Closed, Swept, KeepsDeadlines

(* A step that rewrites its own connection and keeps verified and deadline. *)
LEMMA RewriteKeeps ==
  ASSUME PoolInv, NEW r \in Tasks, NEW l \in Link, task[r].conn \in Conns,
         link' = [link EXCEPT ![task[r].conn] = l],
         l.verified = link[task[r].conn].verified,
         l.expiresAt = link[task[r].conn].expiresAt,
         task'[r].pc # "verify", \A q \in Tasks : q # r => task'[q] = task[q]
  PROVE  KeepsDeadlines
BY VerifyingAlone DEF KeepsDeadlines, PoolInv, TypeOK

LEMMA SendKeeps ==
  ASSUME PoolInv, NEW r \in Tasks, KubeteeReady(r) \/ Dispatch(r) \/ ResponseHead(r)
  PROVE  KeepsDeadlines
<1> DEFINE c == task[r].conn
           n == link[c].requests + 1
<1>1. /\ c \in Conns /\ link[c] \in Link /\ task[r] \in Task /\ task \in [Tasks -> Task]
      /\ task[r].pc # "verify" /\ n \in Nat
  BY HeldConn DEF KubeteeReady, Dispatch, ResponseHead, Holding, PoolInv, TypeOK, Link
<1>2. task'[r].pc # "verify" /\ \A q \in Tasks : q # r => task'[q] = task[q]
  BY <1>1 DEF KubeteeReady, BeginSend, Dispatch, ResponseHead, SetTask, Task
<1>3. CASE KubeteeReady(r)
  <2> DEFINE l == [link[c] EXCEPT !.requests = n, !.exchange = "queued"]
  <2>1. link' = [link EXCEPT ![c] = l]
    BY <1>1, <1>3 DEF KubeteeReady, BeginSend, PoolInv, TypeOK
  <2> HIDE DEF n
  <2>2. l \in Link /\ l.verified = link[c].verified /\ l.expiresAt = link[c].expiresAt
    BY <1>1, LinkUpdate DEF Link, Exchange
  <2> HIDE DEF l
  <2> QED BY <1>1, <1>2, <2>1, <2>2, RewriteKeeps
<1>4. CASE Dispatch(r) \/ ResponseHead(r)
  <2>1. PICK e \in {"sent", "body"} : link' = [link EXCEPT ![c].exchange = e]
    BY <1>4 DEF Dispatch, ResponseHead
  <2> DEFINE l == [link[c] EXCEPT !.exchange = e]
  <2>2. link' = [link EXCEPT ![c] = l]
    BY <1>1, <2>1 DEF PoolInv, TypeOK
  <2>3. l \in Link /\ l.verified = link[c].verified /\ l.expiresAt = link[c].expiresAt
    BY <1>1, <2>1 DEF Link, Exchange
  <2> HIDE DEF l
  <2> QED BY <1>1, <1>2, <2>2, <2>3, RewriteKeeps
<1> QED BY <1>3, <1>4

(* A new connection is not attested yet.                                   *)
LEMMA ConnectedKeeps ==
  ASSUME PoolInv, NEW r \in Tasks, Connected(r, FALSE)
  PROVE  KeepsDeadlines
<1>1. PICK c \in Unused :
         /\ link' = [link EXCEPT ![c] = [Closed EXCEPT
                       !.open = TRUE, !.guarded = FALSE, !.target = task[r].target,
                       !.attestedAt = now, !.exchange = "fetch"]]
         /\ SetTask(r, "fetch", c)
  BY DEF Connected
<1>2. c \in Conns /\ task[r] \in Task /\ task \in [Tasks -> Task] /\ link \in [Conns -> Link]
  BY DEF Unused, PoolInv, TypeOK
<1>3. /\ ~link'[c].verified
      /\ \A d \in Conns : d # c => link'[d] = link[d]
  BY <1>1, <1>2 DEF Closed
<1>4. task'[r].pc = "fetch" /\ \A q \in Tasks : q # r => task'[q] = task[q]
  BY <1>1, <1>2 DEF SetTask, Task
<1>5. \A q \in Tasks : task[q].conn # c
  BY DEF Unused
<1> QED BY <1>3, <1>4, <1>5, VerifyingAlone DEF KeepsDeadlines

(* A binding that holds stamps the deadline; verification keeps it.        *)
LEMMA FetchedDeadline ==
  ASSUME KubeteeInv, NEW r \in Tasks, KeysetFetched(r)
  PROVE  DeadlineKnown'
<1> DEFINE c == task[r].conn
<1>1. PoolInv /\ task[r].pc = "fetch"
  BY DEF KubeteeInv, KeysetFetched
<1>2. c \in Conns /\ link \in [Conns -> Link] /\ task \in [Tasks -> Task] /\ task[r] \in Task
  BY <1>1, HeldConn DEF Holding, PoolInv, TypeOK
<1>3. PICK l \in Link : link' = [link EXCEPT ![c] = l] /\ l.expiresAt # None
  BY <1>1, KeysetFetchedInv
<1>4. task'[r].conn = c /\ \A q \in Tasks : q # r => task'[q] = task[q]
  BY <1>2 DEF KeysetFetched, SetTask, Task
<1> QED BY <1>1, <1>2, <1>3, <1>4, VerifyingAlone DEF KubeteeInv, DeadlineKnown

LEMMA VerifiedUsableDeadline ==
  ASSUME KubeteeInv, NEW r \in Tasks, VerifiedUsable(r)
  PROVE  DeadlineKnown'
<1> DEFINE c == task[r].conn
           n == link[c].requests + 1
<1>1. PoolInv /\ task[r].pc = "verify" /\ link[c].expiresAt # None
  BY DEF KubeteeInv, VerifiedUsable, DeadlineKnown
<1>2. c \in Conns /\ link \in [Conns -> Link] /\ task \in [Tasks -> Task] /\ task[r] \in Task
  BY <1>1, HeldConn DEF Holding, PoolInv, TypeOK
<1>3. PICK v : link' = [link EXCEPT ![c].guarded = TRUE, ![c].verified = v,
                                    ![c].requests = @ + 1, ![c].exchange = "queued"]
  BY DEF VerifiedUsable
<1>4. /\ link'[c].expiresAt = link[c].expiresAt
      /\ \A d \in Conns : d # c => link'[d] = link[d]
  BY <1>2, <1>3 DEF Link
<1>5. task'[r].pc = "awaiting" /\ \A q \in Tasks : q # r => task'[q] = task[q]
  BY <1>2 DEF VerifiedUsable, SetTask, Task
<1> QED BY <1>1, <1>2, <1>4, <1>5, VerifyingAlone DEF KubeteeInv, DeadlineKnown

(* Every step keeps the deadlines.                                         *)
LEMMA KubeteeNextDeadline == KubeteeInv /\ [KubeteeNext]_poolVars => DeadlineKnown'
<1> SUFFICES ASSUME KubeteeInv, [KubeteeNext]_poolVars PROVE DeadlineKnown'
  OBVIOUS
<1>1. PoolInv /\ DeadlineKnown /\ task \in [Tasks -> Task]
  BY DEF KubeteeInv, PoolInv, TypeOK
<1>2. CASE \E r \in Tasks : KeysetFetched(r) \/ VerifiedUsable(r)
  BY <1>2, FetchedDeadline, VerifiedUsableDeadline
<1>3. ASSUME NEW r \in Tasks,
             StartChat(r) \/ StartModels(r) \/ BodyRead(r) \/ BodyRefused(r)
      PROVE  KeepsDeadlines
  <2>1. task'[r].pc # "verify" /\ \A q \in Tasks : q # r => task'[q] = task[q]
    <3>1. CASE StartChat(r)
      BY <1>1, <3>1 DEF StartChat, Task
    <3>2. CASE StartModels(r)
      BY <1>1, <3>2 DEF StartModels, Task
    <3>3. CASE BodyRead(r)
      BY <1>1, <3>3 DEF BodyRead, SetTask, Task
    <3>4. CASE BodyRefused(r)
      BY <1>1, <3>4 DEF BodyRefused, EndTask, Fresh
    <3> QED BY <1>3, <3>1, <3>2, <3>3, <3>4
  <2>2. link' = link
    BY <1>3 DEF StartChat, StartModels, BodyRead, BodyRefused
  <2> QED BY <2>1, <2>2 DEF KeepsDeadlines
<1>4. ASSUME NEW r \in Tasks, KubeteeNotReady(r) PROVE KeepsDeadlines
  <2>1. task'[r].pc # "verify" /\ \A q \in Tasks : q # r => task'[q] = task[q]
    BY <1>1, <1>4 DEF KubeteeNotReady, SetTask, Task
  <2> QED BY <1>1, <1>4, <2>1, DropKeeps DEF KubeteeNotReady
<1>5. ASSUME NEW r \in Tasks, AttemptFailed(r) PROVE KeepsDeadlines
  <2>1. task'[r].pc # "verify" /\ \A q \in Tasks : q # r => task'[q] = task[q]
    BY <1>1, <1>5 DEF AttemptFailed, EndTask, Fresh, Task
  <2> QED BY <1>1, <1>5, <2>1, DropKeeps DEF AttemptFailed
<1>6. ASSUME NEW c \in Conns, PeerClose(c) PROVE KeepsDeadlines
  BY <1>1, <1>6 DEF PeerClose, KeepsDeadlines, PoolInv, TypeOK, Link
<1>7. ASSUME Tick \/ UNCHANGED poolVars PROVE KeepsDeadlines
  <2>1. link' = link /\ task' = task
    BY <1>7 DEF Tick, poolVars
  <2> QED BY <2>1 DEF KeepsDeadlines
<1>8. ASSUME NEW r \in Tasks, KubeteeCheckout(r), ~KeysetFetched(r), ~VerifiedUsable(r)
      PROVE  KeepsDeadlines
  BY <1>1, <1>3, <1>4, <1>5, <1>8, TakeKeeps, SendKeeps, ConnectedKeeps, RetireKeeps
  DEF KubeteeCheckout, ConnectFailed, FetchFailed, QuoteRejected, VerifiedUnusable
<1>9. ASSUME NEW r \in Tasks, KubeteeInference(r) \/ KubeteeLeased(r) \/ Cancel(r)
      PROVE  KeepsDeadlines
  BY <1>1, <1>9, SendKeeps, GiveBackKeeps, AbandonKeeps, RetireKeeps
  DEF KubeteeInference, EmptyResponse, ModelsRead, SendFailed, KubeteeLeased, BodyEnd,
      BodyError, Cancel
<1> QED BY <1>1, <1>2, <1>3, <1>6, <1>7, <1>8, <1>9, KeepsDeadlinesInv DEF KubeteeNext

-----------------------------------------------------------------------------
(* The invariant holds of every reachable state.                           *)
THEOREM KubeteeInvariance == KubeteeSpec => []KubeteeInv
<1>1. PoolInit => KubeteeInv
  BY PoolInitInv DEF PoolInit, KubeteeInv, DeadlineKnown, Closed, Fresh
<1>2. KubeteeInv /\ [KubeteeNext]_poolVars => KubeteeInv'
  BY KubeteeNextInv, KubeteeNextDeadline DEF KubeteeInv
<1> QED BY <1>1, <1>2, PTL DEF KubeteeSpec

(* Every variable keeps its type.                                          *)
THEOREM KubeteeTypeCorrect == KubeteeSpec => []TypeOK
BY KubeteeInvariance, PoolInvImplies, PTL DEF KubeteeInv

(***************************************************************************)
(* A connection is in the pool, or with one request, never both.           *)
(***************************************************************************)
THEOREM KubeteeSingleOwner == KubeteeSpec => []SingleOwner
BY KubeteeInvariance, PoolInvImplies, PTL DEF KubeteeInv

(***************************************************************************)
(* A pooled connection was attested, and nothing of an earlier exchange is *)
(* left on it.                                                             *)
(***************************************************************************)
THEOREM KubeteePooledClean == KubeteeSpec => []PooledClean
BY KubeteeInvariance, PoolInvImplies, PTL DEF KubeteeInv

(***************************************************************************)
(* The only transports that outlive their owner are those whose caller     *)
(* left while attest was awaited: never attested, never given a request.   *)
(***************************************************************************)
THEOREM KubeteeNoOrphans == KubeteeSpec => []NoOrphans
BY KubeteeInvariance, PoolInvImplies, PTL DEF KubeteeInv

(* The pool never exceeds its bound.                                       *)
THEOREM KubeteeIdleBounded == KubeteeSpec => []IdleBounded
BY KubeteeInvariance, PoolInvImplies, PTL DEF KubeteeInv

(***************************************************************************)
(* The pool is sound: one owner per connection, clean and attested pooled  *)
(* connections, no pool above its bound, and no transport on its own but   *)
(* one that a caller left before its attestation ended.                    *)
(***************************************************************************)
THEOREM KubeteePoolSound == KubeteeSpec => []PoolSound
BY KubeteeSingleOwner, KubeteePooledClean, KubeteeNoOrphans, KubeteeIdleBounded, PTL DEF PoolSound

(* No request is serialized onto two upstream connections.                 *)
THEOREM KubeteeDeliveredOnce == KubeteeSpec => []DeliveredOnce
BY KubeteeInvariance, PoolInvImplies, PTL DEF KubeteeInv

-----------------------------------------------------------------------------
(* What holds of the connection when a request is handed to it.            *)
SentWell(r) ==
    Handed(r) =>
      LET l == HandedLink(r) IN
      /\ l.verified /\ l.target = task[r].target
      /\ link[task'[r].conn].exchange = "none"
      /\ l.expiresAt # None /\ now < l.expiresAt
      /\ now < l.attestedAt + MaxAge
      /\ l.requests < MaxRequests

(***************************************************************************)
(* What both paths of checkout hand over: a connection with a deadline,    *)
(* usable, clean, and rewritten only in guarded, verified, requests and    *)
(* exchange.                                                               *)
(***************************************************************************)
LEMMA HandsOver ==
  ASSUME KubeteeInv, NEW r \in Tasks, task[r].pc \in {"ready", "verify"},
         Usable(task[r].conn), task'[r].conn = task[r].conn,
         link[task[r].conn].expiresAt # None,
         link'[task[r].conn] =
           [link[task[r].conn] EXCEPT !.guarded = TRUE, !.verified = TRUE,
                                      !.requests = @ + 1, !.exchange = "queued"]
  PROVE  SentWell(r)
<1> DEFINE c == task[r].conn
           l == link[c]
           n == l.requests + 1
           k == [l EXCEPT !.guarded = TRUE, !.verified = TRUE, !.requests = n,
                          !.exchange = "queued"]
           h == HandedLink(r)
<1>1. PoolInv
  BY DEF KubeteeInv
<1>2. c \in Conns /\ l \in Link /\ l.target = task[r].target
  BY <1>1, HeldConn DEF Holding
<1>3. l.exchange = "none"
  BY <1>1 DEF PoolInv, TaskOK
<1>4. /\ now \in Nat /\ l.attestedAt \in Nat /\ MaxAge \in Nat
      /\ l.requests \in Nat /\ l.expiresAt \in Nat
  BY <1>1, <1>2, ConstantsAssumption DEF PoolInv, TypeOK, Link, Time
<1>5. /\ now < l.expiresAt /\ now < l.attestedAt + MaxAge /\ l.requests < MaxRequests
  BY <1>4 DEF Usable, UsableLink
<1>6. /\ k.verified /\ k.target = l.target /\ k.expiresAt = l.expiresAt
      /\ k.attestedAt = l.attestedAt /\ k.requests = n
  BY <1>2 DEF Link
<1>7. h = [k EXCEPT !.requests = @ - 1]
  BY DEF HandedLink
<1>8. /\ h.verified = k.verified /\ h.target = k.target /\ h.expiresAt = k.expiresAt
      /\ h.attestedAt = k.attestedAt /\ h.requests = n - 1
  BY <1>2, <1>6, <1>7 DEF Link
<1> HIDE DEF k, h
<1>9. h.requests = l.requests
  BY <1>4, <1>8
<1> QED BY <1>2, <1>3, <1>5, <1>6, <1>8, <1>9 DEF SentWell, h

(* No other step hands a request over.                                     *)
LEMMA SentStep == KubeteeInv /\ [KubeteeNext]_poolVars => \A r \in Tasks : SentWell(r)
<1> SUFFICES ASSUME KubeteeInv, [KubeteeNext]_poolVars, NEW r \in Tasks, Handed(r)
             PROVE  SentWell(r)
  BY DEF SentWell
<1>1. PoolInv /\ task \in [Tasks -> Task] /\ link \in [Conns -> Link]
  BY DEF KubeteeInv, PoolInv, TypeOK
<1>2. task[r].pc # "awaiting" /\ task'[r].pc = "awaiting"
  BY DEF Handed
<1>3. PICK q \in Tasks : \/ StartChat(q) \/ StartModels(q) \/ KubeteeCheckout(q)
                         \/ KubeteeInference(q) \/ KubeteeLeased(q) \/ Cancel(q)
  BY <1>2 DEF KubeteeNext, PeerClose, Tick, poolVars
<1> DEFINE c == task[r].conn
<1>4. CASE KubeteeReady(q)
  <2>1. q = r
    BY <1>1, <1>2, <1>4 DEF KubeteeReady, BeginSend, SetTask
  <2>2. /\ c \in Conns /\ link[c] \in Link
        /\ link[c].verified = TRUE /\ link[c].guarded = TRUE
    BY <1>1, <1>4, <2>1, HeldConn
    DEF KubeteeReady, Holding, PoolInv, TaskOK, Link, AllWrappedFirst, WrappedFirst
  <2>3. link[c].expiresAt # None
    BY <2>2 DEF KubeteeInv, DeadlineKnown
  <2>4. link'[c] = [link[c] EXCEPT !.requests = @ + 1, !.exchange = "queued"]
    BY <1>1, <1>4, <2>1, <2>2 DEF KubeteeReady, BeginSend
  <2>5. link'[c] = [link[c] EXCEPT !.guarded = TRUE, !.verified = TRUE,
                                   !.requests = @ + 1, !.exchange = "queued"]
    BY <2>2, <2>4 DEF Link
  <2>6. task'[r].conn = c
    BY <1>1, <1>4, <2>1 DEF KubeteeReady, BeginSend, SetTask, Task
  <2> QED BY <1>4, <2>1, <2>3, <2>5, <2>6, HandsOver DEF KubeteeReady
<1>5. CASE VerifiedUsable(q)
  <2>1. q = r
    BY <1>1, <1>2, <1>5 DEF VerifiedUsable, SetTask
  <2>2. c \in Conns /\ link[c].expiresAt # None
    BY <1>1, <1>5, <2>1, HeldConn DEF VerifiedUsable, Holding, KubeteeInv, DeadlineKnown
  <2>3. PICK fault \in QuoteFault :
           /\ VerifyAttestation(fault)
           /\ link' = [link EXCEPT ![c].guarded = TRUE, ![c].verified = (fault = "none"),
                                   ![c].requests = @ + 1, ![c].exchange = "queued"]
    BY <1>5, <2>1 DEF VerifiedUsable
  <2>4. (fault = "none") = TRUE
    BY <2>3 DEF VerifyAttestation
  <2>5. link'[c] = [link[c] EXCEPT !.guarded = TRUE, !.verified = TRUE,
                                   !.requests = @ + 1, !.exchange = "queued"]
    BY <1>1, <2>2, <2>3, <2>4 DEF Link
  <2>6. task'[r].conn = c
    BY <1>1, <1>5, <2>1 DEF VerifiedUsable, SetTask, Task
  <2> QED BY <1>5, <2>1, <2>2, <2>5, <2>6, HandsOver DEF VerifiedUsable
<1>6. CASE ~KubeteeReady(q) /\ ~VerifiedUsable(q)
  <2>1. task'[r].pc # "awaiting" \/ task[r].pc = "awaiting"
    <3> USE <1>1 DEF SetTask, EndTask, RetireAndEnd, Fresh, Task
    <3>1. CASE StartChat(q) \/ StartModels(q)
      BY <3>1 DEF StartChat, StartModels
    <3>2. CASE KubeteeCheckout(q)
      BY <1>6, <3>2 DEF KubeteeCheckout, BodyRead, BodyRefused, TakePooled, KubeteeNotReady,
         Connected, ConnectFailed, KeysetFetched, FetchFailed, VerifiedUnusable, QuoteRejected,
         AttemptFailed
    <3>3. CASE KubeteeInference(q)
      BY <3>3 DEF KubeteeInference, Dispatch, ResponseHead, EmptyResponse, GiveBack, ModelsRead,
         SendFailed
    <3>4. CASE KubeteeLeased(q) \/ Cancel(q)
      BY <3>4 DEF KubeteeLeased, BodyEnd, BodyError, GiveBack, Cancel, Abandon
    <3> QED BY <1>3, <3>1, <3>2, <3>3, <3>4
  <2> QED BY <1>2, <2>1
<1> QED BY <1>4, <1>5, <1>6

(***************************************************************************)
(* A request is only ever handed to a connection whose attestation         *)
(* verified, that carries nothing else, and that is at that moment within  *)
(* its age, its keyset's deadline and its request budget.                  *)
(***************************************************************************)
THEOREM KubeteeSentOnlyAttested == KubeteeSpec => SentOnlyAttested
<1>1. KubeteeInv /\ [KubeteeNext]_poolVars => [\A r \in Tasks : SentWell(r)]_poolVars
  BY SentStep
<1> QED BY <1>1, KubeteeInvariance, PTL
        DEF KubeteeSpec, SentOnlyAttested, HandsOnlyAttested, SentWell
==============================================================================
