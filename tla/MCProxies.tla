------------------------------ MODULE MCProxies ------------------------------
(***************************************************************************)
(* The two verifying proxies on one small instance.  They are separate     *)
(* processes with a pool each, so a behaviour is one proxy's: `proxy` says *)
(* whose.  KubeTEE has a single host, no bound on the idle age, and an age *)
(* beyond the clock, so that the keysets' deadlines are what expires.      *)
(***************************************************************************)
EXTENDS NearProxy

CONSTANTS Host,         \* the target that stands for the KubeTEE host
          KubeteeAge    \* its PoolLimits::age

VARIABLE proxy

K == INSTANCE KubeteeProxy WITH MaxIdleAge <- None, MaxAge <- KubeteeAge

vars == <<now, link, idle, task, proxy>>

MCInit == PoolInit /\ proxy \in {"near", "kubetee"}

OneHost == \A r \in Tasks : task'[r].target \in {Host, None}

Near(A) == proxy = "near" /\ A /\ UNCHANGED proxy

Kubetee(A) == proxy = "kubetee" /\ A /\ OneHost /\ UNCHANGED proxy

MCNext == Near(Next) \/ Kubetee(K!KubeteeNext)

(***************************************************************************)
(* The fairness of NearProxy, for whichever proxy runs: in both, every     *)
(* await of forward has a timeout and an idle connection is ready at once. *)
(***************************************************************************)
Forwarding(r) == \/ Near(Checkout(r) \/ SendFailed(r))
                 \/ Kubetee(K!KubeteeCheckout(r) \/ K!SendFailed(r))

PooledIsReady(r) == Near(PooledReady(r)) \/ Kubetee(K!KubeteeReady(r))

MCFairness ==
    \A r \in Tasks : WF_vars(Forwarding(r)) /\ SF_vars(PooledIsReady(r))

MCSpec == MCInit /\ [][MCNext]_vars /\ MCFairness

\* A request is handed only to a connection that is attested for its target
\* and usable at that moment: for NEAR within the limits of its pool, for
\* KubeTEE with a verified keyset that has not expired, also on the fresh
\* path, where the check and the send are one step.
SentOnlyAttested ==
  [][/\ proxy = "near" => HandsOnlyToUsable
     /\ proxy = "kubetee" => K!HandsOnlyAttested]_vars
==============================================================================
