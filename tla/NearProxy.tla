------------------------------ MODULE NearProxy ------------------------------
(***************************************************************************)
(* Forwarding to NEAR (attestd/src/near_verify.rs): checkout of a pooled   *)
(* or a freshly attested connection, the inference, the one retry of a     *)
(* request that hyper hands back unserialized, and the leased body.  An    *)
(* action is what runs between two awaits of forward.                      *)
(***************************************************************************)
EXTENDS AttestedPool

(***************************************************************************)
(* An attestation report: the model it names and the first thing wrong     *)
(* with it, if anything is.                                                *)
(***************************************************************************)
Fault == {"none", "algorithm", "nonce", "tls_key", "report_data", "compose",
          "quote", "gpu_nonce", "gpu_verdict"}

Evidence == [model : Targets, fault : Fault]

(* What a report must be for a connection to count as attested for t.      *)
Genuine(e, t) == e.model = t /\ e.fault = "none"

(* verify_identity and verify_compose_binding, on a quote Intel vouches for. *)
VerifyIdentity(e, t) ==
    /\ e.model = t
    /\ e.fault \notin {"algorithm", "nonce", "tls_key", "report_data", "compose"}

(* verify_gpu: the GPU evidence has the same nonce and NRAS accepts it.    *)
VerifyGpu(e) == e.fault \notin {"gpu_nonce", "gpu_verdict"}

-----------------------------------------------------------------------------
(***************************************************************************)
(* forward is called for a request whose selector names a target and whose *)
(* method and path fit it.  Any other request fails here with no effect on *)
(* this state.                                                             *)
(***************************************************************************)
Start(r) ==
    /\ task[r].pc = "new"
    /\ \E t \in Targets :
          task' = [task EXCEPT ![r].pc = "take", ![r].target = t]
    /\ UNCHANGED <<now, link, idle>>

(* Mutant: usable() is not asked again after the wait for readiness.       *)
PooledTrusted(r) ==
    /\ task[r].pc = "ready"
    /\ BeginSend(r, task[r].conn)

(***************************************************************************)
(* wait_for_readiness of a pooled connection: it is ready in time and      *)
(* still usable, so it carries the request.                                *)
(***************************************************************************)
PooledReady(r) ==
    /\ task[r].pc = "ready"
    /\ Usable(task[r].conn)
    /\ BeginSend(r, task[r].conn)

(* It is closed, or not ready within READY_TIMEOUT, or no longer usable.   *)
PooledNotReady(r) ==
    /\ task[r].pc = "ready"
    /\ link' = Dropped({task[r].conn})
    /\ SetTask(r, "take", None)
    /\ UNCHANGED <<now, idle>>

(* fetch_attestation returned the complete report.                         *)
Fetched(r) ==
    /\ task[r].pc = "fetch"
    /\ link[task[r].conn].open
    /\ link' = [link EXCEPT ![task[r].conn].exchange = "none"]
    /\ SetTask(r, "verify", task[r].conn)
    /\ UNCHANGED <<now, idle>>

(* The rest of attest, with the collateral and NRAS round trips.           *)
Verified(r) ==
    LET c == task[r].conn
        t == task[r].target
    IN  /\ task[r].pc = "verify"
        /\ \E e \in Evidence :
              /\ e.fault # "quote"
              /\ VerifyIdentity(e, t) /\ VerifyGpu(e)
              /\ link' = [link EXCEPT ![c].verified = Genuine(e, t)]
        /\ SetTask(r, "fresh", c)
        /\ UNCHANGED <<now, idle>>

Rejected(r) ==
    /\ task[r].pc = "verify"
    /\ AttemptFailed(r)

(* A fresh connection is ready and usable: it carries the request.         *)
FreshReady(r) ==
    /\ task[r].pc = "fresh"
    /\ Usable(task[r].conn)
    /\ BeginSend(r, task[r].conn)

(* It is not ready in time, or expired or closed meanwhile: forward fails. *)
FreshNotReady(r) ==
    /\ task[r].pc = "fresh"
    /\ RetireAndEnd(r)

(* Mutant: any failure on a closed connection counts as not sent.          *)
UnsentWhenClosed(r) ==
    LET c == task[r].conn IN
    /\ task[r].pc = "awaiting"
    /\ ~link[c].open
    /\ link' = Dropped({c})
    /\ \/ /\ ~task[r].retried
          /\ task' = [task EXCEPT ![r].pc = "connect", ![r].conn = None,
                                  ![r].attempt = 0, ![r].retried = TRUE]
       \/ /\ task[r].retried
          /\ EndTask(r)
    /\ UNCHANGED <<now, idle>>

(***************************************************************************)
(* try_send_request hands the request back: its connection closed before   *)
(* the request was serialized.  The first time, forward attests a fresh    *)
(* connection for it; the second time it fails.                            *)
(***************************************************************************)
Unsent(r) ==
    LET c == task[r].conn IN
    /\ task[r].pc = "awaiting"
    /\ ~link[c].open /\ link[c].exchange = "queued"
    /\ link' = Dropped({c})
    /\ \/ /\ ~task[r].retried
          /\ task' = [task EXCEPT ![r].pc = "connect", ![r].conn = None,
                                  ![r].attempt = 0, ![r].retried = TRUE]
       \/ /\ task[r].retried
          /\ EndTask(r)
    /\ UNCHANGED <<now, idle>>

-----------------------------------------------------------------------------
Checkout(r) ==
    \/ TakePooled(r) \/ PooledReady(r) \/ PooledNotReady(r)
    \/ Connected(r, TRUE) \/ ConnectFailed(r) \/ Fetched(r) \/ FetchFailed(r)
    \/ Verified(r) \/ Rejected(r) \/ FreshReady(r) \/ FreshNotReady(r)

Inference(r) ==
    \/ Dispatch(r) \/ ResponseHead(r) \/ EmptyResponse(r)
    \/ Unsent(r) \/ SendFailed(r)

Leased(r) == BodyEnd(r) \/ BodyError(r)

Next ==
    \/ \E r \in Tasks : \/ Start(r) \/ Checkout(r) \/ Inference(r)
                        \/ Leased(r) \/ Cancel(r)
    \/ \E c \in Conns : PeerClose(c)
    \/ Tick

Spec == PoolInit /\ [][Next]_poolVars

(***************************************************************************)
(* Every await of forward is under a timeout (connect, attestation, NRAS,  *)
(* readiness, inference), so each of its phases ends: weak fairness of the *)
(* task's own steps.  The loop that takes pooled connections has no bound  *)
(* of its own: other requests may give back a connection each time this    *)
(* one retires another.  It ends because ready() of an open connection     *)
(* with nothing outstanding resolves at once, so readiness is not lost to  *)
(* the peer's close every time: strong fairness of PooledReady.  Nothing   *)
(* makes the client read the leased body.                                  *)
(***************************************************************************)
FairSpec ==
    /\ Spec
    /\ \A r \in Tasks : /\ WF_poolVars(Checkout(r))
                         /\ SF_poolVars(PooledReady(r))
                         /\ WF_poolVars(SendFailed(r))
==============================================================================
