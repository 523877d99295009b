---------------------------- MODULE KubeteeProxy ----------------------------
(***************************************************************************)
(* Forwarding to KubeTEE (attestd/src/kubetee_verify): one upstream host   *)
(* and one pool, connections that also expire with the attested keyset,    *)
(* no retry of an inference, and the model list read on the same pool.  An *)
(* action is what runs between two awaits.                                 *)
(***************************************************************************)
EXTENDS AttestedPool

(* The first thing wrong with an attestation response, if anything is.     *)
KeysetFault == {"none", "version", "keyset_digest", "serving_key", "statement"}
QuoteFault == {"none", "quote", "nonce", "appraisal", "report_data",
               "event_log", "tls_possession"}

(* BindingGuard::run: a keyset for the live key, not yet expired.          *)
BindingGuard(fault, notAfter) == fault = "none" /\ now < notAfter

(* quote_chain.verify and verify_attestation.                              *)
VerifyAttestation(fault) == fault = "none"

(* Binding::ensure_current, after the collateral round trips.              *)
EnsureCurrent(c) == now < link[c].expiresAt

-----------------------------------------------------------------------------
(***************************************************************************)
(* forward is called with a chat request for a target model; models is     *)
(* called.  A request for anything else fails here with no effect on this  *)
(* state.                                                                  *)
(***************************************************************************)
StartChat(r) ==
    /\ task[r].pc = "new"
    /\ \E t \in Targets :
          task' = [task EXCEPT ![r].pc = "read", ![r].target = t]
    /\ UNCHANGED <<now, link, idle>>

StartModels(r) ==
    /\ task[r].pc = "new"
    /\ \E t \in Targets :
          task' = [task EXCEPT ![r].pc = "take", ![r].target = t, ![r].kind = "models"]
    /\ UNCHANGED <<now, link, idle>>

(* require_body_model: the body was read in time and names the selector.   *)
BodyRead(r) ==
    /\ task[r].pc = "read"
    /\ SetTask(r, "take", None)
    /\ UNCHANGED <<now, link, idle>>

(* It was not, or it names another model.                                  *)
BodyRefused(r) ==
    /\ task[r].pc = "read"
    /\ EndTask(r)
    /\ UNCHANGED <<now, link, idle>>

(* Mutant: usable() is not asked again after the wait for readiness.       *)
KubeteeTrusted(r) ==
    /\ task[r].pc = "ready"
    /\ BeginSend(r, task[r].conn)

(* It is ready in time and still usable: it carries the request.           *)
KubeteeReady(r) ==
    /\ task[r].pc = "ready"
    /\ Usable(task[r].conn)
    /\ BeginSend(r, task[r].conn)

(* It is closed, or not ready in time, or no longer usable.                *)
KubeteeNotReady(r) ==
    /\ task[r].pc = "ready"
    /\ link' = Dropped({task[r].conn})
    /\ SetTask(r, "take", None)
    /\ UNCHANGED <<now, idle>>

(* The attestation response is read and its binding holds at this instant. *)
KeysetFetched(r) ==
    LET c == task[r].conn IN
    /\ task[r].pc = "fetch"
    /\ link[c].open
    /\ \E fault \in KeysetFault, notAfter \in Deadlines :
          /\ BindingGuard(fault, notAfter)
          /\ link' = [link EXCEPT ![c].exchange = "none", ![c].expiresAt = notAfter]
    /\ SetTask(r, "verify", c)
    /\ UNCHANGED <<now, idle>>

(***************************************************************************)
(* The quote verifies and the keyset is still current; checkout wraps the  *)
(* connection in an Attested, and its final check finds it usable: it      *)
(* carries the request.                                                    *)
(***************************************************************************)
VerifiedUsable(r) ==
    LET c == task[r].conn IN
    /\ task[r].pc = "verify"
    /\ EnsureCurrent(c)
    /\ Usable(c)
    /\ \E fault \in QuoteFault :
          /\ VerifyAttestation(fault)
          /\ link' = [link EXCEPT ![c].guarded = TRUE,
                                  ![c].verified = (fault = "none"),
                                  ![c].requests = @ + 1,
                                  ![c].exchange = "queued"]
    /\ SetTask(r, "awaiting", c)
    /\ UNCHANGED <<now, idle>>

(* The quote verifies, but the connection expired or closed meanwhile.     *)
VerifiedUnusable(r) ==
    LET c == task[r].conn IN
    /\ task[r].pc = "verify"
    /\ EnsureCurrent(c)
    /\ ~Usable(c)
    /\ RetireAndEnd(r)

(* The quote does not verify, or the keyset expired while it did.          *)
QuoteRejected(r) ==
    /\ task[r].pc = "verify"
    /\ AttemptFailed(r)

(* read_models has the whole list: the connection goes back to the pool.   *)
ModelsRead(r) ==
    LET c == task[r].conn IN
    /\ task[r].pc = "awaiting"
    /\ task[r].kind = "models"
    /\ link[c].open /\ link[c].exchange = "sent"
    /\ GiveBack(r)

-----------------------------------------------------------------------------
KubeteeCheckout(r) ==
    \/ BodyRead(r) \/ BodyRefused(r)
    \/ TakePooled(r) \/ KubeteeReady(r) \/ KubeteeNotReady(r)
    \/ Connected(r, FALSE) \/ ConnectFailed(r) \/ KeysetFetched(r) \/ FetchFailed(r)
    \/ VerifiedUsable(r) \/ VerifiedUnusable(r) \/ QuoteRejected(r)

KubeteeInference(r) ==
    \/ Dispatch(r) \/ ResponseHead(r) \/ EmptyResponse(r)
    \/ ModelsRead(r) \/ SendFailed(r)

KubeteeLeased(r) == BodyEnd(r) \/ BodyError(r)

KubeteeNext ==
    \/ \E r \in Tasks : \/ StartChat(r) \/ StartModels(r) \/ KubeteeCheckout(r)
                        \/ KubeteeInference(r) \/ KubeteeLeased(r) \/ Cancel(r)
    \/ \E c \in Conns : PeerClose(c)
    \/ Tick

KubeteeSpec == PoolInit /\ [][KubeteeNext]_poolVars

(***************************************************************************)
(* VerifiedUsable hands the request over in the step that verifies, so the *)
(* connection's state to judge it by is the one after the step.            *)
(***************************************************************************)
HandedLink(r) == [link'[task'[r].conn] EXCEPT !.requests = @ - 1]

(***************************************************************************)
(* When a request is handed to a connection, the connection's attestation  *)
(* verified for this host, nothing else was outstanding on it, and at that *)
(* very moment it is within its age, its keyset's deadline and its request *)
(* budget, on the pooled as on the fresh path of checkout.                 *)
(***************************************************************************)
HandsOnlyAttested ==
    \A r \in Tasks : Handed(r) =>
        LET l == HandedLink(r) IN
        /\ l.verified /\ l.target = task[r].target
        /\ link[task'[r].conn].exchange = "none"
        /\ l.expiresAt # None /\ now < l.expiresAt
        /\ now < l.attestedAt + MaxAge
        /\ l.requests < MaxRequests

SentOnlyAttested == [][HandsOnlyAttested]_poolVars
=============================================================================
