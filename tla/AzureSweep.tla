----------------------------- MODULE AzureSweep -----------------------------
(***************************************************************************)
(* The owner-capture audit of one Azure account (azure-verify): the ARM    *)
(* reads of AzureVerifier::sweep in the order the code makes them, what    *)
(* each read may observe before it fails, and the verdict that the gate    *)
(* and the periodic loops act on.                                          *)
(*                                                                         *)
(* A sweep is a record advanced by one read at a time.  The account itself *)
(* is a set of places: a place is a [stage, page] at which an item that    *)
(* the checks reject sits.  A paged collection has Pages pages, a single   *)
(* document one; a read that fails after n pages has still observed the    *)
(* places on pages 1..n (PagedRead).                                       *)
(***************************************************************************)
EXTENDS Naturals, Sequences

CONSTANT Pages        \* pages of a paged ARM collection

ASSUME PagesAssumption == Pages \in Nat \ {0}

(***************************************************************************)
(* What can stop an ARM read, and how the verifier rates it: the transport *)
(* and the 408, 429 and 5xx statuses are transient; another status, and a  *)
(* page list that cannot be followed (an empty nextLink, or more pages     *)
(* than MAX_ARM_PAGES), are definitive.                                    *)
(***************************************************************************)
Failures == {"throttled", "dropped", "refused", "badLink"}

status_is_transient(f) == f = "throttled"

classify_verification_error(f) ==
  IF status_is_transient(f) \/ f = "dropped" THEN "transient" ELSE "definitive"

\* A failure is carried by its class, the only thing its callers ask of it.
Classes == {classify_verification_error(f) : f \in Failures}

(***************************************************************************)
(* The reads of a sweep.  Projects, connections and capability hosts exist *)
(* only on an AIServices account; the RAI policies are read only for Azure *)
(* OpenAI.  "p..." are the same collections of the account's project.      *)
(***************************************************************************)
Collections == {"connections", "hosts", "pconnections", "phosts"}

Paged(stage) == stage \in Collections \union {"projects", "deployments", "policies"}

PagesOf(stage) == IF Paged(stage) THEN Pages ELSE 1

\* The order of audit_capture_surfaces and audit_scope, for a scope that is
\* swept to its end; "deployments" follows the capture surfaces.
NextSurface(stage) ==
  CASE stage = "projects"     -> "diag"
    [] stage = "diag"         -> "connections"
    [] stage = "connections"  -> "hosts"
    [] stage = "hosts"        -> "pdiag"
    [] stage = "pdiag"        -> "pconnections"
    [] stage = "pconnections" -> "phosts"
    [] stage = "phosts"       -> "deployments"

\* An audit in progress: the next read, whether a finding is recorded, the
\* failure that a later stage has yet to release, the deployment pages read,
\* whether a project was listed, and whether the binding was complete.
NewAudit == [at |-> "account", found |-> FALSE, pend |-> "none", pages |-> 0,
             project |-> FALSE, bound |-> FALSE, seen |-> FALSE]

Idle == [NewAudit EXCEPT !.at = "idle"]

\* Items on the first n pages of a stage that its check rejects.
Rejected(places, stage, n) == \E v \in places : v.stage = stage /\ v.page <= n

(***************************************************************************)
(* The checks, on what was read.  An account must be of an allowed kind,   *)
(* be the one the endpoint names and store no content; a scope must have   *)
(* no diagnostic setting at all; a capture collection must be empty; and a *)
(* deployment named like a catalog model must serve that model.            *)
(***************************************************************************)
assert_account_binding(places) == ~Rejected(places, "account", 1)

assert_no_diagnostic_capture(places, scope) == ~Rejected(places, scope, 1)

assert_no_capture_children(places, collection, n) == ~Rejected(places, collection, n)

assert_deployment_bindings(places, n) == ~Rejected(places, "deployments", n)

(***************************************************************************)
(* The streaming check, over the deployments on the first n pages, whose   *)
(* policies are read one by one in the same order: a deployment without a  *)
(* policy is a violation on sight; one whose policy was not read is        *)
(* dropped, not judged; a synchronous policy is a violation.               *)
(***************************************************************************)
retain_observable_deployments(places, policies) ==
  {v \in places : v.stage = "nopolicy" \/ (v.stage = "mode" /\ v.page <= policies)}

assess_streaming_configuration(places, n, policies) ==
  \A v \in retain_observable_deployments(places, policies) : v.page > n

(***************************************************************************)
(* The verdict: a finding outranks the transport error that cut the sweep  *)
(* short; without one the error keeps its own class; a sweep without       *)
(* either passes.                                                          *)
(***************************************************************************)
findings_outrank(a, err) ==
  IF a.found THEN "definitive" ELSE err

into_result(a) == IF a.found THEN "definitive" ELSE "pass"

End(a, err) ==
  [a EXCEPT !.at = IF err = "none" THEN into_result(a) ELSE findings_outrank(a, err)]

Verdicts == {"pass", "transient", "definitive"}

(***************************************************************************)
(* The account read: the token and the account document, then its binding  *)
(* to the configured endpoint.  Nothing else is read of an unbound account.*)
(***************************************************************************)
fetch_account(a, places, kind, f) ==
  LET bad == ~assert_account_binding(places) IN
  IF f # "none" THEN End(a, f)
  ELSE IF bad THEN End([a EXCEPT !.found = TRUE, !.seen = TRUE], "none")
  ELSE [a EXCEPT !.at = IF kind = "AIServices" THEN "projects" ELSE "diag"]

(***************************************************************************)
(* The project list: a truncated list still names projects to sweep, so    *)
(* its failure is kept and released after the last surface.                *)
(***************************************************************************)
fetch_projects(a, hasProject, n, f) ==
  [a EXCEPT !.at = "diag", !.pend = f, !.project = hasProject /\ n >= 1]

\* Leaving the capture surfaces: the project list's failure is released now.
LeaveSurfaces(a) ==
  IF a.pend = "none" THEN [a EXCEPT !.at = "deployments"] ELSE End(a, a.pend)

\* Mutant of audit_scope: a truncated collection's failure is returned before
\* what was read of it is recorded.
AuditScopeFailsFirst(a, places, kind, n, f) ==
  LET stage == a.at
      shown == IF stage \in Collections
                 THEN ~assert_no_capture_children(places, stage, n)
                 ELSE f = "none" /\ ~assert_no_diagnostic_capture(places, stage)
      b == [a EXCEPT !.found = @ \/ (shown /\ f = "none"), !.seen = @ \/ shown]
      last == \/ stage = "diag" /\ kind # "AIServices"
              \/ stage = "hosts" /\ ~a.project
              \/ stage = "phosts" IN
  IF f # "none" THEN End(b, f)
  ELSE IF last THEN LeaveSurfaces(b)
  ELSE [b EXCEPT !.at = NextSurface(stage)]

(***************************************************************************)
(* One scope.  Its diagnostic settings are one document that must be       *)
(* empty; then each collection must hold no child.  What a truncated       *)
(* collection did show is recorded before its failure is returned.         *)
(***************************************************************************)
audit_scope(a, places, kind, n, f) ==
  LET stage == a.at
      shown == IF stage \in Collections
                 THEN ~assert_no_capture_children(places, stage, n)
                 ELSE f = "none" /\ ~assert_no_diagnostic_capture(places, stage)
      b == [a EXCEPT !.found = @ \/ shown, !.seen = @ \/ shown]
      last == \/ stage = "diag" /\ kind # "AIServices"
              \/ stage = "hosts" /\ ~a.project
              \/ stage = "phosts" IN
  IF f # "none" THEN End(b, f)
  ELSE IF last THEN LeaveSurfaces(b)
  ELSE [b EXCEPT !.at = NextSurface(stage)]

(***************************************************************************)
(* The deployments: every one that was read is checked against the model   *)
(* its catalog name promises; the binding counts as verified only when the *)
(* list was complete and no deployment on it is wrong.  Foundry returns    *)
(* the list's failure here, Azure OpenAI after its streaming check.        *)
(***************************************************************************)
fetch_deployments(a, places, provider, n, f) ==
  LET wrong == ~assert_deployment_bindings(places, n)
      b == [a EXCEPT !.found = @ \/ wrong, !.seen = @ \/ wrong, !.pages = n,
                     !.bound = f = "none" /\ ~wrong] IN
  IF provider = "openai" THEN [b EXCEPT !.at = "policies", !.pend = f]
  ELSE End(b, f)

(***************************************************************************)
(* The streaming check of what was listed, with the n policies that could  *)
(* be read.  The earlier failure, the list's, is the one returned.         *)
(***************************************************************************)
audit_async_filter_configuration(a, places, n, f) ==
  LET bad == ~assess_streaming_configuration(places, a.pages, n)
      b == [a EXCEPT !.found = @ \/ bad, !.seen = @ \/ bad] IN
  End(b, IF a.pend # "none" THEN a.pend ELSE f)

\* One read of the sweep: n pages arrive, and f stops it if it stops early.
sweep(a, acct, n, f) ==
  CASE a.at = "account"     -> fetch_account(a, acct.places, acct.kind, f)
    [] a.at = "projects"    -> fetch_projects(a, acct.project, n, f)
    [] a.at = "deployments" -> fetch_deployments(a, acct.places, acct.provider, n, f)
    [] a.at = "policies"    -> audit_async_filter_configuration(a, acct.places, n, f)
    [] OTHER                -> audit_scope(a, acct.places, acct.kind, n, f)

\* The reads of a stage that can happen: complete, or cut after n pages.
ReadOutcomes(stage) ==
  {<<PagesOf(stage), "none">>} \union (0 .. PagesOf(stage) - 1) \X Classes

(***************************************************************************)
(* The poll between sweeps (verify_deployment_bindings): the account's own *)
(* binding, then the deployment pages, each checked before the next is     *)
(* asked for.  Its errors reach record_result as they are.  A poll is      *)
(* answered up to stage o[1], where n = o[2] pages arrived and o[3]        *)
(* stopped it.                                                             *)
(***************************************************************************)
PollOutcomes ==
  {<<"account", 0, c>> : c \in Classes}
    \union {<<"deployments", o[1], o[2]>> : o \in ReadOutcomes("deployments")}

verify_deployment_bindings(acct, o) ==
  IF o[1] = "account" THEN o[3]
  ELSE IF \/ ~assert_account_binding(acct.places)
          \/ ~assert_deployment_bindings(acct.places, o[2]) THEN "definitive"
  ELSE IF o[3] # "none" THEN o[3]
  ELSE "pass"

(***************************************************************************)
(* The places a sweep of an account of this provider, kind and project     *)
(* reads, and so the sinks an operator can attach that it must notice.     *)
(***************************************************************************)
Places(provider, kind, hasProject) ==
  LET stages == {"account", "diag", "deployments"}
         \union (IF kind = "AIServices" THEN {"connections", "hosts"} ELSE {})
         \union (IF kind = "AIServices" /\ hasProject
                   THEN {"pdiag", "pconnections", "phosts"} ELSE {})
         \union (IF provider = "openai" THEN {"nopolicy", "mode"} ELSE {}) IN
  {v \in [stage : stages, page : 1 .. Pages] :
     v.page <= IF v.stage \in {"nopolicy", "mode"} THEN Pages ELSE PagesOf(v.stage)}
=============================================================================
