----------------------- MODULE ChutesAdmissionProofs -----------------------
(***************************************************************************)
(* Proofs about ChutesAdmission, for any number of credentials, instances, *)
(* nonces and requests and any lengths of time: a later rejection is never *)
(* undone, a nonce is issued once while it lives, and a ticket is sound    *)
(* when it is cut.                                                         *)
(***************************************************************************)
EXTENDS ChutesAdmission, WellFoundedInduction, TLAPS

(* The verdicts of a scope: state st, renewal r, what its evidence said j. *)
VerdictFit(st, r, j) ==
    /\ \A i \in Instances :
          /\ j[i].rejectedAt <= st.generation
          /\ st.admitted[i] # None => /\ j[i].rejectedAt <= j[i].began
                                      /\ st.admitted[i] <= j[i].expires
          /\ r.pc = "fetching" /\ j[i].rejectedAt > r.since =>
                st.decided[i] # None /\ st.decided[i] > r.since
    /\ r.pc = "fetching" => st.renewalSince = r.since /\ r.since <= st.generation

(* While a pool issues, its nonces live beyond the margin, and the ledger  *)
(* will remember them for as long as they live.                            *)
PoolFit(st, t, L) ==
    st.issueUntil # None /\ st.issueUntil > t =>
        \A i \in Instances : \A n \in st.pool[i] :
            /\ st.validUntil # None
            /\ st.issueUntil + NonceMargin <= L[n] /\ L[n] <= st.validUntil

(* A nonce that has been used is in the ledger for as long as it lives.    *)
LedgerFit(t, G, L, U) ==
    \A n \in Nonces : /\ U[n] <= 1
                      /\ U[n] > 0 /\ t < L[n] => G[n] # None /\ G[n] >= L[n]

(* Every scope has its types and fits.                                     *)
ScopesInv ==
    /\ state \in [Scopes -> ChuteState] /\ renewal \in [Scopes -> Renewal]
    /\ judged \in [Scopes -> [Instances -> Judged]]
    /\ \A s \in Scopes : VerdictFit(state[s], renewal[s], judged[s]) /\ PoolFit(state[s], now, life)

(* A request that has begun is under some credential, and one that has its *)
(* ticket is for some instance.                                            *)
RequestsInv ==
    /\ req \in [Requests -> Request]
    /\ \A q \in Requests : /\ req[q].pc # "idle" => req[q].scope \in Scopes
                           /\ req[q].pc = "invoke" => req[q].instance \in Instances

(* The ledger, the nonces' lives and their uses have their types and fit.  *)
NoncesInv ==
    /\ ledger \in [Nonces -> Maybe(Int)] /\ life \in [Nonces -> Int] /\ uses \in [Nonces -> Nat]
    /\ LedgerFit(now, ledger, life, uses)

(* The inductive invariant.                                                *)
AdmissionInv == now \in Nat /\ ScopesInv /\ RequestsInv /\ NoncesInv

-----------------------------------------------------------------------------
(* ChuteState                                                              *)

(* What the assumption says of the constants.                              *)
LEMMA Numbers ==
    /\ None \notin Int /\ None \notin Nat
    /\ AdmissionTTL \in Nat /\ RefreshAhead \in Nat /\ RenewJitter \in Nat
    /\ MinInterval \in Nat /\ RejectionTTL \in Nat /\ NonceMargin \in Nat
    /\ Lifetimes \subseteq Nat /\ EvidenceLives \subseteq Nat
    /\ MaxAdmissions \in Nat /\ MaxDiscoveries \in Nat
BY ConstantsAssumption

(* A state p that holds nothing st does not: the same pool or less of it,  *)
(* the same admissions or fewer, and every verdict that guards.            *)
Narrows(p, st) ==
    /\ p \in ChuteState
    /\ p.generation = st.generation /\ p.renewalSince = st.renewalSince
    /\ p.issueUntil = st.issueUntil /\ p.validUntil = st.validUntil
    /\ \A i \in Instances : /\ p.admitted[i] # None => p.admitted[i] = st.admitted[i]
                            /\ Guards(st, i) => p.decided[i] = st.decided[i]
                            /\ p.pool[i] \subseteq st.pool[i]

(* The types of a state's parts.                                           *)
LEMMA StateParts ==
    ASSUME NEW st \in ChuteState
    PROVE  /\ st.listed \subseteq Instances /\ st.pool \in [Instances -> SUBSET Nonces]
           /\ st.issueUntil \in Maybe(Int) /\ st.validUntil \in Maybe(Int)
           /\ st.admitted \in [Instances -> Maybe(Int)]
           /\ st.rejected \in [Instances -> Maybe(Int)]
           /\ st.lastServed \in Maybe(Int) /\ st.generation \in Nat
           /\ st.decided \in [Instances -> Maybe(Nat)] /\ st.renewalSince \in Maybe(Nat)
           /\ st.lastRecorded \in Maybe(Int)
BY DEF ChuteState

(* Nothing of a state is lost that the verdicts and the pool rest on.      *)
LEMMA NarrowFit ==
    ASSUME NEW st \in ChuteState, NEW p, Narrows(p, st), NEW r, NEW j, NEW t, NEW L,
           r.pc = "fetching" => r.since \in Nat,
           VerdictFit(st, r, j), PoolFit(st, t, L)
    PROVE  VerdictFit(p, r, j) /\ PoolFit(p, t, L)
<1>1. ASSUME NEW i \in Instances, r.pc = "fetching", j[i].rejectedAt > r.since
      PROVE  p.decided[i] # None /\ p.decided[i] > r.since
  <2>1. st.decided[i] # None /\ st.decided[i] > r.since /\ st.renewalSince = r.since
    BY <1>1 DEF VerdictFit
  <2>2. st.renewalSince # None
    BY <1>1, <2>1, Numbers
  <2>3. Guards(st, i)
    BY <2>1, <2>2 DEF Guards
  <2> QED BY <2>1, <2>3 DEF Narrows
<1>2. VerdictFit(p, r, j)
  BY <1>1 DEF VerdictFit, Narrows
<1>3. PoolFit(p, t, L)
  BY DEF PoolFit, Narrows
<1> QED BY <1>2, <1>3

(* Narrowing twice is narrowing.                                           *)
LEMMA NarrowsOn ==
    ASSUME NEW st \in ChuteState, NEW p \in ChuteState, NEW u, Narrows(p, st), Narrows(u, p)
    PROVE  Narrows(u, st)
<1>1. ASSUME NEW i \in Instances, Guards(st, i) PROVE u.decided[i] = st.decided[i]
  <2>1. p.decided[i] = st.decided[i] /\ p.renewalSince = st.renewalSince
    BY <1>1 DEF Narrows
  <2>2. Guards(p, i)
    BY <1>1, <2>1 DEF Guards
  <2> QED BY <2>1, <2>2 DEF Narrows
<1>2. ASSUME NEW i \in Instances
      PROVE  /\ u.admitted[i] # None => u.admitted[i] = st.admitted[i]
             /\ u.pool[i] \subseteq st.pool[i]
  BY DEF Narrows
<1> QED BY <1>1, <1>2 DEF Narrows

(* retain, entry by entry.                                                 *)
LEMMA LiveForm ==
    ASSUME NEW S, NEW f \in [S -> Maybe(Int)], now \in Nat
    PROVE  /\ Live(f) \in [S -> Maybe(Int)]
           /\ \A x \in S : Live(f)[x] = IF f[x] # None /\ f[x] > now THEN f[x] ELSE None
BY DEF Live, Maybe

(* prune keeps what is in force and what guards.                           *)
LEMMA PruneNarrows ==
    ASSUME NEW st \in ChuteState, now \in Nat
    PROVE  /\ Narrows(Prune(st), st)
           /\ \A i \in Instances : Prune(st).admitted[i] # None => Prune(st).admitted[i] > now
           /\ \A i \in Instances : Prune(st).pool[i] # {} =>
                 st.issueUntil # None /\ st.issueUntil > now
<1> DEFINE admitted == Live(st.admitted)
           rejected == Live(st.rejected)
           kept(i) == admitted[i] # None \/ rejected[i] # None \/ Guards(st, i)
           issuing == st.issueUntil # None /\ st.issueUntil > now
           decided == [i \in Instances |-> IF kept(i) THEN st.decided[i] ELSE None]
           listed == IF issuing THEN {i \in st.listed : st.pool[i] # {}} ELSE {}
           pool == IF issuing THEN st.pool ELSE [i \in Instances |-> {}]
           p == [st EXCEPT !.admitted = admitted, !.rejected = rejected, !.decided = decided,
                           !.listed = listed, !.pool = pool]
<1>1. Prune(st) = p
  BY Zenon DEF Prune
<1>2. /\ admitted \in [Instances -> Maybe(Int)] /\ rejected \in [Instances -> Maybe(Int)]
      /\ \A i \in Instances : admitted[i] = IF st.admitted[i] # None /\ st.admitted[i] > now
                                            THEN st.admitted[i] ELSE None
  BY StateParts, LiveForm
<1>3. /\ decided \in [Instances -> Maybe(Nat)]
      /\ \A i \in Instances : Guards(st, i) => decided[i] = st.decided[i]
  BY StateParts DEF Maybe
<1>4. /\ listed \subseteq Instances /\ pool \in [Instances -> SUBSET Nonces]
      /\ \A i \in Instances : pool[i] \subseteq st.pool[i] /\ (pool[i] # {} => issuing)
  BY StateParts
<1> HIDE DEF admitted, rejected, decided, listed, pool
<1>5. /\ p \in ChuteState /\ p.admitted = admitted /\ p.decided = decided /\ p.pool = pool
      /\ p.generation = st.generation /\ p.renewalSince = st.renewalSince
      /\ p.issueUntil = st.issueUntil /\ p.validUntil = st.validUntil
  BY <1>2, <1>3, <1>4 DEF ChuteState
<1> HIDE DEF p
<1> QED BY <1>1, <1>2, <1>3, <1>4, <1>5 DEF Narrows

(* Nonces taken out of a pool.                                             *)
LEMMA WithoutNarrows ==
    ASSUME NEW st \in ChuteState, NEW D, NEW E
    PROVE  /\ [st EXCEPT !.pool = Without(st.pool, D, E)] \in ChuteState
           /\ Narrows([st EXCEPT !.pool = Without(st.pool, D, E)], st)
<1> DEFINE pool == Without(st.pool, D, E)
           p == [st EXCEPT !.pool = pool]
<1>1. pool \in [Instances -> SUBSET Nonces] /\ \A i \in Instances : pool[i] \subseteq st.pool[i]
  BY StateParts DEF Without
<1> HIDE DEF pool
<1>2. /\ p \in ChuteState /\ p.admitted = st.admitted /\ p.decided = st.decided /\ p.pool = pool
      /\ p.generation = st.generation /\ p.renewalSince = st.renewalSince
      /\ p.issueUntil = st.issueUntil /\ p.validUntil = st.validUntil
  BY <1>1 DEF ChuteState
<1> HIDE DEF p
<1>3. Narrows(p, st)
  BY <1>1, <1>2 DEF Narrows
<1> QED BY <1>2, <1>3 DEF p, pool

(* The same, and the scope is served.                                      *)
LEMMA ServedNarrows ==
    ASSUME NEW st \in ChuteState, NEW D, NEW E, NEW t \in Maybe(Int)
    PROVE  LET p == [st EXCEPT !.pool = Without(st.pool, D, E), !.lastServed = t]
           IN  p \in ChuteState /\ Narrows(p, st)
<1> DEFINE pool == Without(st.pool, D, E)
           p == [st EXCEPT !.pool = pool, !.lastServed = t]
<1>1. pool \in [Instances -> SUBSET Nonces] /\ \A i \in Instances : pool[i] \subseteq st.pool[i]
  BY StateParts DEF Without
<1> HIDE DEF pool
<1>2. /\ p \in ChuteState /\ p.admitted = st.admitted /\ p.decided = st.decided /\ p.pool = pool
      /\ p.generation = st.generation /\ p.renewalSince = st.renewalSince
      /\ p.issueUntil = st.issueUntil /\ p.validUntil = st.validUntil
  BY <1>1 DEF ChuteState
<1> HIDE DEF p
<1>3. Narrows(p, st)
  BY <1>1, <1>2 DEF Narrows
<1> QED BY <1>2, <1>3 DEF p, pool

(* take_ticket that finds nothing has emptied what it searched.            *)
LEMMA DrainedNarrows ==
    ASSUME NEW st \in ChuteState, NEW avoid
    PROVE  Drained(st, avoid) \in ChuteState /\ Narrows(Drained(st, avoid), st)
<1>1. CASE st.validUntil = None
  BY <1>1 DEF Drained, Narrows
<1>2. CASE st.validUntil # None
  <2> DEFINE D == PooledOf(st, avoid)
             E == Eligible(st, avoid)
  <2>1. Drained(st, avoid) = [st EXCEPT !.pool = Without(st.pool, D, E)]
    BY <1>2, Zenon DEF Drained
  <2> HIDE DEF D, E
  <2> QED BY <2>1, WithoutNarrows
<1> QED BY <1>1, <1>2

(* deadline never outlasts the evidence.                                   *)
LEMMA DeadlineForm ==
    ASSUME NEW anchor \in Int, NEW expires \in Int
    PROVE  Deadline(anchor, expires) \in Int /\ Deadline(anchor, expires) <= expires
BY Numbers DEF Deadline

(* Answers of a batch, fetched from anchor on.                             *)
Answers(batch, anchor) == [batch -> Outcomes(anchor)]

(* What an answer says.                                                    *)
LEMMA AnswerForm ==
    ASSUME NEW anchor \in Int, NEW batch, NEW v \in Answers(batch, anchor), NEW i \in batch
    PROVE  v[i].kind \in {"admitted", "rejected", "none"} /\ v[i].expires \in Int
<1>1. v[i] \in Outcomes(anchor)
  BY DEF Answers
<1>2. \A l \in EvidenceLives : anchor + l \in Int
  BY Numbers
<1> QED BY <1>1, <1>2 DEF Outcomes

(* No instance is both admitted and rejected, and either has an answer.    *)
LEMMA AnswerApart ==
    ASSUME NEW anchor \in Int, NEW batch, NEW v \in Answers(batch, anchor),
           NEW st, NEW since, NEW i
    PROVE  /\ Admits(st, v, i, since) \/ Rejects(v, i) => i \in batch /\ v[i].expires \in Int
           /\ ~ (Admits(st, v, i, since) /\ Rejects(v, i))
<1>1. DOMAIN v = batch
  BY DEF Answers
<1> QED BY <1>1, AnswerForm DEF Admits, Rejects

(* What record stores: the verdicts of the answers, and a new generation.  *)
LEMMA RecordForm ==
    ASSUME NEW st \in ChuteState, now \in Nat, NEW anchor \in Int, NEW batch,
           NEW v \in Answers(batch, anchor), NEW since
    PROVE  LET p == Record(st, v, anchor, since) IN
           /\ p \in ChuteState /\ p.pool = st.pool /\ p.generation = st.generation + 1
           /\ p.renewalSince = st.renewalSince /\ p.issueUntil = st.issueUntil
           /\ p.validUntil = st.validUntil
           /\ \A i \in Instances : p.admitted[i] # None =>
                \/ Admits(st, v, i, since) /\ p.admitted[i] <= v[i].expires
                \/ /\ ~Admits(st, v, i, since) /\ ~Rejects(v, i)
                   /\ p.admitted[i] = st.admitted[i]
           /\ \A i \in Instances :
                p.decided[i] = IF Admits(st, v, i, since) \/ Rejects(v, i)
                               THEN st.generation + 1 ELSE st.decided[i]
<1> DEFINE A(i) == Admits(st, v, i, since)
           R(i) == Rejects(v, i)
           admitted == [i \in Instances |-> IF A(i) THEN Deadline(anchor, v[i].expires)
                                            ELSE IF R(i) THEN None ELSE st.admitted[i]]
           rejected == [i \in Instances |-> IF R(i) THEN now + RejectionTTL ELSE st.rejected[i]]
           decided == [i \in Instances |-> IF A(i) \/ R(i) THEN st.generation + 1
                                           ELSE st.decided[i]]
           p == [st EXCEPT !.generation = st.generation + 1, !.lastRecorded = now,
                           !.admitted = admitted, !.rejected = rejected, !.decided = decided]
<1>1. Record(st, v, anchor, since) = p
  BY Zenon DEF Record
<1>2. /\ st.generation \in Nat /\ st.admitted \in [Instances -> Maybe(Int)]
      /\ st.rejected \in [Instances -> Maybe(Int)] /\ st.decided \in [Instances -> Maybe(Nat)]
  BY StateParts
<1>3. ASSUME NEW i \in Instances, A(i)
      PROVE  /\ Deadline(anchor, v[i].expires) \in Int
             /\ Deadline(anchor, v[i].expires) <= v[i].expires
  BY <1>3, AnswerApart, DeadlineForm
<1> HIDE DEF A, R
<1>4. admitted \in [Instances -> Maybe(Int)]
  BY <1>2, <1>3 DEF Maybe
<1>5. rejected \in [Instances -> Maybe(Int)]
  BY <1>2, Numbers DEF Maybe
<1>6. st.generation + 1 \in Nat /\ now \in Maybe(Int)
  BY <1>2 DEF Maybe
<1>7. decided \in [Instances -> Maybe(Nat)]
  BY <1>2, <1>6 DEF Maybe
<1>8. \A i \in Instances : admitted[i] # None =>
                \/ A(i) /\ admitted[i] <= v[i].expires
                \/ ~A(i) /\ ~R(i) /\ admitted[i] = st.admitted[i]
  BY <1>3
<1>9. \A i \in Instances : decided[i] = IF A(i) \/ R(i) THEN st.generation + 1 ELSE st.decided[i]
  OBVIOUS
<1> HIDE DEF admitted, rejected, decided
<1>10. /\ p \in ChuteState /\ p.admitted = admitted /\ p.decided = decided /\ p.pool = st.pool
       /\ p.generation = st.generation + 1 /\ p.renewalSince = st.renewalSince
       /\ p.issueUntil = st.issueUntil /\ p.validUntil = st.validUntil
  BY <1>4, <1>5, <1>6, <1>7 DEF ChuteState
<1> HIDE DEF p
<1> QED BY <1>1, <1>8, <1>9, <1>10 DEF A, R

(* What Judge remembers of those answers.                                  *)
Judgement(st, j, v, began, since) ==
    [i \in Instances |->
        IF Admits(st, v, i, since)
        THEN [j[i] EXCEPT !.began = began, !.expires = v[i].expires]
        ELSE IF Rejects(v, i) THEN [j[i] EXCEPT !.rejectedAt = st.generation + 1]
        ELSE j[i]]

(* What the evidence said of each instance, once it is recorded.           *)
LEMMA JudgementForm ==
    ASSUME NEW st \in ChuteState, NEW j \in [Instances -> Judged], NEW anchor \in Int, NEW batch,
           NEW v \in Answers(batch, anchor), NEW since, NEW began \in Nat
    PROVE  LET k == Judgement(st, j, v, began, since) IN
           /\ k \in [Instances -> Judged]
           /\ \A i \in Instances :
                /\ k[i].rejectedAt = IF Rejects(v, i) THEN st.generation + 1 ELSE j[i].rejectedAt
                /\ Admits(st, v, i, since) => k[i].began = began /\ k[i].expires = v[i].expires
                /\ ~Admits(st, v, i, since) =>
                      k[i].began = j[i].began /\ k[i].expires = j[i].expires
<1> DEFINE k == Judgement(st, j, v, began, since)
           A(i) == Admits(st, v, i, since)
           R(i) == Rejects(v, i)
<1>1. st.generation + 1 \in Nat
  BY StateParts
<1>2. ASSUME NEW i \in Instances
      PROVE  /\ k[i] \in Judged
             /\ k[i].rejectedAt = IF R(i) THEN st.generation + 1 ELSE j[i].rejectedAt
             /\ A(i) => k[i].began = began /\ k[i].expires = v[i].expires
             /\ ~A(i) => k[i].began = j[i].began /\ k[i].expires = j[i].expires
  <2>1. j[i] \in Judged
    OBVIOUS
  <2>2. k[i] = IF A(i) THEN [j[i] EXCEPT !.began = began, !.expires = v[i].expires]
               ELSE IF R(i) THEN [j[i] EXCEPT !.rejectedAt = st.generation + 1]
               ELSE j[i]
    BY DEF Judgement
  <2>3. (A(i) => v[i].expires \in Int) /\ ~ (A(i) /\ R(i))
    BY AnswerApart
  <2> DEFINE e == v[i].expires
             g == st.generation + 1
             J == j[i]
  <2>4. e \in Int => /\ [J EXCEPT !.began = began, !.expires = e] \in Judged
                     /\ [J EXCEPT !.began = began, !.expires = e].rejectedAt = J.rejectedAt
                     /\ [J EXCEPT !.began = began, !.expires = e].began = began
                     /\ [J EXCEPT !.began = began, !.expires = e].expires = e
    <3> HIDE DEF e, J
    <3> QED BY <2>1 DEF Judged, J
  <2>5. /\ [J EXCEPT !.rejectedAt = g] \in Judged
        /\ [J EXCEPT !.rejectedAt = g].rejectedAt = g
        /\ [J EXCEPT !.rejectedAt = g].began = J.began
        /\ [J EXCEPT !.rejectedAt = g].expires = J.expires
    <3>1. g \in Nat
      BY <1>1
    <3> HIDE DEF g
    <3> QED BY <2>1, <3>1 DEF Judged
  <2> HIDE DEF A, R, k
  <2>6. CASE A(i)
    <3>1. ~R(i) /\ e \in Int
      BY <2>3, <2>6
    <3>2. k[i] = [J EXCEPT !.began = began, !.expires = e]
      BY <2>2, <2>6
    <3> QED BY <2>4, <2>6, <3>1, <3>2
  <2>7. CASE ~A(i) /\ R(i)
    BY <2>2, <2>5, <2>7
  <2>8. CASE ~A(i) /\ ~R(i)
    BY <2>1, <2>2, <2>8
  <2> QED BY <2>6, <2>7, <2>8
<1>3. k \in [Instances -> Judged]
  BY <1>2 DEF Judgement
<1> QED BY <1>2, <1>3

(* Verdicts recorded keep the fit, if no instance is admitted on evidence  *)
(* whose fetch began before its last rejection.                            *)
LEMMA RecordFit ==
    ASSUME NEW st \in ChuteState, NEW j \in [Instances -> Judged], now \in Nat,
           NEW anchor \in Int, NEW batch, NEW v \in Answers(batch, anchor),
           NEW since, NEW began \in Nat,
           NEW r, r.pc = "fetching" => r.since \in Nat,
           VerdictFit(st, r, j),
           \A i \in Instances : Admits(st, v, i, since) => j[i].rejectedAt <= began
    PROVE  VerdictFit(Record(st, v, anchor, since), r, Judgement(st, j, v, began, since))
<1> DEFINE p == Record(st, v, anchor, since)
           k == Judgement(st, j, v, began, since)
           A(i) == Admits(st, v, i, since)
           R(i) == Rejects(v, i)
<1>1. /\ p.generation = st.generation + 1 /\ p.renewalSince = st.renewalSince
      /\ \A i \in Instances : p.admitted[i] # None =>
           \/ A(i) /\ p.admitted[i] <= v[i].expires
           \/ ~A(i) /\ ~R(i) /\ p.admitted[i] = st.admitted[i]
      /\ \A i \in Instances :
           p.decided[i] = IF A(i) \/ R(i) THEN st.generation + 1 ELSE st.decided[i]
  BY RecordForm
<1>2. \A i \in Instances :
        /\ k[i].rejectedAt = IF R(i) THEN st.generation + 1 ELSE j[i].rejectedAt
        /\ A(i) => k[i].began = began /\ k[i].expires = v[i].expires
        /\ ~A(i) => k[i].began = j[i].began /\ k[i].expires = j[i].expires
  BY JudgementForm
<1>3. \A i \in Instances : ~ (A(i) /\ R(i)) /\ (A(i) => j[i].rejectedAt <= began)
  BY AnswerApart
<1> HIDE DEF p, k, A, R
<1>4. st.generation \in Nat /\ \A i \in Instances : j[i].rejectedAt \in Nat
  BY StateParts DEF Judged
<1>5. ASSUME NEW i \in Instances
      PROVE  /\ k[i].rejectedAt <= p.generation
             /\ p.admitted[i] # None => /\ k[i].rejectedAt <= k[i].began
                                        /\ p.admitted[i] <= k[i].expires
             /\ r.pc = "fetching" /\ k[i].rejectedAt > r.since =>
                   p.decided[i] # None /\ p.decided[i] > r.since
  <2>1. /\ j[i].rejectedAt \in Nat /\ j[i].rejectedAt <= st.generation
        /\ st.generation \in Nat
    BY <1>4 DEF VerdictFit
  <2>2. k[i].rejectedAt <= p.generation
    BY <1>1, <1>2, <2>1
  <2>3. ASSUME p.admitted[i] # None
        PROVE  k[i].rejectedAt <= k[i].began /\ p.admitted[i] <= k[i].expires
    <3>1. CASE A(i)
      BY <1>1, <1>2, <1>3, <2>3, <3>1
    <3>2. CASE ~A(i)
      <4>1. ~R(i) /\ p.admitted[i] = st.admitted[i]
        BY <1>1, <2>3, <3>2
      <4>2. j[i].rejectedAt <= j[i].began /\ st.admitted[i] <= j[i].expires
        BY <2>3, <4>1 DEF VerdictFit
      <4> QED BY <1>2, <3>2, <4>1, <4>2
    <3> QED BY <3>1, <3>2
  <2>4. ASSUME r.pc = "fetching", k[i].rejectedAt > r.since
        PROVE  p.decided[i] # None /\ p.decided[i] > r.since
    <3>1. r.since \in Nat /\ r.since <= st.generation
      BY <2>4 DEF VerdictFit
    <3>2. CASE A(i) \/ R(i)
      <4>1. p.decided[i] = st.generation + 1 /\ st.generation + 1 \in Nat
        BY <1>1, <2>1, <3>2
      <4> QED BY <2>1, <3>1, <4>1, Numbers
    <3>3. CASE ~A(i) /\ ~R(i)
      <4>1. p.decided[i] = st.decided[i] /\ k[i].rejectedAt = j[i].rejectedAt
        BY <1>1, <1>2, <3>3
      <4> QED BY <2>4, <4>1 DEF VerdictFit
    <3> QED BY <3>2, <3>3
  <2> QED BY <2>2, <2>3, <2>4
<1>6. r.pc = "fetching" => p.renewalSince = r.since /\ r.since <= p.generation
  BY <1>1, <1>4 DEF VerdictFit
<1>7. VerdictFit(p, r, k)
  BY <1>5, <1>6 DEF VerdictFit
<1> QED BY <1>7 DEF p, k

(* A pool that has not changed, nor its times.                             *)
LEMMA PoolSame ==
    ASSUME NEW st, NEW p, NEW t, NEW L, PoolFit(st, t, L),
           p.pool = st.pool, p.issueUntil = st.issueUntil, p.validUntil = st.validUntil
    PROVE  PoolFit(p, t, L)
BY DEF PoolFit

-----------------------------------------------------------------------------
(* The ledger                                                              *)

(* The ledger's own prune forgets no nonce that is still valid.            *)
LEMMA LedgerKept ==
    ASSUME now \in Nat, ledger \in [Nonces -> Maybe(Int)], life \in [Nonces -> Int],
           LedgerFit(now, ledger, life, uses)
    PROVE  Ledger \in [Nonces -> Maybe(Int)] /\ LedgerFit(now, Ledger, life, uses)
<1>1. /\ Ledger \in [Nonces -> Maybe(Int)]
      /\ \A n \in Nonces : Ledger[n] = IF ledger[n] # None /\ ledger[n] > now
                                       THEN ledger[n] ELSE None
  BY LiveForm DEF Ledger
<1>2. ASSUME NEW n \in Nonces, uses[n] > 0, now < life[n]
      PROVE  Ledger[n] # None /\ Ledger[n] >= life[n]
  <2>1. ledger[n] # None /\ ledger[n] >= life[n]
    BY <1>2 DEF LedgerFit
  <2>2. ledger[n] \in Int /\ life[n] \in Int
    BY <2>1 DEF Maybe
  <2>3. ledger[n] > now
    BY <1>2, <2>1, <2>2
  <2> QED BY <1>1, <2>1, <2>3
<1> QED BY <1>1, <1>2 DEF LedgerFit

(* A nonce popped from a pool that issues is new, and the ledger keeps it. *)
LEMMA EnterFit ==
    ASSUME now \in Nat, ledger \in [Nonces -> Maybe(Int)], life \in [Nonces -> Int],
           uses \in [Nonces -> Nat], LedgerFit(now, ledger, life, uses),
           NEW st \in ChuteState, NEW n \in Nonces, n \notin Issued,
           st.validUntil # None, life[n] <= st.validUntil, Enter(st, n)
    PROVE  /\ ledger' \in [Nonces -> Maybe(Int)] /\ uses' \in [Nonces -> Nat]
           /\ LedgerFit(now, ledger', life, uses')
<1> DEFINE u == IF now < life[n] THEN uses[n] + 1 ELSE uses[n]
<1>1. ledger' = [Ledger EXCEPT ![n] = st.validUntil] /\ uses' = [uses EXCEPT ![n] = u]
  BY Zenon DEF Enter
<1>2. Ledger \in [Nonces -> Maybe(Int)] /\ LedgerFit(now, Ledger, life, uses)
  BY LedgerKept
<1>3. Ledger[n] = None
  BY <1>2 DEF Issued, Present
<1>4. st.validUntil \in Maybe(Int)
  BY StateParts
<1>5. now < life[n] => ~ (uses[n] > 0)
  BY <1>2, <1>3 DEF LedgerFit
<1>6. uses[n] \in Nat /\ uses[n] <= 1 /\ u \in Nat /\ u <= 1
  BY <1>5 DEF LedgerFit
<1> HIDE DEF u
<1>7. /\ ledger' \in [Nonces -> Maybe(Int)] /\ uses' \in [Nonces -> Nat]
      /\ \A m \in Nonces : /\ ledger'[m] = IF m = n THEN st.validUntil ELSE Ledger[m]
                           /\ uses'[m] = IF m = n THEN u ELSE uses[m]
  BY <1>1, <1>2, <1>4, <1>6
<1>8. ASSUME NEW m \in Nonces
      PROVE  uses'[m] <= 1 /\ (uses'[m] > 0 /\ now < life[m] =>
                                 ledger'[m] # None /\ ledger'[m] >= life[m])
  <2>1. CASE m = n
    <3>1. ledger'[m] = st.validUntil /\ uses'[m] = u /\ st.validUntil \in Int /\ life[m] \in Int
      BY <1>4, <1>7, <2>1 DEF Maybe
    <3> QED BY <1>6, <2>1, <3>1
  <2>2. CASE m # n
    BY <1>2, <1>7, <2>2 DEF LedgerFit
  <2> QED BY <2>1, <2>2
<1> QED BY <1>7, <1>8 DEF LedgerFit

-----------------------------------------------------------------------------
(* What an action stores                                                   *)

(* One scope's parts, once it is in the map.                               *)
LEMMA ScopeParts ==
    ASSUME AdmissionInv, NEW s \in Scopes
    PROVE  /\ now \in Nat /\ state[s] \in ChuteState /\ renewal[s] \in Renewal
           /\ judged[s] \in [Instances -> Judged] /\ renewal[s].since \in Nat
           /\ VerdictFit(state[s], renewal[s], judged[s]) /\ PoolFit(state[s], now, life)
BY DEF AdmissionInv, ScopesInv, Renewal

(* A scope is stored.                                                      *)
LEMMA Stored ==
    ASSUME AdmissionInv, NEW s \in Scopes, NEW st \in ChuteState, NEW r \in Renewal,
           NEW j \in [Instances -> Judged], VerdictFit(st, r, j), PoolFit(st, now, life),
           state' = [state EXCEPT ![s] = st], renewal' = [renewal EXCEPT ![s] = r],
           judged' = [judged EXCEPT ![s] = j], now' = now, life' = life
    PROVE  ScopesInv'
<1>1. /\ state \in [Scopes -> ChuteState] /\ renewal \in [Scopes -> Renewal]
      /\ judged \in [Scopes -> [Instances -> Judged]]
  BY DEF AdmissionInv, ScopesInv
<1>2. /\ state' \in [Scopes -> ChuteState]
      /\ \A x \in Scopes : state'[x] = IF x = s THEN st ELSE state[x]
  BY <1>1
<1>3. /\ renewal' \in [Scopes -> Renewal]
      /\ \A x \in Scopes : renewal'[x] = IF x = s THEN r ELSE renewal[x]
  BY <1>1
<1>4. /\ judged' \in [Scopes -> [Instances -> Judged]]
      /\ \A x \in Scopes : judged'[x] = IF x = s THEN j ELSE judged[x]
  BY <1>1
<1>5. ASSUME NEW x \in Scopes
      PROVE  VerdictFit(state'[x], renewal'[x], judged'[x]) /\ PoolFit(state'[x], now', life')
  <2>1. CASE x = s
    BY <1>2, <1>3, <1>4, <2>1
  <2>2. CASE x # s
    BY <1>2, <1>3, <1>4, <2>2, ScopeParts
  <2> QED BY <2>1, <2>2
<1> QED BY <1>2, <1>3, <1>4, <1>5 DEF ScopesInv

(* A scope is left with what it had or less, its renewal as it was or not  *)
(* fetching.                                                               *)
LEMMA Narrowed ==
    ASSUME AdmissionInv, NEW s \in Scopes, NEW st, Narrows(st, state[s]), SetState(s, st),
           NEW r \in Renewal, r.pc = "fetching" => r = renewal[s],
           renewal' = [renewal EXCEPT ![s] = r], judged' = judged, now' = now, life' = life
    PROVE  ScopesInv'
<1>1. st \in ChuteState
  BY DEF Narrows
<1>2. VerdictFit(state[s], r, judged[s])
  <2>1. VerdictFit(state[s], renewal[s], judged[s])
    BY ScopeParts
  <2> QED BY <2>1 DEF VerdictFit
<1>3. VerdictFit(st, r, judged[s]) /\ PoolFit(st, now, life)
  <2>1. r.pc = "fetching" => r.since \in Nat
    BY ScopeParts
  <2> QED BY <1>2, <2>1, ScopeParts, NarrowFit
<1>4. judged' = [judged EXCEPT ![s] = judged[s]] /\ judged[s] \in [Instances -> Judged]
  BY DEF AdmissionInv, ScopesInv
<1>5. state' = [state EXCEPT ![s] = st]
  BY DEF SetState
<1> QED BY <1>1, <1>3, <1>4, <1>5, Stored

(* The same, the renewal being as it was.                                  *)
LEMMA NarrowedOnly ==
    ASSUME AdmissionInv, NEW s \in Scopes, NEW st, Narrows(st, state[s]), SetState(s, st),
           renewal' = renewal, judged' = judged, now' = now, life' = life
    PROVE  ScopesInv'
<1>1. renewal' = [renewal EXCEPT ![s] = renewal[s]] /\ renewal[s] \in Renewal
  BY DEF AdmissionInv, ScopesInv
<1> QED BY <1>1, Narrowed

(* Nothing of the scopes changes.                                          *)
LEMMA ScopesKept ==
    ASSUME AdmissionInv, UNCHANGED <<state, renewal, judged, now, life>>
    PROVE  ScopesInv'
BY DEF AdmissionInv, ScopesInv

(* A scope begins anew.                                                    *)
LEMMA ResetFit ==
    ASSUME AdmissionInv, NEW s \in Scopes, Reset(s), now' = now, life' = life
    PROVE  ScopesInv'
<1> DEFINE j == [i \in Instances |-> Unjudged]
<1>1. Nowhere \in [Instances -> Maybe(Int)] /\ Nowhere \in [Instances -> Maybe(Nat)]
      /\ \A i \in Instances : Nowhere[i] = None
  BY DEF Nowhere, Maybe
<1>2. /\ EmptyState \in ChuteState /\ EmptyState.admitted = Nowhere
      /\ EmptyState.generation = 0 /\ EmptyState.issueUntil = None
  BY <1>1 DEF EmptyState, ChuteState, Maybe
<1>3. NoRenewal \in Renewal /\ NoRenewal.pc = "off"
  BY DEF NoRenewal, Renewal, Maybe
<1>4. j \in [Instances -> Judged] /\ \A i \in Instances : j[i].rejectedAt = 0
  BY DEF Unjudged, Judged
<1> HIDE DEF j
<1>5. VerdictFit(EmptyState, NoRenewal, j)
  BY <1>1, <1>2, <1>3, <1>4 DEF VerdictFit
<1>6. PoolFit(EmptyState, now, life)
  BY <1>2 DEF PoolFit
<1>7. /\ state' = [state EXCEPT ![s] = EmptyState] /\ renewal' = [renewal EXCEPT ![s] = NoRenewal]
      /\ judged' = [judged EXCEPT ![s] = j]
  BY DEF Reset, SetState, j
<1> QED BY <1>2, <1>3, <1>4, <1>5, <1>6, <1>7, Stored

(* One request moves.                                                      *)
LEMMA ReqMoved ==
    ASSUME AdmissionInv, NEW q \in Requests, NEW r \in Request,
           r.pc # "idle" => r.scope \in Scopes, r.pc = "invoke" => r.instance \in Instances,
           SetReq(q, r)
    PROVE  RequestsInv'
<1>1. req \in [Requests -> Request]
  BY DEF AdmissionInv, RequestsInv
<1>2. /\ req' \in [Requests -> Request]
      /\ \A x \in Requests : req'[x] = IF x = q THEN r ELSE req[x]
  BY <1>1 DEF SetReq
<1> QED BY <1>2 DEF AdmissionInv, RequestsInv

(* No request moves.                                                       *)
LEMMA ReqKept ==
    ASSUME AdmissionInv, req' = req
    PROVE  RequestsInv'
BY DEF AdmissionInv, RequestsInv

(* A request at rest.                                                      *)
LEMMA NoRequestTyped ==
    /\ NoRequest \in Request /\ NoRequest.pc = "idle" /\ NoRequest.turnedAway = {}
    /\ NoRequest.nonce = None
BY Numbers DEF NoRequest, Request, Maybe

(* A request ends.                                                         *)
LEMMA ReqRests ==
    ASSUME AdmissionInv, NEW q \in Requests, SetReq(q, NoRequest)
    PROVE  RequestsInv'
BY NoRequestTyped, ReqMoved

(* The parts of a request that has begun.                                  *)
LEMMA ReqParts ==
    ASSUME AdmissionInv, NEW q \in Requests
    PROVE  /\ req[q] \in Request /\ (req[q].pc # "idle" => req[q].scope \in Scopes)
           /\ req[q].batch \subseteq Instances /\ req[q].unevidenced \subseteq Instances
           /\ req[q].at \in Int /\ req[q].turnedAway \subseteq Instances
           /\ req[q].discoveries \in 0 .. MaxDiscoveries /\ req[q].admissions \in 0 .. MaxAdmissions
BY DEF AdmissionInv, RequestsInv, Request

(* The nonces as they are, or the ledger without what is past.             *)
LEMMA NoncesKept ==
    ASSUME AdmissionInv, ledger' = ledger \/ ledger' = Ledger, UNCHANGED <<now, life, uses>>
    PROVE  NoncesInv'
<1>1. /\ now \in Nat /\ ledger \in [Nonces -> Maybe(Int)] /\ life \in [Nonces -> Int]
      /\ uses \in [Nonces -> Nat] /\ LedgerFit(now, ledger, life, uses)
  BY DEF AdmissionInv, NoncesInv
<1>2. Ledger \in [Nonces -> Maybe(Int)] /\ LedgerFit(now, Ledger, life, uses)
  BY <1>1, LedgerKept
<1> QED BY <1>1, <1>2 DEF NoncesInv

(* What take_ticket may cut a ticket from.                                 *)
LEMMA PopsSound ==
    ASSUME AdmissionInv, NEW s \in Scopes, NEW avoid, NEW D, NEW i, NEW n,
           Pops(Prune(state[s]), avoid, D, i, n)
    PROVE  /\ i \in Instances /\ i \notin avoid /\ n \in Nonces /\ n \notin Issued
           /\ Prune(state[s]).validUntil # None /\ life[n] <= Prune(state[s]).validUntil
           /\ now + NonceMargin < life[n]
           /\ now < judged[s][i].expires
<1> DEFINE p == Prune(state[s])
<1>1. /\ Narrows(p, state[s]) /\ p \in ChuteState
      /\ \A x \in Instances : p.admitted[x] # None => p.admitted[x] > now
      /\ \A x \in Instances : p.pool[x] # {} =>
            state[s].issueUntil # None /\ state[s].issueUntil > now
  BY ScopeParts, PruneNarrows DEF Narrows
<1>2. /\ p.validUntil # None /\ i \in p.listed \ avoid /\ p.admitted[i] # None
      /\ n \in p.pool[i] /\ n \notin Issued
  BY DEF Pops, Eligible
<1> HIDE DEF p
<1>3. i \in Instances /\ p.pool[i] \subseteq Nonces
  BY <1>1, <1>2, StateParts
<1>4. /\ state[s].issueUntil # None /\ state[s].issueUntil > now /\ n \in state[s].pool[i]
      /\ p.validUntil = state[s].validUntil
  BY <1>1, <1>2, <1>3 DEF Narrows
<1>5. state[s].issueUntil + NonceMargin <= life[n] /\ life[n] <= state[s].validUntil
  BY <1>3, <1>4, ScopeParts DEF PoolFit
<1>6. now + NonceMargin < life[n]
  <2>1. state[s].issueUntil \in Int
    BY <1>4, ScopeParts, StateParts DEF Maybe
  <2>2. life[n] \in Int /\ now \in Nat /\ NonceMargin \in Nat
    BY <1>2, <1>3, Numbers DEF AdmissionInv, NoncesInv
  <2> QED BY <1>4, <1>5, <2>1, <2>2
<1>7. now < judged[s][i].expires
  <2>1. p.admitted[i] = state[s].admitted[i] /\ p.admitted[i] > now
    BY <1>1, <1>2, <1>3 DEF Narrows
  <2>2. state[s].admitted[i] <= judged[s][i].expires
    BY <1>2, <1>3, <2>1, ScopeParts DEF VerdictFit
  <2>3. state[s].admitted[i] \in Int /\ judged[s][i].expires \in Int /\ now \in Nat
    <3>1. judged[s][i] \in Judged
      BY <1>3, ScopeParts
    <3>2. state[s].admitted[i] \in Maybe(Int)
      BY <1>3, ScopeParts, StateParts
    <3> QED BY <1>2, <2>1, <3>1, <3>2, ScopeParts DEF Judged, Maybe
  <2> QED BY <2>1, <2>2, <2>3
<1> QED BY <1>2, <1>3, <1>4, <1>5, <1>6, <1>7 DEF p

-----------------------------------------------------------------------------
(* Requests                                                                *)

(* Steps that move a request and nothing else.                             *)
LEMMA WaitsInv ==
    ASSUME AdmissionInv, NEW q \in Requests,
           \/ \E s \in Scopes : Ask(q, s)
           \/ GiveUp(q) \/ Abandon(q) \/ Lock(q) \/ Panic(q) \/ Answered(q)
    PROVE  AdmissionInv'
<1>1. UNCHANGED <<now, state, renewal, ledger, life, uses, judged>>
  BY DEF Ask, GiveUp, Abandon, Lock, Panic, Answered
<1>2. req[q] \in Request /\ (req[q].pc # "idle" => req[q].scope \in Scopes)
  BY ReqParts
<1>3. RequestsInv'
  <2>1. ASSUME NEW s \in Scopes, Ask(q, s) PROVE RequestsInv'
    <3> DEFINE r == [NoRequest EXCEPT !.pc = "wait", !.scope = s]
    <3>1. SetReq(q, r)
      BY <2>1 DEF Ask
    <3>2. r \in Request /\ r.scope = s /\ r.pc = "wait"
      BY NoRequestTyped DEF Request, Maybe
    <3> HIDE DEF r
    <3> QED BY <3>1, <3>2, ReqMoved
  <2>2. CASE GiveUp(q) \/ Answered(q)
    BY <2>2, ReqRests DEF GiveUp, Answered
  <2>3. CASE Abandon(q)
    <3> DEFINE r == [req[q] EXCEPT !.abandoned = TRUE]
    <3>1. SetReq(q, r) /\ req[q].pc # "idle" /\ req[q].pc # "invoke"
      BY <2>3 DEF Abandon, Locking
    <3>2. r \in Request /\ r.scope = req[q].scope /\ r.pc = req[q].pc
      BY <1>2 DEF Request
    <3> HIDE DEF r
    <3> QED BY <1>2, <3>1, <3>2, ReqMoved
  <2>4. CASE Lock(q)
    <3> DEFINE r == [req[q] EXCEPT !.pc = "issue"]
    <3>1. SetReq(q, r) /\ req[q].pc # "idle"
      BY <2>4 DEF Lock
    <3>2. r \in Request /\ r.scope = req[q].scope /\ r.pc = "issue"
      BY <1>2 DEF Request
    <3> HIDE DEF r
    <3> QED BY <1>2, <3>1, <3>2, ReqMoved
  <2>5. CASE Panic(q)
    <3> DEFINE r == [NoRequest EXCEPT !.pc = "invalidate", !.scope = req[q].scope]
    <3>1. SetReq(q, r) \/ SetReq(q, NoRequest)
      BY <2>5 DEF Panic
    <3>2. req[q].scope \in Scopes
      BY <1>2, <2>5 DEF Panic
    <3>3. r \in Request /\ r.scope = req[q].scope /\ r.pc = "invalidate"
      BY <3>2, NoRequestTyped DEF Request, Maybe
    <3> HIDE DEF r
    <3> QED BY <3>1, <3>2, <3>3, ReqMoved, ReqRests
  <2> QED BY <2>1, <2>2, <2>3, <2>4, <2>5
<1> QED BY <1>1, <1>3, ScopesKept, NoncesKept DEF AdmissionInv

(* issue ends in an error, with what it has left of the scope.             *)
LEMMA FailFit ==
    ASSUME AdmissionInv, NEW q \in Requests, req[q].pc # "idle", NEW st,
           Narrows(st, state[req[q].scope]), Fail(q, st),
           ledger' = ledger \/ ledger' = Ledger
    PROVE  AdmissionInv'
<1> DEFINE s == req[q].scope
<1>1. s \in Scopes
  BY ReqParts
<1>2. /\ SetReq(q, NoRequest) /\ now' = now /\ life' = life /\ uses' = uses
      /\ Reset(s) \/ (SetState(s, st) /\ renewal' = renewal /\ judged' = judged)
  BY DEF Fail
<1>3. Narrows(st, state[s])
  OBVIOUS
<1> HIDE DEF s
<1>4. ScopesInv'
  BY <1>1, <1>2, <1>3, ResetFit, NarrowedOnly
<1>5. RequestsInv'
  BY <1>2, ReqRests
<1>6. NoncesInv'
  BY <1>2, NoncesKept
<1> QED BY <1>2, <1>4, <1>5, <1>6 DEF AdmissionInv

(* What a request's search of its scope leaves.                            *)
LEMMA SearchedNarrows ==
    ASSUME AdmissionInv, NEW q \in Requests, req[q].pc # "idle"
    PROVE  Narrows(Searched(q), state[req[q].scope]) /\ Searched(q) \in ChuteState
<1> DEFINE s == req[q].scope
           p == Prune(state[s])
<1>1. s \in Scopes /\ now \in Nat /\ state[s] \in ChuteState
  BY ReqParts, ScopeParts
<1>2. Narrows(p, state[s]) /\ p \in ChuteState
  BY <1>1, PruneNarrows DEF Narrows
<1>3. Drained(p, {}) \in ChuteState /\ Narrows(Drained(p, {}), p)
  BY <1>2, DrainedNarrows
<1>4. Narrows(Drained(p, {}), state[s])
  BY <1>1, <1>2, <1>3, NarrowsOn
<1> QED BY <1>3, <1>4 DEF Searched

(* What is left of a scope when nonces are taken out of its pool.          *)
LEMMA TakenNarrows ==
    ASSUME AdmissionInv, NEW s \in Scopes, NEW D, NEW E
    PROVE  /\ Narrows([Prune(state[s]) EXCEPT !.pool = Without(@, D, E)], state[s])
           /\ \A t \in Maybe(Int) :
                 Narrows([Prune(state[s]) EXCEPT !.pool = Without(@, D, E), !.lastServed = t],
                         state[s])
<1> DEFINE p == Prune(state[s])
<1>1. Narrows(p, state[s]) /\ p \in ChuteState /\ state[s] \in ChuteState
  BY ScopeParts, PruneNarrows DEF Narrows
<1> HIDE DEF p
<1>2. Narrows([p EXCEPT !.pool = Without(p.pool, D, E)], state[s])
  <2>1. Narrows([p EXCEPT !.pool = Without(p.pool, D, E)], p)
    BY <1>1, WithoutNarrows
  <2> DEFINE u == [p EXCEPT !.pool = Without(p.pool, D, E)]
  <2> HIDE DEF u
  <2>2. Narrows(u, p)
    BY <2>1 DEF u
  <2>3. Narrows(u, state[s])
    BY <1>1, <2>2, NarrowsOn
  <2> QED BY <2>3 DEF u
<1>3. ASSUME NEW t \in Maybe(Int)
      PROVE  Narrows([p EXCEPT !.pool = Without(p.pool, D, E), !.lastServed = t], state[s])
  <2> DEFINE u == [p EXCEPT !.pool = Without(p.pool, D, E), !.lastServed = t]
  <2>1. Narrows(u, p)
    BY <1>1, ServedNarrows
  <2> HIDE DEF u
  <2>2. Narrows(u, state[s])
    BY <1>1, <2>1, NarrowsOn
  <2> QED BY <2>2 DEF u
<1> QED BY <1>2, <1>3 DEF p

(* A ticket is cut: it enters the ledger, and its scope is left with less. *)
LEMMA IssueTicketInv ==
    ASSUME AdmissionInv, NEW q \in Requests, IssueTicket(q)
    PROVE  /\ AdmissionInv'
           /\ TicketSound(q)
<1> DEFINE s == req[q].scope
           st == Prune(state[s])
           served == ~req[q].abandoned
           t == IF served THEN now ELSE st.lastServed
<1>1. s \in Scopes /\ req[q].pc = "issue"
  BY ReqParts DEF IssueTicket
<1>2. PICK D \in SUBSET Issued, i \in Instances, n \in Nonces :
          /\ Pops(st, {}, D, i, n)
          /\ Enter(st, n)
          /\ SetState(s, [st EXCEPT !.pool = Without(@, D \cup {n}, Eligible(st, {})),
                                    !.lastServed = IF served THEN now ELSE @])
          /\ SetReq(q, IF served THEN [NoRequest EXCEPT !.pc = "invoke", !.scope = s,
                                                        !.instance = i, !.nonce = n]
                                 ELSE NoRequest)
  BY Zenon DEF IssueTicket
<1>3. /\ UNCHANGED <<now, life, judged>>
      /\ renewal' = IF served /\ renewal[s].pc = "off"
                    THEN [renewal EXCEPT ![s] = [NoRenewal EXCEPT !.pc = "asleep"]] ELSE renewal
  BY Zenon DEF IssueTicket
<1>4. st \in ChuteState /\ now \in Nat /\ st.lastServed \in Maybe(Int)
  <2>1. st \in ChuteState
    BY <1>1, ScopeParts, PruneNarrows DEF Narrows
  <2> QED BY <1>1, <2>1, StateParts, ScopeParts
<1> DEFINE r == [NoRequest EXCEPT !.pc = "invoke", !.scope = s, !.instance = i, !.nonce = n]
<1>5. /\ n \notin Issued /\ st.validUntil # None /\ life[n] <= st.validUntil
      /\ now + NonceMargin < life[n] /\ now < judged[s][i].expires
  BY <1>1, <1>2, PopsSound
<1>6. Narrows([st EXCEPT !.pool = Without(@, D \cup {n}, Eligible(st, {})), !.lastServed = t],
              state[s])
  <2>1. t \in Maybe(Int)
    BY <1>4 DEF Maybe
  <2> HIDE DEF t
  <2> QED BY <1>1, <2>1, TakenNarrows
<1>7. SetState(s, [st EXCEPT !.pool = Without(@, D \cup {n}, Eligible(st, {})), !.lastServed = t])
  <2> DEFINE u == Without(st.pool, D \cup {n}, Eligible(st, {}))
  <2>1. SetState(s, [st EXCEPT !.pool = u,
                               !.lastServed = IF served THEN now ELSE @])
    BY <1>2
  <2> HIDE DEF st, u
  <2>2. [st EXCEPT !.pool = u, !.lastServed = IF served THEN now ELSE @]
          = [st EXCEPT !.pool = u, !.lastServed = t]
    BY <1>4 DEF ChuteState
  <2>3. SetState(s, [st EXCEPT !.pool = u, !.lastServed = t])
    BY <2>1, <2>2
  <2> QED BY <2>3 DEF st, u
<1>8. r \in Request /\ r.scope = s /\ r.pc = "invoke" /\ r.turnedAway = {}
      /\ r.instance = i /\ r.nonce = n
  <2>1. s \in Maybe(Scopes) /\ i \in Maybe(Instances) /\ n \in Maybe(Nonces)
    BY <1>1 DEF Maybe
  <2> HIDE DEF s
  <2> QED BY <2>1, NoRequestTyped DEF Request
<1> HIDE DEF st, t
<1>9. ScopesInv'
  <2>1. CASE served /\ renewal[s].pc = "off"
    <3> DEFINE a == [NoRenewal EXCEPT !.pc = "asleep"]
    <3>1. a \in Renewal /\ a.pc = "asleep"
      BY DEF NoRenewal, Renewal, Maybe
    <3>2. renewal' = [renewal EXCEPT ![s] = a]
      BY <1>3, <2>1
    <3> HIDE DEF a
    <3> QED BY <1>1, <1>3, <1>6, <1>7, <3>1, <3>2, Narrowed
  <2>2. CASE ~(served /\ renewal[s].pc = "off")
    <3>1. renewal' = renewal
      BY <1>3, <2>2
    <3> QED BY <1>1, <1>3, <1>6, <1>7, <3>1, NarrowedOnly
  <2> QED BY <2>1, <2>2
<1> HIDE DEF r, s
<1>10. RequestsInv'
  <2>1. SetReq(q, r) \/ SetReq(q, NoRequest)
    BY <1>2 DEF r
  <2> QED BY <1>1, <1>8, <2>1, ReqMoved, ReqRests
<1>11. NoncesInv'
  <2>1. /\ ledger \in [Nonces -> Maybe(Int)] /\ life \in [Nonces -> Int]
        /\ uses \in [Nonces -> Nat] /\ LedgerFit(now, ledger, life, uses)
    BY DEF AdmissionInv, NoncesInv
  <2>2. /\ ledger' \in [Nonces -> Maybe(Int)] /\ uses' \in [Nonces -> Nat]
        /\ LedgerFit(now, ledger', life, uses')
    BY <1>2, <1>4, <1>5, <2>1, EnterFit
  <2> QED BY <1>3, <2>1, <2>2 DEF NoncesInv
<1>12. TicketSound(q)
  <2>1. req' = [req EXCEPT ![q] = IF served THEN r ELSE NoRequest] /\ req \in [Requests -> Request]
    BY <1>2 DEF SetReq, AdmissionInv, RequestsInv, r
  <2>2. req'[q] = IF served THEN r ELSE NoRequest
    BY <2>1
  <2>3. CASE served
    BY <1>5, <1>8, <2>2, <2>3 DEF TicketSound
  <2>4. CASE ~served
    BY <2>2, <2>4, NoRequestTyped DEF TicketSound, Granted
  <2> QED BY <2>3, <2>4
<1> QED BY <1>3, <1>4, <1>9, <1>10, <1>11, <1>12 DEF AdmissionInv

(* A second ticket of a request, from an instance it has not tried.        *)
LEMMA RetryTicketInv ==
    ASSUME AdmissionInv, NEW q \in Requests, RetryTicket(q)
    PROVE  /\ AdmissionInv'
           /\ TicketSound(q)
<1> DEFINE s == req[q].scope
           st == Prune(state[s])
           avoid == req[q].turnedAway \cup {req[q].instance}
<1>1. s \in Scopes /\ req[q].pc = "invoke" /\ req[q] \in Request
  BY ReqParts DEF RetryTicket
<1>2. PICK D \in SUBSET Issued, i \in Instances, n \in Nonces :
          /\ Pops(st, avoid, D, i, n)
          /\ Enter(st, n)
          /\ SetState(s, [st EXCEPT !.pool = Without(@, D \cup {n}, Eligible(st, avoid)),
                                    !.lastServed = now])
          /\ SetReq(q, [req[q] EXCEPT !.turnedAway = avoid, !.instance = i, !.nonce = n])
  BY Zenon DEF RetryTicket
<1>3. UNCHANGED <<now, renewal, life, judged>>
  BY DEF RetryTicket
<1>4. st \in ChuteState /\ now \in Nat /\ now \in Maybe(Int)
  <2>1. st \in ChuteState
    BY <1>1, ScopeParts, PruneNarrows DEF Narrows
  <2>2. now \in Nat
    BY DEF AdmissionInv
  <2> QED BY <2>1, <2>2 DEF Maybe
<1>5. /\ n \notin Issued /\ st.validUntil # None /\ life[n] <= st.validUntil
      /\ now + NonceMargin < life[n] /\ now < judged[s][i].expires /\ i \notin avoid
  <2> HIDE DEF s, avoid
  <2>1. Pops(Prune(state[s]), avoid, D, i, n) /\ s \in Scopes
    BY <1>1, <1>2
  <2> QED BY <2>1, PopsSound
<1>6. Narrows([st EXCEPT !.pool = Without(@, D \cup {n}, Eligible(st, avoid)),
                         !.lastServed = now], state[s])
  BY <1>1, <1>4, TakenNarrows
<1>7. avoid \subseteq Instances
  <2>1. req[q].turnedAway \subseteq Instances
    BY <1>1 DEF Request
  <2>2. req[q].instance \in Instances
    BY <1>1 DEF AdmissionInv, RequestsInv
  <2> QED BY <2>1, <2>2
<1> DEFINE r == [req[q] EXCEPT !.turnedAway = avoid, !.instance = i, !.nonce = n]
<1>8. /\ r \in Request /\ r.scope = s /\ r.turnedAway = avoid
      /\ r.instance = i /\ r.nonce = n
  <2>1. i \in Maybe(Instances) /\ n \in Maybe(Nonces)
    BY DEF Maybe
  <2> HIDE DEF avoid
  <2> QED BY <1>1, <1>7, <2>1 DEF Request
<1>9. ScopesInv'
  <2> HIDE DEF st, s
  <2> QED BY <1>1, <1>2, <1>3, <1>6, NarrowedOnly
<1> HIDE DEF r, avoid
<1>10. RequestsInv'
  <2>1. SetReq(q, r)
    BY <1>2 DEF r
  <2> QED BY <1>1, <1>8, <2>1, ReqMoved
<1>11. NoncesInv'
  <2>1. /\ ledger \in [Nonces -> Maybe(Int)] /\ life \in [Nonces -> Int]
        /\ uses \in [Nonces -> Nat] /\ LedgerFit(now, ledger, life, uses)
    BY DEF AdmissionInv, NoncesInv
  <2> HIDE DEF st
  <2>2. /\ ledger' \in [Nonces -> Maybe(Int)] /\ uses' \in [Nonces -> Nat]
        /\ LedgerFit(now, ledger', life, uses')
    BY <1>2, <1>4, <1>5, <2>1, EnterFit
  <2> QED BY <1>3, <2>1, <2>2 DEF NoncesInv
<1>12. TicketSound(q)
  <2>1. req' = [req EXCEPT ![q] = r] /\ req \in [Requests -> Request]
    BY <1>2 DEF SetReq, AdmissionInv, RequestsInv, r
  <2>2. req'[q] = r
    BY <2>1
  <2>3. /\ now + NonceMargin < life[r.nonce] /\ now < judged[r.scope][r.instance].expires
        /\ r.instance \notin r.turnedAway
    BY <1>5, <1>8
  <2> QED BY <2>2, <2>3 DEF TicketSound
<1> QED BY <1>3, <1>4, <1>9, <1>10, <1>11, <1>12 DEF AdmissionInv

(* No ticket, or the ledger is full: no retry.                             *)
LEMMA RetryNoneInv ==
    ASSUME AdmissionInv, NEW q \in Requests, RetryNone(q)
    PROVE  AdmissionInv'
<1> DEFINE s == req[q].scope
           st == Prune(state[s])
           avoid == req[q].turnedAway \cup {req[q].instance}
<1>1. s \in Scopes /\ req[q].pc = "invoke"
  BY ReqParts DEF RetryNone
<1>2. /\ UNCHANGED <<now, renewal, life, uses, judged>> /\ SetReq(q, NoRequest)
      /\ ledger' = ledger \/ ledger' = Ledger
  BY DEF RetryNone, PruneLedger
<1>3. Narrows(st, state[s]) /\ st \in ChuteState /\ state[s] \in ChuteState
  BY <1>1, ScopeParts, PruneNarrows DEF Narrows
<1>4. ScopesInv'
  <2>1. CASE SetState(s, Drained(st, avoid))
    <3>1. Drained(st, avoid) \in ChuteState /\ Narrows(Drained(st, avoid), st)
      BY <1>3, DrainedNarrows
    <3>2. Narrows(Drained(st, avoid), state[s])
      BY <1>3, <3>1, NarrowsOn
    <3> HIDE DEF st, s, avoid
    <3> QED BY <1>1, <1>2, <2>1, <3>2, NarrowedOnly
  <2>2. ASSUME NEW D, NEW n,
               SetState(s, [st EXCEPT !.pool = Without(@, D \cup {n}, Eligible(st, avoid))])
        PROVE  ScopesInv'
    <3>1. Narrows([st EXCEPT !.pool = Without(@, D \cup {n}, Eligible(st, avoid))], state[s])
      BY <1>1, TakenNarrows
    <3> HIDE DEF st, s, avoid
    <3> QED BY <1>1, <1>2, <2>2, <3>1, NarrowedOnly
  <2>3. \/ SetState(s, Drained(st, avoid))
        \/ \E D \in SUBSET Issued, n \in Nonces :
              SetState(s, [st EXCEPT !.pool = Without(@, D \cup {n}, Eligible(st, avoid))])
    BY Zenon DEF RetryNone
  <2> QED BY <2>1, <2>2, <2>3
<1>5. RequestsInv' /\ NoncesInv'
  BY <1>2, ReqRests, NoncesKept
<1> QED BY <1>2, <1>4, <1>5 DEF AdmissionInv

(* The ledger is full: the search ends in an error.                        *)
LEMMA LedgerFullInv ==
    ASSUME AdmissionInv, NEW q \in Requests, IssueLedgerFull(q)
    PROVE  AdmissionInv'
<1> DEFINE s == req[q].scope
           st == Prune(state[s])
<1>1. req[q].pc = "issue" /\ ledger' = Ledger
  BY DEF IssueLedgerFull
<1>2. s \in Scopes
  BY <1>1, ReqParts
<1>3. PICK D \in SUBSET Issued, n \in Nonces :
        Fail(q, [st EXCEPT !.pool = Without(@, D \cup {n}, Eligible(st, {}))])
  BY Zenon DEF IssueLedgerFull
<1>4. Narrows([st EXCEPT !.pool = Without(@, D \cup {n}, Eligible(st, {}))], state[s])
  BY <1>2, TakenNarrows
<1> DEFINE u == [st EXCEPT !.pool = Without(@, D \cup {n}, Eligible(st, {}))]
<1>5. Fail(q, u) /\ Narrows(u, state[req[q].scope])
  BY <1>3, <1>4
<1> HIDE DEF u
<1> QED BY <1>1, <1>5, FailFit

(* issue makes its next call.                                              *)
LEMMA IssueCallsInv ==
    ASSUME AdmissionInv, NEW q \in Requests, IssueAdmit(q) \/ IssueDiscover(q)
    PROVE  AdmissionInv'
<1> DEFINE s == req[q].scope
           st == Searched(q)
           a == [req[q] EXCEPT !.pc = "admit", !.admissions = req[q].admissions + 1,
                               !.batch = Batch(q, st), !.at = now]
           d == [req[q] EXCEPT !.pc = "discover", !.discoveries = req[q].discoveries + 1,
                               !.at = now]
<1>1. /\ req[q].pc = "issue" /\ SetState(s, st) /\ UNCHANGED <<now, renewal, life, uses, judged>>
      /\ ledger' = ledger \/ ledger' = Ledger
  BY DEF IssueAdmit, IssueDiscover, NoneFound, PruneLedger
<1>2. s \in Scopes /\ req[q] \in Request /\ now \in Int
  BY <1>1, ReqParts DEF AdmissionInv
<1>3. st \in ChuteState /\ Narrows(st, state[s])
  BY <1>1, SearchedNarrows
<1>4. RequestsInv'
  <2>1. CASE IssueAdmit(q)
    <3>1. SetReq(q, a) /\ req[q].admissions < MaxAdmissions
      BY <2>1 DEF IssueAdmit, WouldAdmit
    <3>2. req[q].admissions + 1 \in 0 .. MaxAdmissions
      BY <3>1, ReqParts, Numbers
    <3>3. Batch(q, st) \subseteq Instances
      BY <1>3, StateParts DEF Batch, ToJudge
    <3> HIDE DEF st
    <3>4. a \in Request /\ a.scope = s /\ a.pc = "admit"
      BY <1>2, <3>2, <3>3 DEF Request
    <3> HIDE DEF a, s
    <3> QED BY <1>2, <3>1, <3>4, ReqMoved
  <2>2. CASE IssueDiscover(q)
    <3>1. SetReq(q, d) /\ req[q].discoveries < MaxDiscoveries
      BY <2>2 DEF IssueDiscover, WouldDiscover
    <3>2. req[q].discoveries + 1 \in 0 .. MaxDiscoveries
      BY <3>1, ReqParts, Numbers
    <3>3. d \in Request /\ d.scope = s /\ d.pc = "discover"
      BY <1>2, <3>2 DEF Request
    <3> HIDE DEF d, s
    <3> QED BY <1>2, <3>1, <3>3, ReqMoved
  <2> QED BY <2>1, <2>2
<1> HIDE DEF st, s
<1>5. ScopesInv'
  BY <1>1, <1>2, <1>3, NarrowedOnly
<1>6. NoncesInv'
  BY <1>1, NoncesKept
<1> QED BY <1>1, <1>4, <1>5, <1>6 DEF AdmissionInv

(* A state narrows itself.                                                 *)
LEMMA NarrowsSelf ==
    ASSUME NEW st \in ChuteState
    PROVE  Narrows(st, st)
BY DEF Narrows

(* issue gives up, or its call fails.                                      *)
LEMMA IssueEndsInv ==
    ASSUME AdmissionInv, NEW q \in Requests, IssueFails(q) \/ CallFails(q)
    PROVE  AdmissionInv'
<1>1. CASE IssueFails(q)
  <2>1. /\ req[q].pc # "idle" /\ Fail(q, Searched(q))
        /\ ledger' = ledger \/ ledger' = Ledger
    BY <1>1 DEF IssueFails, NoneFound, PruneLedger
  <2> QED BY <2>1, SearchedNarrows, FailFit
<1>2. CASE CallFails(q)
  <2>1. req[q].pc # "idle" /\ Fail(q, state[req[q].scope]) /\ ledger' = ledger
    BY <1>2 DEF CallFails
  <2>2. Narrows(state[req[q].scope], state[req[q].scope])
    BY <2>1, ReqParts, ScopeParts, NarrowsSelf
  <2> QED BY <2>1, <2>2, FailFit
<1> QED BY <1>1, <1>2

(* A scope is invalidated, or evicted.                                     *)
LEMMA DropsInv ==
    ASSUME AdmissionInv, (\E q \in Requests : Invalidate(q)) \/ (\E s \in Scopes : Evict(s))
    PROVE  AdmissionInv'
<1>1. ASSUME NEW q \in Requests, Invalidate(q) PROVE AdmissionInv'
  <2>1. /\ req[q].scope \in Scopes /\ Reset(req[q].scope) /\ SetReq(q, NoRequest)
        /\ UNCHANGED <<now, ledger, life, uses>>
    BY <1>1, ReqParts DEF Invalidate
  <2> QED BY <2>1, ResetFit, ReqRests, NoncesKept DEF AdmissionInv
<1>2. ASSUME NEW s \in Scopes, Evict(s) PROVE AdmissionInv'
  <2>1. Reset(s) /\ UNCHANGED <<now, req, ledger, life, uses>>
    BY <1>2 DEF Evict
  <2> QED BY <2>1, ResetFit, ReqKept, NoncesKept DEF AdmissionInv
<1> QED BY <1>1, <1>2

(* A request goes back to its search once its call has answered.           *)
LEMMA ReqReturns ==
    ASSUME NEW r \in Request, NEW u \in SUBSET Instances
    PROVE  /\ [r EXCEPT !.pc = "issue", !.at = 0] \in Request
           /\ [r EXCEPT !.pc = "issue", !.batch = {}, !.at = 0, !.unevidenced = u] \in Request
<1> DEFINE b == {}
           z == 0
<1>1. b \in SUBSET Instances /\ z \in Int
  OBVIOUS
<1> HIDE DEF b, z
<1>2. /\ [r EXCEPT !.pc = "issue", !.at = z] \in Request
      /\ [r EXCEPT !.pc = "issue", !.batch = b, !.at = z, !.unevidenced = u] \in Request
  BY <1>1 DEF Request
<1> QED BY <1>2 DEF b, z

(* The verdicts of an evidence call are recorded under the lock.           *)
LEMMA AdmitReturnsInv ==
    ASSUME AdmissionInv, NEW q \in Requests, AdmitReturns(q)
    PROVE  AdmissionInv'
<1> DEFINE s == req[q].scope
           batch == req[q].batch
           at == req[q].at
<1>1. req[q].pc = "admit" /\ UNCHANGED <<now, renewal, ledger, life, uses>>
  BY DEF AdmitReturns
<1>2. s \in Scopes /\ at \in Int /\ req[q] \in Request
  BY <1>1, ReqParts
<1>3. PICK v \in Answers(batch, at) :
        /\ SetState(s, Record(state[s], v, at, None))
        /\ Judge(s, v, state[s].generation, None)
        /\ SetReq(q, [req[q] EXCEPT !.pc = "issue", !.batch = {}, !.at = 0,
              !.unevidenced = @ \cup {i \in batch : v[i].kind = "none"}])
  BY Zenon DEF AdmitReturns, Answers
<1>4. RequestsInv'
  <2> DEFINE quiet == {i \in batch : v[i].kind = "none"}
             u == req[q].unevidenced \cup quiet
             r == [req[q] EXCEPT !.pc = "issue", !.batch = {}, !.at = 0, !.unevidenced = u]
  <2>1. SetReq(q, r)
    BY <1>3, Zenon
  <2>2. u \in SUBSET Instances
    BY ReqParts
  <2> HIDE DEF quiet, u
  <2>3. r \in Request
    BY <1>2, <2>2, ReqReturns
  <2>4. r.scope = s /\ r.pc = "issue"
    BY <1>2 DEF Request
  <2> HIDE DEF r, s
  <2> QED BY <1>2, <2>1, <2>3, <2>4, ReqMoved
<1> HIDE DEF batch, at, s
<1>5. ScopesInv'
  <2> DEFINE st == Record(state[s], v, at, None)
             began == state[s].generation
             j == Judgement(state[s], judged[s], v, began, None)
  <2>1. /\ now \in Nat /\ state[s] \in ChuteState /\ judged[s] \in [Instances -> Judged]
        /\ renewal[s] \in Renewal /\ renewal[s].since \in Nat
        /\ VerdictFit(state[s], renewal[s], judged[s]) /\ PoolFit(state[s], now, life)
    BY <1>2, ScopeParts
  <2>2. began \in Nat
    BY <2>1, StateParts
  <2>3. \A i \in Instances : judged[s][i].rejectedAt <= began
    BY <2>1 DEF VerdictFit
  <2> HIDE DEF began
  <2>4. VerdictFit(st, renewal[s], j)
    BY <1>2, <2>1, <2>2, <2>3, RecordFit
  <2>5. /\ st \in ChuteState /\ st.pool = state[s].pool
        /\ st.issueUntil = state[s].issueUntil /\ st.validUntil = state[s].validUntil
    BY <1>2, <2>1, RecordForm
  <2>6. j \in [Instances -> Judged]
    BY <1>2, <2>1, <2>2, JudgementForm
  <2>7. state' = [state EXCEPT ![s] = st] /\ judged' = [judged EXCEPT ![s] = j]
    BY <1>3, Zenon DEF SetState, Judge, Judgement, began
  <2>8. renewal' = [renewal EXCEPT ![s] = renewal[s]]
    BY <1>1 DEF AdmissionInv, ScopesInv
  <2> HIDE DEF st, j
  <2>9. PoolFit(st, now, life)
    BY <2>1, <2>5, PoolSame
  <2> QED BY <1>1, <1>2, <2>1, <2>4, <2>5, <2>6, <2>7, <2>8, <2>9, Stored
<1>6. NoncesInv'
  BY <1>1, NoncesKept
<1> QED BY <1>1, <1>4, <1>5, <1>6 DEF AdmissionInv

(* A pool is filled; no other scope's pool, and no use in the ledger, goes *)
(* by a nonce whose life this changes.                                     *)
LEMMA DiscoverReturnsInv ==
    ASSUME AdmissionInv, NEW q \in Requests, DiscoverReturns(q)
    PROVE  AdmissionInv'
<1> DEFINE s == req[q].scope
           at == req[q].at
<1>1. /\ req[q].pc = "discover" /\ UNCHANGED <<now, renewal, ledger, judged>>
      /\ SetReq(q, [req[q] EXCEPT !.pc = "issue", !.at = 0])
  BY DEF DiscoverReturns
<1>2. s \in Scopes /\ at \in Int /\ req[q] \in Request
  BY <1>1, ReqParts
<1>3. RequestsInv'
  <2> DEFINE r == [req[q] EXCEPT !.pc = "issue", !.at = 0]
  <2>1. r \in Request
    BY <1>2, ReqReturns
  <2>2. r.scope = s /\ r.pc = "issue"
    BY <1>2 DEF Request
  <2> HIDE DEF r, s
  <2>3. SetReq(q, r)
    BY <1>1 DEF r
  <2> QED BY <1>2, <2>1, <2>2, <2>3, ReqMoved
<1>4. PICK f \in [Nonces -> Maybe(Instances)], l \in Lifetimes, made \in at .. now :
        LET N == {n \in Nonces : f[n] # None}
            pool == [i \in Instances |-> {n \in N : f[n] = i}]
        IN  /\ \A n \in N : made < life[n] => life[n] = made + l
            /\ SetState(s, Refill(state[s], pool, at, l))
            /\ life' = [n \in Nonces |-> IF n \in N THEN made + l ELSE life[n]]
            /\ uses' = [n \in Nonces |-> IF n \in N /\ made >= life[n] THEN 0 ELSE uses[n]]
  BY Zenon DEF DiscoverReturns
<1> DEFINE N == {n \in Nonces : f[n] # None}
           pool == [i \in Instances |-> {n \in N : f[n] = i}]
           st == Refill(state[s], pool, at, l)
<1>5. /\ \A n \in N : made < life[n] => life[n] = made + l
      /\ state' = [state EXCEPT ![s] = st]
      /\ life' = [n \in Nonces |-> IF n \in N THEN made + l ELSE life[n]]
      /\ uses' = [n \in Nonces |-> IF n \in N /\ made >= life[n] THEN 0 ELSE uses[n]]
  BY <1>4, Zenon DEF SetState
<1>6. /\ now \in Nat /\ l \in Nat /\ made \in Int /\ at <= made /\ made <= now
      /\ NonceMargin \in Nat /\ life \in [Nonces -> Int] /\ ledger \in [Nonces -> Maybe(Int)]
      /\ uses \in [Nonces -> Nat] /\ LedgerFit(now, ledger, life, uses)
  BY <1>2, Numbers DEF AdmissionInv, NoncesInv
<1> HIDE DEF s, at
<1>7. /\ pool \in [Instances -> SUBSET Nonces]
      /\ \A i \in Instances : \A n \in pool[i] : n \in N
  OBVIOUS
<1>8. /\ life' \in [Nonces -> Int]
      /\ \A n \in Nonces : life'[n] = IF n \in N THEN made + l ELSE life[n]
  BY <1>5, <1>6
<1>9. /\ uses' \in [Nonces -> Nat]
      /\ \A n \in Nonces : uses'[n] = IF n \in N /\ made >= life[n] THEN 0 ELSE uses[n]
  BY <1>5, <1>6
<1>10. N \subseteq Nonces
  OBVIOUS
<1>11. /\ state[s] \in ChuteState /\ renewal[s] \in Renewal /\ judged[s] \in [Instances -> Judged]
       /\ VerdictFit(state[s], renewal[s], judged[s])
  BY <1>2, ScopeParts
<1> HIDE DEF N
<1>12. /\ st \in ChuteState /\ st.pool = pool /\ st.issueUntil = at + l - NonceMargin
       /\ st.validUntil = now + l + NonceMargin
       /\ st.generation = state[s].generation /\ st.admitted = state[s].admitted
       /\ st.decided = state[s].decided /\ st.renewalSince = state[s].renewalSince
  <2> DEFINE listed == {i \in Instances : pool[i] # {}}
             i0 == at + l - NonceMargin
             v0 == now + l + NonceMargin
  <2>1. i0 \in Maybe(Int) /\ v0 \in Maybe(Int) /\ listed \subseteq Instances
    BY <1>2, <1>6 DEF Maybe
  <2>2. st = [state[s] EXCEPT !.listed = listed, !.issueUntil = i0, !.validUntil = v0,
                              !.pool = pool]
    BY Zenon DEF Refill
  <2> HIDE DEF pool, st, listed, i0, v0
  <2>3. /\ st \in ChuteState /\ st.pool = pool /\ st.issueUntil = i0 /\ st.validUntil = v0
        /\ st.generation = state[s].generation /\ st.admitted = state[s].admitted
        /\ st.decided = state[s].decided /\ st.renewalSince = state[s].renewalSince
    BY <1>7, <1>11, <2>1, <2>2 DEF ChuteState
  <2> QED BY <2>3 DEF i0, v0
<1> HIDE DEF st, pool
<1>13. PoolFit(st, now, life')
  <2>1. ASSUME NEW i \in Instances, NEW n \in pool[i]
        PROVE  /\ st.validUntil # None
               /\ st.issueUntil + NonceMargin <= life'[n] /\ life'[n] <= st.validUntil
    <3>1. life'[n] = made + l
      BY <1>7, <1>8, <1>10, <2>1
    <3> QED BY <1>2, <1>6, <1>12, <3>1, Numbers
  <2> QED BY <1>12, <2>1 DEF PoolFit
<1>14. VerdictFit(st, renewal[s], judged[s])
  BY <1>11, <1>12 DEF VerdictFit
<1>15. ASSUME NEW x \in Scopes, x # s PROVE PoolFit(state[x], now, life')
  <2>1. state[x] \in ChuteState /\ PoolFit(state[x], now, life)
    BY ScopeParts
  <2>2. ASSUME NEW i \in Instances, NEW n \in state[x].pool[i],
               state[x].issueUntil # None, state[x].issueUntil > now
        PROVE  life'[n] = life[n]
    <3>1. n \in Nonces /\ state[x].issueUntil \in Int
      BY <2>1, <2>2, StateParts DEF Maybe
    <3>2. state[x].issueUntil + NonceMargin <= life[n]
      BY <2>1, <2>2 DEF PoolFit
    <3>3. made < life[n]
      BY <1>6, <2>2, <3>1, <3>2
    <3> QED BY <1>5, <1>8, <3>1, <3>3
  <2> QED BY <2>1, <2>2 DEF PoolFit
<1>16. ScopesInv'
  <2>1. /\ state \in [Scopes -> ChuteState] /\ renewal \in [Scopes -> Renewal]
        /\ judged \in [Scopes -> [Instances -> Judged]]
    BY DEF AdmissionInv, ScopesInv
  <2>2. /\ state' \in [Scopes -> ChuteState]
        /\ \A x \in Scopes : state'[x] = IF x = s THEN st ELSE state[x]
    BY <1>5, <1>12, <2>1
  <2>3. \A x \in Scopes : VerdictFit(state'[x], renewal[x], judged[x])
    BY <1>14, <2>2, ScopeParts
  <2>4. \A x \in Scopes : PoolFit(state'[x], now, life')
    BY <1>13, <1>15, <2>2
  <2> QED BY <1>1, <2>1, <2>2, <2>3, <2>4 DEF ScopesInv
<1>17. NoncesInv'
  <2>1. ASSUME NEW n \in Nonces
        PROVE  /\ uses'[n] <= 1
               /\ uses'[n] > 0 /\ now < life'[n] => ledger[n] # None /\ ledger[n] >= life'[n]
    <3>1. /\ uses[n] <= 1
          /\ uses[n] > 0 /\ now < life[n] => ledger[n] # None /\ ledger[n] >= life[n]
      BY <1>6 DEF LedgerFit
    <3>2. CASE n \in N /\ made >= life[n]
      BY <1>9, <3>2
    <3>3. CASE ~(n \in N /\ made >= life[n])
      <4>1. life'[n] = life[n]
        BY <1>5, <1>6, <1>8, <3>3
      <4> QED BY <1>9, <3>1, <3>3, <4>1
    <3> QED BY <3>2, <3>3
  <2> QED BY <1>1, <1>6, <1>8, <1>9, <2>1 DEF NoncesInv, LedgerFit
<1> QED BY <1>1, <1>3, <1>6, <1>16, <1>17 DEF AdmissionInv

-----------------------------------------------------------------------------
(* renew_while_warm                                                        *)

(* A set of numbers has a least one.                                       *)
LEMMA Least ==
    ASSUME NEW T, T \subseteq Nat, T # {}
    PROVE  \E x \in T : \A y \in T : x <= y
<1> DEFINE R == OpToRel(<, Nat)
<1>1. IsWellFoundedOn(R, Nat)
  BY NatLessThanWellFounded
<1>2. \A x, y \in Nat : y < x => <<y, x>> \in R
  BY DEF OpToRel
<1> HIDE DEF R
<1>3. PICK x \in T : \A y \in T : ~ (<<y, x>> \in R)
  BY <1>1, WFMin
<1>4. ASSUME NEW y \in T PROVE x <= y
  <2>1. ~ (<<y, x>> \in R) /\ x \in Nat /\ y \in Nat
    BY <1>3
  <2>2. ~ (y < x)
    BY <2>1, <1>2
  <2> QED BY <2>1, <2>2
<1> QED BY <1>4

(* What prune leaves admitted runs out at some earliest time, if anything. *)
LEMMA EarliestTyped ==
    ASSUME AdmissionInv, NEW s \in Scopes, Present(Prune(state[s]).admitted) # {}
    PROVE  Earliest(Prune(state[s])) \in Nat
<1> DEFINE st == Prune(state[s])
           T == {st.admitted[i] : i \in Present(st.admitted)}
<1>1. now \in Nat /\ st \in ChuteState /\ \A i \in Instances : st.admitted[i] # None =>
                                            st.admitted[i] > now
  BY ScopeParts, PruneNarrows DEF Narrows
<1> HIDE DEF st
<1>2. st.admitted \in [Instances -> Maybe(Int)]
  BY <1>1, StateParts
<1>3. ASSUME NEW i \in Present(st.admitted) PROVE st.admitted[i] \in Nat
  <2>1. i \in Instances /\ st.admitted[i] # None /\ st.admitted[i] \in Maybe(Int)
    BY <1>2 DEF Present
  <2> QED BY <1>1, <2>1 DEF Maybe
<1>4. T \subseteq Nat /\ T # {}
  BY <1>3 DEF st
<1>5. \E t \in T : \A u \in T : t <= u
  BY <1>4, Least
<1>6. \E t \in T : \A i \in Present(st.admitted) : t <= st.admitted[i]
  BY <1>5
<1>7. Earliest(st) = CHOOSE t \in T : \A i \in Present(st.admitted) : t <= st.admitted[i]
  BY Zenon DEF Earliest
<1>8. Earliest(st) \in T
  BY <1>6, <1>7, Zenon
<1> QED BY <1>4, <1>8 DEF st

(* When a renewal is tried.                                                *)
LEMMA WakeTyped ==
    ASSUME AdmissionInv, NEW s \in Scopes, Present(Prune(state[s]).admitted) # {},
           NEW target \in Targets(s, Prune(state[s]))
    PROVE  target \in Int /\ Wake(Prune(state[s]), target) \in Int
<1> DEFINE st == Prune(state[s])
<1>1. st \in ChuteState
  BY ScopeParts, PruneNarrows DEF Narrows
<1>2. target \in Int
  <2>1. renewal[s].planned \in Maybe(Int)
    BY ScopeParts DEF Renewal
  <2>2. Earliest(st) \in Nat
    BY EarliestTyped
  <2> QED BY <2>1, <2>2, Numbers DEF Targets, Maybe
<1> HIDE DEF st
<1>3. Wake(st, target) \in Int
  <2>1. st.lastRecorded \in Maybe(Int)
    BY <1>1, StateParts
  <2> QED BY <1>2, <2>1, Numbers DEF Wake, Later, Maybe
<1> QED BY <1>2, <1>3 DEF st

(* Renewals that are put off, or given up.                                 *)
LEMMA RenewalRestsInv ==
    ASSUME AdmissionInv, NEW s \in Scopes,
           RenewalStops(s) \/ RenewalPlans(s)
    PROVE  AdmissionInv'
<1> DEFINE st == Prune(state[s])
<1>1. SetState(s, st) /\ UNCHANGED <<now, req, ledger, life, uses, judged>>
  BY DEF RenewalStops, RenewalPlans
<1>2. Narrows(st, state[s])
  BY ScopeParts, PruneNarrows
<1>3. renewal[s] \in Renewal /\ renewal \in [Scopes -> Renewal]
  BY DEF AdmissionInv, ScopesInv
<1>4. ScopesInv'
  <2>1. CASE RenewalStops(s)
    <3>1. NoRenewal \in Renewal /\ NoRenewal.pc = "off"
      BY DEF NoRenewal, Renewal, Maybe
    <3>2. renewal' = [renewal EXCEPT ![s] = NoRenewal]
      BY <2>1 DEF RenewalStops
    <3> HIDE DEF st
    <3> QED BY <1>1, <1>2, <3>1, <3>2, Narrowed
  <2>2. CASE RenewalPlans(s)
    <3>1. PICK target \in Targets(s, st) :
            renewal' = [renewal EXCEPT ![s].planned = target, ![s].wake = Wake(st, target)]
      BY <2>2, Zenon DEF RenewalPlans
    <3>2. Present(st.admitted) # {} /\ renewal[s].pc = "asleep"
      BY <2>2, Zenon DEF RenewalPlans, Awake
    <3>3. target \in Int /\ Wake(st, target) \in Int
      BY <3>2, WakeTyped
    <3> DEFINE w == Wake(st, target)
               r == [renewal[s] EXCEPT !.planned = target, !.wake = w]
    <3> HIDE DEF w, st
    <3>4. r \in Renewal /\ r.pc = "asleep"
      BY <1>3, <3>2, <3>3 DEF Renewal, Maybe, w
    <3>5. renewal' = [renewal EXCEPT ![s] = r]
      BY <1>3, <3>1 DEF w
    <3> HIDE DEF r
    <3> QED BY <1>1, <1>2, <3>4, <3>5, Narrowed
  <2> QED BY <2>1, <2>2
<1>5. RequestsInv' /\ NoncesInv'
  BY <1>1, ReqKept, NoncesKept
<1> QED BY <1>1, <1>4, <1>5 DEF AdmissionInv

(* A renewal fetches evidence, from the generation it finds on; or the     *)
(* call is denied.                                                         *)
LEMMA RenewalFetchesInv ==
    ASSUME AdmissionInv, NEW s \in Scopes, RenewalFetches(s)
    PROVE  AdmissionInv'
<1> DEFINE st == Prune(state[s])
           due == Expiring(st, now + RefreshAhead + RenewJitter)
           r == [pc |-> "fetching", planned |-> None, wake |-> 0, due |-> due,
                 since |-> st.generation, anchor |-> now]
           g == st.generation
           u == [st EXCEPT !.renewalSince = g]
           wake == now + 1
           a == [renewal[s] EXCEPT !.planned = None, !.wake = wake]
<1>1. /\ UNCHANGED <<now, req, ledger, life, uses, judged>> /\ renewal[s].pc = "asleep"
      /\ \/ SetState(s, u) /\ renewal' = [renewal EXCEPT ![s] = r]
         \/ /\ SetState(s, st)
            /\ renewal' = [renewal EXCEPT ![s].planned = None, ![s].wake = now + 1]
  BY Zenon DEF RenewalFetches, Awake
<1>2. Narrows(st, state[s]) /\ st \in ChuteState
  BY ScopeParts, PruneNarrows DEF Narrows
<1>3. /\ renewal[s] \in Renewal /\ renewal \in [Scopes -> Renewal] /\ now \in Nat
      /\ judged[s] \in [Instances -> Judged]
      /\ VerdictFit(state[s], renewal[s], judged[s]) /\ PoolFit(state[s], now, life)
  BY ScopeParts DEF AdmissionInv, ScopesInv
<1>4. VerdictFit(st, renewal[s], judged[s]) /\ PoolFit(st, now, life)
  <2> HIDE DEF st
  <2>1. renewal[s].pc = "fetching" => renewal[s].since \in Nat
    BY <1>1
  <2> QED BY <1>2, <1>3, <2>1, ScopeParts, NarrowFit
<1>5. due \subseteq Instances
  BY DEF Expiring
<1> HIDE DEF st, due
<1>6. g \in Nat
  BY <1>2, StateParts
<1>7. ScopesInv'
  <2>1. ASSUME SetState(s, u), renewal' = [renewal EXCEPT ![s] = r] PROVE ScopesInv'
    <3>1. r \in Renewal /\ r.pc = "fetching" /\ r.since = g
      BY <1>3, <1>5, <1>6 DEF Renewal, Maybe
    <3> HIDE DEF r, g
    <3>2. /\ u \in ChuteState /\ u.pool = st.pool /\ u.issueUntil = st.issueUntil
          /\ u.validUntil = st.validUntil /\ u.generation = st.generation
          /\ u.admitted = st.admitted /\ u.decided = st.decided /\ u.renewalSince = g
      BY <1>2, <1>6 DEF ChuteState, Maybe
    <3> HIDE DEF u
    <3>3. PoolFit(u, now, life)
      BY <1>4, <3>2, PoolSame
    <3>4. ASSUME NEW i \in Instances PROVE ~ (judged[s][i].rejectedAt > r.since)
      <4>1. judged[s][i].rejectedAt <= g
        BY <1>4 DEF VerdictFit, g
      <4>2. judged[s][i].rejectedAt \in Nat
        BY <1>3 DEF Judged
      <4> QED BY <1>6, <3>1, <4>1, <4>2
    <3>5. VerdictFit(u, r, judged[s])
      <4>1. r.since <= u.generation
        BY <1>6, <3>1, <3>2 DEF g
      <4> QED BY <1>4, <3>1, <3>2, <3>4, <4>1 DEF VerdictFit
    <3>6. state' = [state EXCEPT ![s] = u] /\ judged' = [judged EXCEPT ![s] = judged[s]]
      BY <1>1, <2>1 DEF SetState, AdmissionInv, ScopesInv
    <3> QED BY <1>1, <1>3, <2>1, <3>1, <3>2, <3>3, <3>5, <3>6, Stored
  <2>2. ASSUME SetState(s, st),
               renewal' = [renewal EXCEPT ![s].planned = None, ![s].wake = now + 1]
        PROVE  ScopesInv'
    <3>1. a \in Renewal /\ a.pc = "asleep"
      <4>1. wake \in Int
        BY <1>3
      <4> HIDE DEF wake
      <4> QED BY <1>1, <1>3, <4>1 DEF Renewal, Maybe
    <3>2. renewal' = [renewal EXCEPT ![s] = a]
      BY <1>3, <2>2
    <3> HIDE DEF a
    <3> QED BY <1>1, <1>2, <2>2, <3>1, <3>2, Narrowed
  <2> QED BY <1>1, <2>1, <2>2
<1>8. RequestsInv' /\ NoncesInv'
  BY <1>1, ReqKept, NoncesKept
<1> QED BY <1>1, <1>3, <1>7, <1>8 DEF AdmissionInv

(* The renewal's evidence lands: what it admits was not rejected since its *)
(* fetch began.                                                            *)
LEMMA RenewalLandsInv ==
    ASSUME AdmissionInv, NEW s \in Scopes, RenewalLands(s)
    PROVE  AdmissionInv'
<1> DEFINE r == renewal[s]
           since == r.since
           anchor == r.anchor
           st == [state[s] EXCEPT !.renewalSince = None]
           a == [NoRenewal EXCEPT !.pc = "asleep"]
           J == judged[s]
<1>1. /\ r.pc = "fetching" /\ UNCHANGED <<now, req, ledger, life, uses>>
      /\ renewal' = [renewal EXCEPT ![s] = a]
  BY DEF RenewalLands
<1>2. PICK v \in Answers(r.due, anchor) :
        /\ SetState(s, Record(st, v, anchor, since))
        /\ Judge(s, v, since, since)
  BY Zenon DEF RenewalLands, Answers
<1>3. /\ now \in Nat /\ state[s] \in ChuteState /\ J \in [Instances -> Judged]
      /\ VerdictFit(state[s], r, J) /\ PoolFit(state[s], now, life)
      /\ since \in Nat /\ anchor \in Int
  BY ScopeParts DEF Renewal
<1>4. a \in Renewal /\ a.pc = "asleep"
  BY DEF NoRenewal, Renewal, Maybe
<1>5. /\ st \in ChuteState /\ st.pool = state[s].pool /\ st.issueUntil = state[s].issueUntil
      /\ st.validUntil = state[s].validUntil /\ st.generation = state[s].generation
      /\ st.admitted = state[s].admitted /\ st.decided = state[s].decided
  BY <1>3 DEF ChuteState, Maybe
<1> DEFINE j == Judgement(state[s], J, v, since, since)
<1>6. judged' = [judged EXCEPT ![s] = j]
  BY <1>2, Zenon DEF Judge, Judgement
<1>7. j = Judgement(st, J, v, since, since)
  <2> HIDE DEF st
  <2>1. \A i \in Instances : Admits(state[s], v, i, since) <=> Admits(st, v, i, since)
    BY <1>5 DEF Admits, Superseded
  <2> QED BY <1>5, <2>1 DEF Judgement
<1> HIDE DEF a, j, st
<1>8. VerdictFit(st, a, J)
  BY <1>3, <1>4, <1>5 DEF VerdictFit
<1>9. ASSUME NEW i \in Instances, Admits(st, v, i, since)
      PROVE  J[i].rejectedAt <= since
  <2>1. ~ (state[s].decided[i] # None /\ state[s].decided[i] > since)
    BY <1>3, <1>5, <1>9, Numbers DEF Admits, Superseded
  <2>2. ~ (J[i].rejectedAt > since)
    BY <1>1, <1>3, <2>1 DEF VerdictFit
  <2>3. J[i].rejectedAt \in Nat
    BY <1>3 DEF Judged
  <2> QED BY <1>3, <2>2, <2>3
<1> HIDE DEF r, since, anchor, J
<1> DEFINE u == Record(st, v, anchor, since)
<1>10. VerdictFit(u, a, j)
  <2>1. a.pc = "fetching" => a.since \in Nat
    BY <1>4
  <2>2. VerdictFit(u, a, Judgement(st, J, v, since, since))
    BY <1>3, <1>5, <1>8, <1>9, <2>1, RecordFit
  <2> QED BY <1>7, <2>2
<1>11. /\ u \in ChuteState /\ u.pool = st.pool
       /\ u.issueUntil = st.issueUntil /\ u.validUntil = st.validUntil
  BY <1>3, <1>5, RecordForm
<1>12. j \in [Instances -> Judged]
  BY <1>3, <1>5, <1>7, JudgementForm
<1>13. state' = [state EXCEPT ![s] = u]
  BY <1>2 DEF SetState
<1> HIDE DEF u
<1>14. PoolFit(u, now, life)
  BY <1>3, <1>5, <1>11, PoolSame
<1>15. ScopesInv'
  BY <1>1, <1>4, <1>6, <1>10, <1>11, <1>12, <1>13, <1>14, Stored
<1>16. RequestsInv' /\ NoncesInv'
  BY <1>1, ReqKept, NoncesKept
<1> QED BY <1>1, <1>3, <1>15, <1>16 DEF AdmissionInv

(* The renewal's call fails: what was admitted stays.                      *)
LEMMA RenewalFailsInv ==
    ASSUME AdmissionInv, NEW s \in Scopes, RenewalFails(s)
    PROVE  AdmissionInv'
<1> DEFINE wake == now + 1
           a == [NoRenewal EXCEPT !.pc = "asleep", !.wake = wake]
           u == [state[s] EXCEPT !.renewalSince = None]
<1>1. /\ SetState(s, u) /\ renewal' = [renewal EXCEPT ![s] = a]
      /\ UNCHANGED <<now, req, ledger, life, uses, judged>>
  BY DEF RenewalFails
<1>2. /\ now \in Nat /\ state[s] \in ChuteState /\ judged[s] \in [Instances -> Judged]
      /\ VerdictFit(state[s], renewal[s], judged[s]) /\ PoolFit(state[s], now, life)
  BY ScopeParts
<1>3. wake \in Int
  BY <1>2
<1> HIDE DEF wake
<1>4. a \in Renewal /\ a.pc = "asleep"
  <2>1. NoRenewal \in Renewal
    BY DEF NoRenewal, Renewal, Maybe
  <2> QED BY <1>3, <2>1 DEF Renewal
<1>5. /\ u \in ChuteState /\ u.pool = state[s].pool /\ u.issueUntil = state[s].issueUntil
      /\ u.validUntil = state[s].validUntil /\ u.generation = state[s].generation
      /\ u.admitted = state[s].admitted /\ u.decided = state[s].decided
  BY <1>2 DEF ChuteState, Maybe
<1> HIDE DEF a, u
<1>6. VerdictFit(u, a, judged[s])
  BY <1>2, <1>4, <1>5 DEF VerdictFit
<1>7. PoolFit(u, now, life)
  BY <1>2, <1>5, PoolSame
<1>8. state' = [state EXCEPT ![s] = u] /\ judged' = [judged EXCEPT ![s] = judged[s]]
  BY <1>1 DEF SetState, AdmissionInv, ScopesInv
<1>9. ScopesInv'
  BY <1>1, <1>2, <1>4, <1>5, <1>6, <1>7, <1>8, Stored
<1>10. RequestsInv' /\ NoncesInv'
  BY <1>1, ReqKept, NoncesKept
<1> QED BY <1>1, <1>2, <1>9, <1>10 DEF AdmissionInv

-----------------------------------------------------------------------------
(* The invariant                                                           *)

(* Time passes: pools stop issuing, nonces die, entries of the ledger are  *)
(* past.                                                                   *)
LEMMA TickInv ==
    ASSUME AdmissionInv, Tick
    PROVE  AdmissionInv'
<1>1. now' = now + 1 /\ UNCHANGED <<state, renewal, req, ledger, life, uses, judged>>
  BY DEF Tick
<1>2. now \in Nat
  BY DEF AdmissionInv
<1>3. ASSUME NEW s \in Scopes
      PROVE  VerdictFit(state[s], renewal[s], judged[s]) /\ PoolFit(state[s], now + 1, life)
  <2>1. /\ VerdictFit(state[s], renewal[s], judged[s]) /\ PoolFit(state[s], now, life)
        /\ state[s] \in ChuteState
    BY ScopeParts
  <2>2. ASSUME state[s].issueUntil # None, state[s].issueUntil > now + 1
        PROVE  state[s].issueUntil > now
    <3>1. state[s].issueUntil \in Int
      BY <2>1, <2>2, StateParts DEF Maybe
    <3> QED BY <1>2, <2>2, <3>1
  <2> QED BY <2>1, <2>2 DEF PoolFit
<1>4. ScopesInv'
  BY <1>1, <1>3 DEF AdmissionInv, ScopesInv
<1>5. LedgerFit(now + 1, ledger, life, uses)
  <2>1. LedgerFit(now, ledger, life, uses) /\ life \in [Nonces -> Int]
    BY DEF AdmissionInv, NoncesInv
  <2>2. \A n \in Nonces : now + 1 < life[n] => now < life[n]
    BY <1>2, <2>1
  <2> QED BY <2>1, <2>2 DEF LedgerFit
<1>6. NoncesInv'
  BY <1>1, <1>5 DEF AdmissionInv, NoncesInv
<1>7. RequestsInv' /\ now' \in Nat
  BY <1>1, <1>2, ReqKept
<1> QED BY <1>4, <1>6, <1>7 DEF AdmissionInv

(* At first there is no verdict, no pool, no request and no ticket.        *)
LEMMA AdmissionInit ==
    ASSUME Init
    PROVE  AdmissionInv
<1>1. Nowhere \in [Instances -> Maybe(Int)] /\ Nowhere \in [Instances -> Maybe(Nat)]
      /\ \A i \in Instances : Nowhere[i] = None
  BY DEF Nowhere, Maybe
<1>2. /\ EmptyState \in ChuteState /\ EmptyState.admitted = Nowhere
      /\ EmptyState.issueUntil = None
  BY <1>1 DEF EmptyState, ChuteState, Maybe
<1>3. NoRenewal \in Renewal /\ NoRenewal.pc = "off"
  BY DEF NoRenewal, Renewal, Maybe
<1> DEFINE J == [i \in Instances |-> Unjudged]
<1>4. J \in [Instances -> Judged] /\ \A i \in Instances : J[i].rejectedAt = 0
  BY DEF Unjudged, Judged
<1>5. EmptyState.generation = 0
  BY DEF EmptyState
<1> HIDE DEF J
<1>6. VerdictFit(EmptyState, NoRenewal, J) /\ PoolFit(EmptyState, 0, life)
  BY <1>1, <1>2, <1>3, <1>4, <1>5 DEF VerdictFit, PoolFit
<1>7. /\ now = 0 /\ state = [s \in Scopes |-> EmptyState]
      /\ renewal = [s \in Scopes |-> NoRenewal] /\ judged = [s \in Scopes |-> J]
      /\ req = [q \in Requests |-> NoRequest]
  BY DEF Init, J
<1>8. ScopesInv
  BY <1>2, <1>3, <1>4, <1>6, <1>7 DEF ScopesInv
<1>9. RequestsInv
  BY <1>7, NoRequestTyped DEF RequestsInv
<1>10. NoncesInv
  BY DEF Init, NoncesInv, LedgerFit, Maybe
<1> QED BY <1>7, <1>8, <1>9, <1>10 DEF AdmissionInv

(* A step that cuts no ticket leaves every request without a new one.      *)
LEMMA NoGrant ==
    ASSUME AdmissionInv, NEW q \in Requests, NEW r,
           SetReq(q, r), r.pc # "invoke", NEW x \in Requests
    PROVE  ~ Granted(x)
<1>1. req \in [Requests -> Request]
  BY DEF AdmissionInv, RequestsInv
<1>2. req'[x] = IF x = q THEN r ELSE req[x]
  BY <1>1 DEF SetReq
<1> QED BY <1>2 DEF Granted

(* The only steps that give a request a ticket are the two that cut one.   *)
LEMMA OnlyTickets ==
    ASSUME AdmissionInv, [Next]_vars, NEW x \in Requests, Granted(x)
    PROVE  \E q \in Requests : IssueTicket(q) \/ RetryTicket(q)
<1>1. req' # req
  BY DEF Granted
<1> SUFFICES ASSUME \A q \in Requests : ~ IssueTicket(q) /\ ~ RetryTicket(q)
             PROVE  FALSE
  OBVIOUS
<1> DEFINE Still(q) == \E r : SetReq(q, r) /\ r.pc # "invoke"
<1>2. ASSUME NEW q \in Requests, Still(q) PROVE FALSE
  BY <1>2, NoGrant
<1>3. ASSUME NEW q \in Requests, SetReq(q, NoRequest) PROVE Still(q)
  BY <1>3, NoRequestTyped
<1>4. req \in [Requests -> Request]
  BY DEF AdmissionInv, RequestsInv
<1>5. ASSUME NEW q \in Requests, NEW s \in Scopes, Ask(q, s) PROVE Still(q)
  <2>1. SetReq(q, [NoRequest EXCEPT !.pc = "wait", !.scope = s])
    BY <1>5 DEF Ask
  <2>2. [NoRequest EXCEPT !.pc = "wait", !.scope = s].pc = "wait"
    BY DEF NoRequest
  <2> QED BY <2>1, <2>2
<1>6. ASSUME NEW q \in Requests, Abandon(q) PROVE Still(q)
  <2>1. SetReq(q, [req[q] EXCEPT !.abandoned = TRUE]) /\ req[q].pc # "invoke"
    BY <1>6 DEF Abandon, Locking
  <2>2. [req[q] EXCEPT !.abandoned = TRUE].pc = req[q].pc
    BY <1>4 DEF Request
  <2> QED BY <2>1, <2>2
<1>7. ASSUME NEW q \in Requests, Lock(q) PROVE Still(q)
  <2>1. SetReq(q, [req[q] EXCEPT !.pc = "issue"])
    BY <1>7 DEF Lock
  <2>2. [req[q] EXCEPT !.pc = "issue"].pc = "issue"
    BY <1>4 DEF Request
  <2> QED BY <2>1, <2>2
<1>8. ASSUME NEW q \in Requests, Panic(q) PROVE Still(q)
  <2> DEFINE r == [NoRequest EXCEPT !.pc = "invalidate", !.scope = req[q].scope]
  <2>1. SetReq(q, r) \/ SetReq(q, NoRequest)
    BY <1>8 DEF Panic
  <2>2. r.pc = "invalidate"
    BY DEF NoRequest
  <2> QED BY <1>3, <2>1, <2>2
<1>9. ASSUME NEW q \in Requests, IssueAdmit(q) PROVE Still(q)
  <2> DEFINE b == Batch(q, Searched(q))
             c == req[q].admissions + 1
             r == [req[q] EXCEPT !.pc = "admit", !.admissions = c, !.batch = b, !.at = now]
  <2>1. SetReq(q, r)
    BY <1>9 DEF IssueAdmit
  <2> HIDE DEF b, c
  <2>2. r.pc = "admit"
    BY <1>4 DEF Request
  <2> QED BY <2>1, <2>2
<1>10. ASSUME NEW q \in Requests, IssueDiscover(q) PROVE Still(q)
  <2> DEFINE c == req[q].discoveries + 1
             r == [req[q] EXCEPT !.pc = "discover", !.discoveries = c, !.at = now]
  <2>1. SetReq(q, r)
    BY <1>10 DEF IssueDiscover
  <2> HIDE DEF c
  <2>2. r.pc = "discover"
    BY <1>4 DEF Request
  <2> QED BY <2>1, <2>2
<1>11. ASSUME NEW q \in Requests, AdmitReturns(q) PROVE Still(q)
  <2> DEFINE r(w) == [req[q] EXCEPT !.pc = "issue", !.batch = {}, !.at = 0, !.unevidenced = w]
  <2>1. PICK w : SetReq(q, r(w))
    BY <1>11, Zenon DEF AdmitReturns
  <2>2. r(w).pc = "issue"
    BY <1>4 DEF Request
  <2> QED BY <2>1, <2>2
<1>12. ASSUME NEW q \in Requests, DiscoverReturns(q) PROVE Still(q)
  <2> DEFINE r == [req[q] EXCEPT !.pc = "issue", !.at = 0]
  <2>1. SetReq(q, r)
    BY <1>12 DEF DiscoverReturns
  <2>2. r.pc = "issue"
    BY <1>4 DEF Request
  <2> QED BY <2>1, <2>2
<1>13. ASSUME NEW q \in Requests,
              \/ GiveUp(q) \/ IssueLedgerFull(q) \/ IssueFails(q) \/ CallFails(q)
              \/ Invalidate(q) \/ Answered(q) \/ RetryNone(q)
       PROVE  Still(q)
  <2>1. SetReq(q, NoRequest)
    BY <1>13 DEF GiveUp, IssueLedgerFull, IssueFails, CallFails, Invalidate, Answered,
                 RetryNone, Fail
  <2> QED BY <1>3, <2>1
<1> HIDE DEF Still
<1>14. ASSUME NEW s \in Scopes, Renewing(s) \/ Evict(s) PROVE req' = req
  BY <1>14 DEF Renewing, Evict, RenewalStops, RenewalPlans, RenewalFetches, RenewalLands,
               RenewalFails
<1>15. CASE Next
  <2>1. ~ Tick
    BY <1>1 DEF Tick
  <2>2. PICK q \in Requests :
          \/ \E s \in Scopes : Ask(q, s)
          \/ Working(q) \/ Abandon(q) \/ Panic(q)
          \/ Answered(q) \/ RetryTicket(q) \/ RetryNone(q)
    BY <1>1, <1>14, <1>15, <2>1 DEF Next
  <2>3. Still(q)
    BY <1>5, <1>6, <1>7, <1>8, <1>9, <1>10, <1>11, <1>12, <1>13, <2>2 DEF Working
  <2> QED BY <1>2, <2>3
<1>16. CASE UNCHANGED vars
  BY <1>1, <1>16 DEF vars
<1> QED BY <1>15, <1>16

(* Every step keeps the invariant.                                         *)
LEMMA AdmissionStep ==
    ASSUME AdmissionInv, [Next]_vars
    PROVE  AdmissionInv'
<1>1. CASE UNCHANGED vars
  <2>1. UNCHANGED <<now, state, renewal, req, ledger, life, uses, judged>>
    BY <1>1 DEF vars
  <2> QED BY <2>1, ScopesKept, ReqKept, NoncesKept DEF AdmissionInv
<1>2. ASSUME NEW q \in Requests, NEW s \in Scopes, Ask(q, s) PROVE AdmissionInv'
  BY <1>2, WaitsInv
<1>3. ASSUME NEW q \in Requests, Working(q) PROVE AdmissionInv'
  <2>1. CASE Lock(q) \/ GiveUp(q)
    BY <2>1, WaitsInv
  <2>2. CASE IssueTicket(q) \/ IssueLedgerFull(q)
    BY <2>2, IssueTicketInv, LedgerFullInv
  <2>3. CASE IssueAdmit(q) \/ IssueDiscover(q)
    BY <2>3, IssueCallsInv
  <2>4. CASE IssueFails(q) \/ CallFails(q)
    BY <2>4, IssueEndsInv
  <2>5. CASE AdmitReturns(q) \/ DiscoverReturns(q)
    BY <2>5, AdmitReturnsInv, DiscoverReturnsInv
  <2>6. CASE Invalidate(q)
    BY <2>6, DropsInv
  <2> QED BY <1>3, <2>1, <2>2, <2>3, <2>4, <2>5, <2>6 DEF Working
<1>4. ASSUME NEW q \in Requests, Abandon(q) \/ Panic(q) \/ Answered(q) PROVE AdmissionInv'
  BY <1>4, WaitsInv
<1>5. ASSUME NEW q \in Requests, RetryTicket(q) \/ RetryNone(q) PROVE AdmissionInv'
  BY <1>5, RetryTicketInv, RetryNoneInv
<1>6. ASSUME NEW s \in Scopes, Renewing(s) PROVE AdmissionInv'
  BY <1>6, RenewalRestsInv, RenewalFetchesInv, RenewalLandsInv, RenewalFailsInv DEF Renewing
<1>7. ASSUME NEW s \in Scopes, Evict(s) PROVE AdmissionInv'
  BY <1>7, DropsInv
<1> QED BY <1>1, <1>2, <1>3, <1>4, <1>5, <1>6, <1>7, TickInv DEF Next

-----------------------------------------------------------------------------
(* What this says of every behaviour                                       *)

(* Scopes, requests and nonces keep their invariants in every behaviour.   *)
THEOREM Invariance == Spec => []AdmissionInv
<1>1. Init => AdmissionInv
  BY AdmissionInit
<1>2. AdmissionInv /\ [Next]_vars => AdmissionInv'
  BY AdmissionStep
<1> QED BY <1>1, <1>2, PTL DEF Spec

(* Every variable keeps its type (ChuteState, NonceLedger, Issuer).        *)
THEOREM TypesKept == Spec => []TypeOK
<1>1. AdmissionInv => TypeOK
  BY DEF AdmissionInv, ScopesInv, RequestsInv, NoncesInv, TypeOK
<1> QED BY <1>1, Invariance, PTL

(* A renewal that began before a rejection was recorded never undoes it,   *)
(* however late it lands (ChuteState::record and prune).                   *)
THEOREM RejectionsStand == Spec => []LaterRejectionWins
<1>1. AdmissionInv => LaterRejectionWins
  BY DEF AdmissionInv, ScopesInv, VerdictFit, LaterRejectionWins
<1> QED BY <1>1, Invariance, PTL

(* No nonce is issued twice while Chutes accepts it, under any credentials *)
(* (NonceLedger, ChuteState::refill and take_ticket).                      *)
THEOREM NoncesFresh == Spec => []NoncesOnce
<1>1. AdmissionInv => NoncesOnce
  BY DEF AdmissionInv, NoncesInv, LedgerFit, NoncesOnce
<1> QED BY <1>1, Invariance, PTL

(* A ticket is cut from a nonce that outlives the margin, for an instance  *)
(* whose evidence has not expired and that has not turned the request away *)
(* (ChuteState::take_ticket, deadline and refill).                         *)
THEOREM TicketsCutSound == Spec => TicketsSound
<1>1. AdmissionInv /\ [Next]_vars => [\A q \in Requests : TicketSound(q)]_vars
  <2> SUFFICES ASSUME AdmissionInv, [Next]_vars, NEW x \in Requests
               PROVE  TicketSound(x)
    OBVIOUS
  <2>1. CASE ~ Granted(x)
    BY <2>1 DEF TicketSound
  <2>2. CASE Granted(x)
    <3>1. PICK q \in Requests : IssueTicket(q) \/ RetryTicket(q)
      BY <2>2, OnlyTickets
    <3>2. TicketSound(q)
      BY <3>1, IssueTicketInv, RetryTicketInv
    <3>3. x = q
      <4>1. PICK r : SetReq(q, r)
        BY <3>1, Zenon DEF IssueTicket, RetryTicket
      <4>2. x # q => req'[x] = req[x]
        BY <4>1 DEF SetReq, AdmissionInv, RequestsInv
      <4> QED BY <2>2, <4>2 DEF Granted
    <3> QED BY <3>2, <3>3
  <2> QED BY <2>1, <2>2
<1> QED BY <1>1, Invariance, PTL DEF Spec, TicketsSound

=============================================================================
