---------------------------- MODULE DeployProofs ----------------------------
(***************************************************************************)
(* Proofs about Deploy, for any number of gmcli processes, names, CVMs,    *)
(* rows, commands, faults and versions of the keys: worker records and     *)
(* registry rows say the truth about the CVMs they name, live rows never   *)
(* share a node secret, and the secret a running CVM enforces stays on     *)
(* record.                                                                 *)
(*                                                                         *)
(* The predicates below take the stores they speak of as arguments, R for  *)
(* the records, l for the legacy secret, C for the CVMs, W for the rows, E *)
(* for the secrets let go of and P for the sessions, so that one speaks of *)
(* the state before a step and of the one after it alike.                  *)
(***************************************************************************)
EXTENDS Deploy, FiniteSetTheorems, SequenceTheorems, WellFoundedInduction, TLAPS

(* Where a session has got to.                                             *)
Early == {"guard", "name", "prepare"}
Late == {"launch", "boot", "app", "register", "save"}
Image == {"image", "post"}
Removing == {"drop", "delete", "forget"}

(* What keeps the operator's other commands off a name.                    *)
Active(s) == s.pc \in Early \cup Late \cup Image \cup {"imagesave"}

(* Live rows, and those of them that are not the oldest.                   *)
LiveIn(W) == {w \in DOMAIN W : W[w].live}
Later(W, w) == w \in LiveIn(W) /\ \E v \in LiveIn(W) : v < w

(* CVMs that are up, and that have a name.                                 *)
UpIn(C) == {a \in AppIds : C[a] # None}
Named(C, n) == {a \in UpIn(C) : C[a].name = n}

(* The record is that of the live row w, or of a worker added but not yet  *)
(* known by its id: deploy and register-image refuse it while w is not the *)
(* oldest live row.                                                        *)
IsOf(r, w) == r.worker = w \/ (r.worker = 0 /\ r.secondary)

-----------------------------------------------------------------------------
(* The stores                                                              *)

(* A record is true of the CVM it names, if that CVM is up.                *)
RecordFit(r, n, C) ==
    /\ r.secret # 0
    /\ r.worker = 0 /\ r.secondary => r.secret # Legacy
    /\ r.app \in UpIn(C) => /\ C[r.app].name = n /\ r.secret = C[r.app].secret
                            /\ r.slots \in {0, C[r.app].keys}

FileFit(R, C) == \A n \in Names : R[n] # None => RecordFit(R[n], n, C)

(* A live row is true of the CVM it names, and shares its secret with no   *)
(* other; the secret of a later row is never the legacy one.               *)
RowsFit(W, C) ==
    /\ \A w \in LiveIn(W) : W[w].cvm \in UpIn(C) =>
          /\ W[w].sent => W[w].secret = C[W[w].cvm].secret
          /\ W[w].slots \in {0, C[W[w].cvm].keys}
    /\ \A v, w \in LiveIn(W) : v # w => W[v].secret # W[w].secret \/ W[v].secret = 0
    /\ \A w \in LiveIn(W) : Later(W, w) => W[w].secret \notin {0, Legacy}

(* Whose record has the secret of a later row is the worker of that row;   *)
(* an added worker that has not launched anything has no row.              *)
RecordRows(r, W) ==
    \A w \in LiveIn(W) :
        /\ Later(W, w) /\ r.secret = W[w].secret => IsOf(r, w)
        /\ r.worker = 0 /\ r.app = 0 /\ r.secondary => r.secret # W[w].secret

FileRows(R, W) == \A n \in Names : R[n] # None => RecordRows(R[n], W)

(* While the legacy secret is kept, there is no other.                     *)
LegacyFit(R, l, C) ==
    l # 0 => (\A n \in Names : R[n] = None) /\ (\A a \in UpIn(C) : C[a].secret = Legacy)

(* The secret is on record, or was let go of.                              *)
Known(x, R, l, E) == x \in E \/ x = l \/ \E n \in Names : R[n] # None /\ R[n].secret = x

CvmsKnown(R, l, C, E) == \A a \in UpIn(C) : Known(C[a].secret, R, l, E)

-----------------------------------------------------------------------------
(* One session                                                             *)

(* What its place says of what a session knows.                            *)
Shape(s) ==
    /\ s.pc # "idle" => s.name \in Names
    /\ s.pc \notin Late \cup {"imagesave"} => s.rec = None
    /\ s.pc \in Late \cup {"imagesave"} => s.rec # None /\ s.seen = None
    /\ s.pc \in Removing \cup {"idle"} => s.seen = None /\ s.legacy = 0
    /\ s.add => s.pc \in Early \cup Late
    /\ s.seen # None => s.seen.secret # 0
    /\ s.add /\ s.seen # None => /\ s.seen.worker = 0 /\ s.seen.app = 0
                                 /\ s.seen.secondary /\ s.seen.secret # Legacy
    /\ s.pc \in Late => s.rec.secret # 0 /\ (s.add => s.rec.secret # Legacy)
    /\ s.pc \in Late \ {"save"} => s.rec.secondary = s.add /\ (s.add => s.rec.worker = 0)
    /\ s.pc \in {"launch", "boot"} => s.rec.app = 0
    /\ s.pc \in {"save", "imagesave"} => ~s.rec.secondary
    /\ s.pc = "launch" => s.rec.slots = s.keys

(* The record of its name is the one it saw or has saved itself.           *)
OnFile(s, R) ==
    Active(s) /\ R[s.name] # None =>
        /\ s.seen # None => R[s.name] = s.seen
        /\ s.pc \in Early => s.seen # None
        /\ s.pc \in Image /\ s.legacy # 0 => s.seen # None
        /\ s.rec # None /\ s.rec.secret # 0 => R[s.name].secret = s.rec.secret
        /\ s.pc = "register" => R[s.name] = s.rec
        /\ s.pc = "save" \/ (s.pc = "imagesave" /\ s.rec.secret # 0) =>
              R[s.name].app = s.rec.app

(* The CVM it launched, or registers, is up and is what it takes it for.   *)
OnCvm(s, C) ==
    /\ s.pc = "boot" => \A a \in Named(C, s.name) :
          C[a].secret = s.rec.secret /\ C[a].keys = s.rec.slots
    /\ s.pc \in {"app", "register", "save"} =>
          /\ s.rec.app \in Named(C, s.name)
          /\ C[s.rec.app].secret = s.rec.secret /\ C[s.rec.app].keys = s.rec.slots
    /\ s.pc \in Image =>
          /\ s.app \in Named(C, s.name)
          /\ s.seen # None => /\ s.seen.app = s.app /\ s.seen.secret = C[s.app].secret
                              /\ s.seen.slots \in {0, C[s.app].keys}
          /\ s.seen = None /\ s.legacy # 0 => C[s.app].secret = Legacy
    /\ s.pc = "imagesave" =>
          /\ s.rec.app \in Named(C, s.name) /\ s.rec.slots \in {0, C[s.rec.app].keys}
          /\ s.rec.secret # 0 => s.rec.secret = C[s.rec.app].secret

(* It will not put the secret of a later row into another one.             *)
OnRows(s, W) ==
    /\ s.seen # None /\ ~s.add => \A w \in LiveIn(W) :
          Later(W, w) /\ s.seen.secret = W[w].secret =>
              s.pc \in {"guard", "image"} /\ IsOf(s.seen, w)
    /\ s.rec # None /\ ~s.add => \A w \in LiveIn(W) :
          Later(W, w) => s.rec.secret # W[w].secret
    /\ s.seen # None /\ s.add => \A w \in LiveIn(W) : s.seen.secret # W[w].secret
    /\ s.rec # None /\ s.add => \A w \in LiveIn(W) :
          s.rec.secret = W[w].secret => s.pc = "save" /\ w = s.rec.worker

(* While the legacy secret is kept, it knows no other.                     *)
OnLegacy(s, l) ==
    l # 0 /\ Active(s) => /\ ~s.add /\ s.seen = None
                          /\ s.rec = None => s.legacy = Legacy
                          /\ s.rec # None => s.rec.secret = Legacy

(* What it knows is known.                                                 *)
OnRecord(s, R, l, E) ==
    /\ s.seen # None => Known(s.seen.secret, R, l, E)
    /\ s.rec # None /\ s.rec.secret # 0 => Known(s.rec.secret, R, l, E)
    /\ s.legacy # 0 => Known(Legacy, R, l, E)

SessionFit(s, R, l, C, W, E) ==
    /\ Shape(s) /\ OnFile(s, R) /\ OnCvm(s, C) /\ OnRows(s, W)
    /\ OnLegacy(s, l) /\ OnRecord(s, R, l, E)

-----------------------------------------------------------------------------
(* The sessions                                                            *)

(* No two commands work on one name.                                       *)
Alone(P) ==
    \A p, q \in Procs : p # q /\ Active(P[p]) /\ Active(P[q]) => P[p].name # P[q].name

(* A secret other than the legacy one belongs to one name.                 *)
Has(s, x) == (s.seen # None /\ s.seen.secret = x) \/ (s.rec # None /\ s.rec.secret = x)

Holds(R, P, n, x) ==
    (R[n] # None /\ R[n].secret = x) \/ \E p \in Procs : P[p].name = n /\ Has(P[p], x)

Owned(R, P) ==
    \A n, m \in Names, x \in Nat \ {0, Legacy} :
        Holds(R, P, n, x) /\ Holds(R, P, m, x) => n = m

(* What is true of the stores.                                             *)
StoresFit(R, l, C, W, E) ==
    /\ FileFit(R, C) /\ RowsFit(W, C) /\ FileRows(R, W)
    /\ LegacyFit(R, l, C) /\ CvmsKnown(R, l, C, E)

(* The inductive invariant.                                                *)
DeployInv ==
    /\ TypeOK
    /\ StoresFit(recs, legacy, cvms, rows, released)
    /\ \A p \in Procs : SessionFit(proc[p], recs, legacy, cvms, rows, released)
    /\ Alone(proc) /\ Owned(recs, proc)

-----------------------------------------------------------------------------
(* Numbers and sets                                                        *)

(* None is no record, no CVM and no name.                                  *)
LEMMA NoneApart ==
    /\ None \notin WorkerRecords /\ None \notin Cvms /\ None \notin Names
    /\ First \in Names /\ MaxCvms \in Nat /\ IsFiniteSet(Procs) /\ IsFiniteSet(Names)
BY DeployAssumption, NoneAssumption

(* A set of numbers has a least one, and that is its Min.                  *)
LEMMA MinForm ==
    ASSUME NEW T, T \subseteq Nat, T # {}
    PROVE  Min(T) \in T /\ \A y \in T : Min(T) <= y
<1> DEFINE Q == OpToRel(<, Nat)
<1>1. IsWellFoundedOn(Q, Nat)
  BY NatLessThanWellFounded
<1>2. \A x, y \in Nat : y < x => <<y, x>> \in Q
  BY DEF OpToRel
<1> HIDE DEF Q
<1>3. PICK x \in T : \A y \in T : ~ (<<y, x>> \in Q)
  BY <1>1, WFMin
<1>4. ASSUME NEW y \in T PROVE x <= y
  <2>1. ~ (<<y, x>> \in Q) /\ x \in Nat /\ y \in Nat
    BY <1>3
  <2>2. ~ (y < x)
    BY <2>1, <1>2
  <2> QED BY <2>1, <2>2
<1>5. \E z \in T : \A y \in T : z <= y
  BY <1>4
<1> QED BY <1>5, Zenon DEF Min

(* The rows, as a function of their ids.                                   *)
LEMMA RowsForm ==
    ASSUME NEW W \in Seq(Rows)
    PROVE  /\ Len(W) \in Nat /\ LiveIn(W) \subseteq 1 .. Len(W)
           /\ \A w \in LiveIn(W) : w \in Nat /\ w # 0 /\ W[w] \in Rows
<1>1. DOMAIN W = 1 .. Len(W) /\ Len(W) \in Nat /\ \A w \in 1 .. Len(W) : W[w] \in Rows
  OBVIOUS
<1> QED BY <1>1 DEF LiveIn

(* first_live_worker_id.                                                   *)
LEMMA FirstLiveForm ==
    ASSUME TypeOK
    PROVE  /\ Live = LiveIn(rows) /\ FirstLive \in Nat
           /\ Live = {} => FirstLive = 0
           /\ Live # {} => FirstLive \in Live /\ \A v \in Live : FirstLive <= v
<1>1. Live = LiveIn(rows)
  BY DEF Live, LiveIn
<1>2. Live \subseteq Nat
  BY <1>1, RowsForm DEF TypeOK
<1>3. CASE Live = {}
  BY <1>1, <1>3 DEF FirstLive
<1>4. CASE Live # {}
  <2>1. FirstLive = Min(Live)
    BY <1>4 DEF FirstLive
  <2> QED BY <1>1, <1>2, <1>4, <2>1, MinForm
<1> QED BY <1>3, <1>4

(* is_secondary_live knows the record of a later row.                      *)
LEMMA SecondaryForm ==
    ASSUME TypeOK, NEW r \in WorkerRecords, NEW w, Later(rows, w), IsOf(r, w)
    PROVE  IsSecondary(r)
<1>1. PICK v \in Live : v < w /\ w \in Live
  BY FirstLiveForm DEF Later
<1>2. v \in Nat /\ w \in Nat /\ w # 0 /\ FirstLive \in Nat /\ FirstLive <= v
  BY <1>1, FirstLiveForm, RowsForm DEF TypeOK
<1>3. w # FirstLive
  BY <1>1, <1>2
<1> QED BY <1>1, <1>2, <1>3 DEF IsOf, IsSecondary

(* A function takes finitely many values on a finite set.                  *)
LEMMA ImageFinite ==
    ASSUME NEW S, IsFiniteSet(S), NEW f, f = [x \in S |-> f[x]]
    PROVE  IsFiniteSet({f[x] : x \in S})
<1> DEFINE T == {f[x] : x \in S}
<1>1. f \in Surjection(S, T)
  BY DEF Surjection
<1> QED BY <1>1, FS_Surjection

(* The secrets in use are finitely many numbers.                           *)
LEMMA SecretsFinite ==
    ASSUME TypeOK
    PROVE  IsFiniteSet(SecretsInUse) /\ Legacy \in SecretsInUse
<1> DEFINE N == {n \in Names : Tracked(n)}
           Q == {p \in Procs : proc[p].rec # None}
           S == {p \in Procs : proc[p].seen # None}
           A == {recs[n].secret : n \in N}
           B == {cvms[a].secret : a \in Up}
           D == {rows[w].secret : w \in Live}
           F == {proc[p].rec.secret : p \in Q}
           G == {proc[p].seen.secret : p \in S}
<1>1. IsFiniteSet(N) /\ IsFiniteSet(Q) /\ IsFiniteSet(S)
  BY NoneApart, FS_Subset
<1>2. IsFiniteSet(Up)
  <2>1. IsFiniteSet(AppIds)
    BY NoneApart, FS_Interval DEF AppIds
  <2> QED BY <2>1, FS_Subset DEF Up
<1>3. IsFiniteSet(Live)
  <2>1. Live \subseteq 1 .. Len(rows) /\ Len(rows) \in Nat
    BY FirstLiveForm, RowsForm DEF TypeOK
  <2>2. IsFiniteSet(1 .. Len(rows))
    BY <2>1, FS_Interval
  <2> QED BY <2>1, <2>2, FS_Subset
<1> HIDE DEF N, Q, S
<1>4. IsFiniteSet(A) /\ IsFiniteSet(B) /\ IsFiniteSet(D) /\ IsFiniteSet(F) /\ IsFiniteSet(G)
  <2> DEFINE a == [n \in N |-> recs[n].secret]
             b == [x \in Up |-> cvms[x].secret]
             d == [w \in Live |-> rows[w].secret]
             f == [p \in Q |-> proc[p].rec.secret]
             g == [p \in S |-> proc[p].seen.secret]
  <2>1. IsFiniteSet({a[n] : n \in N}) /\ IsFiniteSet({b[x] : x \in Up})
    BY <1>1, <1>2, ImageFinite
  <2>2. IsFiniteSet({d[w] : w \in Live})
    BY <1>3, ImageFinite
  <2>3. IsFiniteSet({f[p] : p \in Q}) /\ IsFiniteSet({g[p] : p \in S})
    BY <1>1, ImageFinite
  <2>4. /\ {a[n] : n \in N} = A /\ {b[x] : x \in Up} = B /\ {d[w] : w \in Live} = D
        /\ {f[p] : p \in Q} = F /\ {g[p] : p \in S} = G
    OBVIOUS
  <2> QED BY <2>1, <2>2, <2>3, <2>4
<1>5. IsFiniteSet({legacy, Legacy})
  <2>1. IsFiniteSet({legacy}) /\ IsFiniteSet({Legacy})
    BY FS_Singleton
  <2>2. IsFiniteSet({legacy} \cup {Legacy})
    BY <2>1, FS_Union
  <2>3. {legacy} \cup {Legacy} = {legacy, Legacy}
    OBVIOUS
  <2> QED BY <2>2, <2>3
<1>6. SecretsInUse = A \cup B \cup D \cup {legacy, Legacy} \cup F \cup G
  BY DEF SecretsInUse, N, Q, S
<1> HIDE DEF A, B, D, F, G
<1>7. IsFiniteSet(A \cup B \cup D \cup {legacy, Legacy} \cup F \cup G)
  BY <1>4, <1>5, FS_Union
<1> QED BY <1>6, <1>7

(* node_secret::generate: a secret that is nowhere in use.                 *)
LEMMA FreshForm ==
    ASSUME TypeOK
    PROVE  Fresh \in Nat \ {0, Legacy} /\ Fresh \notin SecretsInUse
<1> DEFINE S == SecretsInUse
           k == Cardinality(S)
           T == 1 .. k + 1
<1>1. IsFiniteSet(S) /\ Legacy \in S
  BY SecretsFinite
<1> HIDE DEF S
<1>2. k \in Nat
  BY <1>1, FS_CardinalityType
<1>3. IsFiniteSet(T) /\ Cardinality(T) = k + 1
  <2>1. Cardinality(T) = IF 1 > k + 1 THEN 0 ELSE k + 1 - 1 + 1
    BY <1>2, FS_Interval
  <2> QED BY <1>2, <2>1, FS_Interval
<1>4. ~ (T \subseteq S)
  <2>1. T \subseteq S => Cardinality(T) <= k
    BY <1>1, FS_Subset
  <2> QED BY <1>2, <1>3, <2>1
<1>5. T \ S # {} /\ T \ S \subseteq Nat
  BY <1>2, <1>4
<1>6. Min(T \ S) \in T \ S
  BY <1>5, MinForm
<1>7. Fresh = Min(T \ S)
  BY DEF Fresh, S
<1> QED BY <1>1, <1>2, <1>6, <1>7 DEF S

-----------------------------------------------------------------------------
(* What a step leaves as it was                                            *)

(* Live rows that stay are as they were: what was true of all is true of   *)
(* them.                                                                   *)
LEMMA RowsFewer ==
    ASSUME NEW W, NEW V, \A w \in LiveIn(V) : w \in LiveIn(W) /\ V[w] = W[w]
    PROVE  /\ \A w \in LiveIn(V) : Later(V, w) => Later(W, w)
           /\ \A C : RowsFit(W, C) => RowsFit(V, C)
           /\ \A R : FileRows(R, W) => FileRows(R, V)
           /\ \A s : OnRows(s, W) => OnRows(s, V)
<1>1. \A w \in LiveIn(V) : Later(V, w) => Later(W, w)
  BY DEF Later
<1>2. ASSUME NEW C, RowsFit(W, C) PROVE RowsFit(V, C)
  BY <1>1, <1>2 DEF RowsFit
<1>3. ASSUME NEW R, FileRows(R, W) PROVE FileRows(R, V)
  BY <1>1, <1>3 DEF FileRows, RecordRows
<1>4. ASSUME NEW s, OnRows(s, W) PROVE OnRows(s, V)
  BY <1>1, <1>4 DEF OnRows
<1> QED BY <1>1, <1>2, <1>3, <1>4

(* Records go, or stay, except for that of n.                              *)
Spares(R, Q, n) == \A m \in Names \ {n} : Q[m] = None \/ Q[m] = R[m]

(* The records that are spared fit as they did.                            *)
LEMMA FilesFit ==
    ASSUME NEW R, NEW Q, NEW n, Spares(R, Q, n), NEW C, NEW W, FileFit(R, C), FileRows(R, W),
           n \in Names /\ Q[n] # None => RecordFit(Q[n], n, C) /\ RecordRows(Q[n], W)
    PROVE  FileFit(Q, C) /\ FileRows(Q, W)
BY DEF Spares, FileFit, FileRows

(* Other sessions find their records as they were, or gone.                *)
LEMMA FilesKeep ==
    ASSUME NEW R, NEW Q, NEW n, Spares(R, Q, n), NEW s, Shape(s), OnFile(s, R),
           Active(s) => s.name # n
    PROVE  OnFile(s, Q)
<1>1. Active(s) => s.name \in Names
  BY DEF Shape, Active, Early, Late, Image
<1> QED BY <1>1 DEF Spares, OnFile

(* What was known is known.                                                *)
Remembers(R, l, E, Q, k, F) == \A x : Known(x, R, l, E) => Known(x, Q, k, F)

(* So it is of the CVMs, and of what the sessions know.                    *)
LEMMA KnownKeep ==
    ASSUME NEW R, NEW l, NEW E, NEW Q, NEW k, NEW F, Remembers(R, l, E, Q, k, F)
    PROVE  /\ \A C : CvmsKnown(R, l, C, E) => CvmsKnown(Q, k, C, F)
           /\ \A s : OnRecord(s, R, l, E) => OnRecord(s, Q, k, F)
BY DEF Remembers, CvmsKnown, OnRecord

(* A session goes on alone if it had its name, or nobody did.              *)
LEMMA AloneMoves ==
    ASSUME Alone(proc), proc \in [Procs -> Sessions], NEW p \in Procs, NEW s \in Sessions,
           proc' = [proc EXCEPT ![p] = s],
           \/ ~ Active(s)
           \/ Active(proc[p]) /\ s.name = proc[p].name
           \/ \A q \in Procs : Active(proc[q]) => proc[q].name # s.name
    PROVE  /\ Alone(proc')
           /\ \A q \in Procs \ {p} : Active(s) /\ Active(proc[q]) => proc[q].name # s.name
<1>1. \A q \in Procs : proc'[q] = IF q = p THEN s ELSE proc[q]
  OBVIOUS
<1>2. \A q \in Procs \ {p} : Active(s) /\ Active(proc[q]) => proc[q].name # s.name
  BY DEF Alone
<1> QED BY <1>1, <1>2 DEF Alone

(* Nobody gets a secret that was another name's.                           *)
LEMMA OwnedMoves ==
    ASSUME NEW R, NEW Q, NEW n, NEW y, Owned(R, proc), proc \in [Procs -> Sessions],
           NEW p \in Procs, NEW s \in Sessions, proc' = [proc EXCEPT ![p] = s],
           Spares(R, Q, n), n \in Names /\ Q[n] # None => Q[n] = R[n] \/ Q[n].secret = y,
           \A x : Has(s, x) =>
              Holds(R, proc, s.name, x) \/ x \in {0, Legacy} \/ (x = y /\ s.name = n),
           \/ y \in {0, Legacy}
           \/ Holds(R, proc, n, y)
           \/ \A m \in Names : ~ Holds(R, proc, m, y)
    PROVE  Owned(Q, proc')
<1>1. \A q \in Procs : proc'[q] = IF q = p THEN s ELSE proc[q]
  OBVIOUS
<1>2. ASSUME NEW m \in Names, NEW x, Holds(Q, proc', m, x)
      PROVE  Holds(R, proc, m, x) \/ x \in {0, Legacy} \/ (x = y /\ m = n)
  <2>1. CASE Q[m] # None /\ Q[m].secret = x
    BY <2>1 DEF Spares, Holds
  <2>2. ASSUME NEW q \in Procs, proc'[q].name = m, Has(proc'[q], x)
        PROVE  Holds(R, proc, m, x) \/ x \in {0, Legacy} \/ (x = y /\ m = n)
    <3>1. CASE q = p
      BY <1>1, <2>2, <3>1
    <3>2. CASE q # p
      BY <1>1, <2>2, <3>2 DEF Holds
    <3> QED BY <3>1, <3>2
  <2> QED BY <1>2, <2>1, <2>2 DEF Holds
<1>3. SUFFICES ASSUME NEW m \in Names, NEW o \in Names, NEW x \in Nat \ {0, Legacy},
                      Holds(Q, proc', m, x), Holds(Q, proc', o, x)
               PROVE  m = o
  BY DEF Owned
<1>4. /\ Holds(R, proc, m, x) \/ (x = y /\ m = n)
      /\ Holds(R, proc, o, x) \/ (x = y /\ o = n)
  BY <1>2, <1>3
<1>5. \A a, b \in Names : Holds(R, proc, a, x) /\ Holds(R, proc, b, x) => a = b
  BY <1>3 DEF Owned
<1> QED BY <1>3, <1>4, <1>5

-----------------------------------------------------------------------------
(* A step of one session                                                   *)

StoresTyped ==
    /\ recs \in [Names -> WorkerRecords \cup {None}] /\ legacy \in {0, Legacy}
    /\ cvms \in [AppIds -> Cvms \cup {None}] /\ rows \in Seq(Rows) /\ keys \in Nat
    /\ released \subseteq Nat /\ used \in [commands : Nat, faults : Nat, drops : Nat]

(* The parts of the invariant.                                             *)
LEMMA InvParts ==
    ASSUME DeployInv
    PROVE  /\ TypeOK /\ StoresTyped /\ proc \in [Procs -> Sessions]
           /\ StoresFit(recs, legacy, cvms, rows, released)
           /\ FileFit(recs, cvms) /\ RowsFit(rows, cvms) /\ FileRows(recs, rows)
           /\ LegacyFit(recs, legacy, cvms) /\ CvmsKnown(recs, legacy, cvms, released)
           /\ Alone(proc) /\ Owned(recs, proc)
BY DEF DeployInv, TypeOK, StoresTyped, StoresFit

(* The parts of the invariant that speak of one session.                   *)
LEMMA SessionParts ==
    ASSUME DeployInv, NEW p \in Procs
    PROVE  /\ proc[p] \in Sessions
           /\ SessionFit(proc[p], recs, legacy, cvms, rows, released)
           /\ Shape(proc[p]) /\ OnFile(proc[p], recs) /\ OnCvm(proc[p], cvms)
           /\ OnRows(proc[p], rows) /\ OnLegacy(proc[p], legacy)
           /\ OnRecord(proc[p], recs, legacy, released)
BY DEF DeployInv, TypeOK, SessionFit

(* What a step of one session has to leave.                                *)
LEMMA Moves ==
    ASSUME DeployInv, NEW p \in Procs, NEW s \in Sessions, proc' = [proc EXCEPT ![p] = s],
           StoresTyped', StoresFit(recs', legacy', cvms', rows', released'),
           SessionFit(s, recs', legacy', cvms', rows', released'),
           \A q \in Procs \ {p} :
              SessionFit(proc[q], recs', legacy', cvms', rows', released'),
           Alone(proc'), Owned(recs', proc')
    PROVE  DeployInv'
<1>1. proc \in [Procs -> Sessions]
  BY InvParts
<1>2. proc' \in [Procs -> Sessions] /\ \A q \in Procs : proc'[q] = IF q = p THEN s ELSE proc[q]
  BY <1>1
<1>3. TypeOK'
  BY <1>2 DEF StoresTyped, TypeOK
<1>4. \A q \in Procs : SessionFit(proc'[q], recs', legacy', cvms', rows', released')
  BY <1>2
<1> QED BY <1>3, <1>4 DEF DeployInv

(* The same, when the stores are left alone.                               *)
LEMMA SessionMoves ==
    ASSUME DeployInv, NEW p \in Procs, NEW s \in Sessions, proc' = [proc EXCEPT ![p] = s],
           UNCHANGED <<recs, legacy, cvms, rows, keys, released>>, StoresTyped',
           SessionFit(s, recs, legacy, cvms, rows, released),
           \/ ~ Active(s)
           \/ Active(proc[p]) /\ s.name = proc[p].name
           \/ \A q \in Procs : Active(proc[q]) => proc[q].name # s.name,
           \A x : Has(s, x) => Holds(recs, proc, s.name, x) \/ x \in {0, Legacy}
    PROVE  DeployInv'
<1>1. /\ Alone(proc) /\ Owned(recs, proc) /\ proc \in [Procs -> Sessions]
      /\ StoresFit(recs, legacy, cvms, rows, released)
  BY InvParts
<1>2. Alone(proc')
  BY <1>1, AloneMoves
<1>3. Spares(recs, recs, None)
  BY DEF Spares
<1>4. Owned(recs, proc')
  <2> DEFINE y == 0
  <2>1. None \notin Names /\ y \in {0, Legacy}
    BY NoneApart
  <2> HIDE DEF y
  <2>2. \A x : Has(s, x) =>
           Holds(recs, proc, s.name, x) \/ x \in {0, Legacy} \/ (x = y /\ s.name = None)
    OBVIOUS
  <2>3. Owned(recs, proc')
    BY <1>1, <1>3, <2>1, <2>2, OwnedMoves
  <2> QED BY <2>3
<1>5. \A q \in Procs \ {p} : SessionFit(proc[q], recs, legacy, cvms, rows, released)
  BY SessionParts
<1> QED BY <1>1, <1>2, <1>4, <1>5, Moves

(* A session at rest fits whatever the stores hold.                        *)
LEMMA IdleFit ==
    /\ Idle \in Sessions /\ ~ Active(Idle) /\ \A x : ~ Has(Idle, x)
    /\ \A R, l, C, W, E : SessionFit(Idle, R, l, C, W, E)
<1>1. /\ Idle.pc = "idle" /\ Idle.seen = None /\ Idle.rec = None /\ Idle.legacy = 0
      /\ Idle.add = FALSE
  BY DEF Idle
<1>2. Idle \in Sessions
  BY DEF Idle, Sessions
<1>3. ~ Active(Idle) /\ \A x : ~ Has(Idle, x)
  BY <1>1 DEF Active, Early, Late, Image, Has
<1>4. Shape(Idle)
  BY <1>1 DEF Shape, Early, Late, Removing
<1>5. \A R, l, C, W, E : /\ OnFile(Idle, R) /\ OnCvm(Idle, C) /\ OnRows(Idle, W)
                         /\ OnLegacy(Idle, l) /\ OnRecord(Idle, R, l, E)
  BY <1>1, <1>3 DEF OnFile, OnCvm, OnRows, OnLegacy, OnRecord, Image
<1> QED BY <1>2, <1>3, <1>4, <1>5 DEF SessionFit

(* A command ends, and leaves the stores alone.                            *)
LEMMA EndsInv ==
    ASSUME DeployInv, NEW p \in Procs, Ends(p),
           UNCHANGED <<recs, legacy, cvms, rows, keys, released>>, StoresTyped'
    PROVE  DeployInv'
<1>1. proc' = [proc EXCEPT ![p] = Idle]
  BY DEF Ends, Goes
<1> QED BY <1>1, IdleFit, SessionMoves

(* The bounds stay numbers.                                                *)
LEMMA CountsTyped ==
    ASSUME used \in [commands : Nat, faults : Nat, drops : Nat]
    PROVE  /\ \A p : Counts(p) => used' \in [commands : Nat, faults : Nat, drops : Nat]
           /\ [used EXCEPT !.faults = @ + 1] \in [commands : Nat, faults : Nat, drops : Nat]
           /\ [used EXCEPT !.drops = @ + 1] \in [commands : Nat, faults : Nat, drops : Nat]
<1>1. used.commands + 1 \in Nat /\ used.faults + 1 \in Nat /\ used.drops + 1 \in Nat
  OBVIOUS
<1>2. /\ [used EXCEPT !.commands = @ + 1] \in [commands : Nat, faults : Nat, drops : Nat]
      /\ [used EXCEPT !.faults = @ + 1] \in [commands : Nat, faults : Nat, drops : Nat]
      /\ [used EXCEPT !.drops = @ + 1] \in [commands : Nat, faults : Nat, drops : Nat]
  BY <1>1
<1> QED BY <1>2 DEF Counts

(* A command fails wherever it is.                                         *)
LEMMA FailInv ==
    ASSUME DeployInv, NEW p \in Procs, Fail(p)
    PROVE  DeployInv'
<1>1. /\ Ends(p) /\ UNCHANGED <<recs, legacy, cvms, rows, keys, released>>
      /\ used' = [used EXCEPT !.faults = @ + 1]
  BY DEF Fail
<1>2. StoresTyped'
  BY <1>1, InvParts, CountsTyped DEF StoresTyped
<1> QED BY <1>1, <1>2, EndsInv

(* Newer keys are set.                                                     *)
LEMMA SetKeysInv ==
    ASSUME DeployInv, NEW p \in Procs, SetKeys(p)
    PROVE  DeployInv'
<1>1. /\ UNCHANGED <<recs, legacy, cvms, rows, proc, released>> /\ keys' = keys + 1 /\ Counts(p)
  BY DEF SetKeys
<1>2. StoresTyped'
  BY <1>1, InvParts, CountsTyped DEF StoresTyped
<1>3. TypeOK'
  BY <1>1, <1>2, InvParts DEF StoresTyped, TypeOK
<1> QED BY <1>1, <1>3 DEF DeployInv

-----------------------------------------------------------------------------
(* Commands start                                                          *)

(* legacy_node_secret.                                                     *)
LEMMA LegacyForm ==
    ASSUME DeployInv
    PROVE  /\ LegacySecret \in {0, Legacy}
           /\ LegacySecret # 0 => legacy = Legacy /\ \A n \in Names : recs[n] = None
           /\ legacy # 0 => LegacySecret = Legacy /\ \A n \in Names : recs[n] = None
<1>1. legacy \in {0, Legacy}
  BY InvParts DEF StoresTyped
<1>2. legacy # 0 => \A n \in Names : recs[n] = None
  BY InvParts DEF LegacyFit
<1> QED BY <1>1, <1>2 DEF LegacySecret, Tracked, Legacy

(* What a session knows that has just loaded the configuration.            *)
Loads(s, at, n, add, r) ==
    /\ s \in Sessions /\ s.pc = at /\ s.name = n /\ s.add = add /\ s.seen = r
    /\ s.legacy = LegacySecret /\ s.rec = None

(* So it is when a command starts.                                         *)
LEMMA LoadedForm ==
    ASSUME NEW n \in Names, NEW r \in WorkerRecords \cup {None}, LegacySecret \in {0, Legacy}
    PROVE  /\ \A k \in Nat :
                /\ Loads([Loaded(n, r) EXCEPT !.pc = "guard", !.keys = k],
                         "guard", n, FALSE, r)
                /\ Loads([Loaded(n, r) EXCEPT !.pc = "guard", !.keys = k, !.add = TRUE],
                         "guard", n, TRUE, r)
           /\ \A a \in Nat :
                /\ Loads([Loaded(n, r) EXCEPT !.pc = "image", !.app = a], "image", n, FALSE, r)
                /\ [Loaded(n, r) EXCEPT !.pc = "image", !.app = a].app = a
<1> DEFINE c == Loaded(n, r)
<1>1. c \in Sessions /\ c.name = n /\ c.seen = r /\ c.legacy = LegacySecret /\ c.rec = None
      /\ c.add = FALSE
  BY DEF Loaded, Idle, Sessions
<1> HIDE DEF c
<1>2. ASSUME NEW k \in Nat
      PROVE  Loads([c EXCEPT !.pc = "guard", !.keys = k], "guard", n, FALSE, r)
  BY <1>1 DEF Sessions, Loads
<1>3. ASSUME NEW k \in Nat
      PROVE  Loads([c EXCEPT !.pc = "guard", !.keys = k, !.add = TRUE], "guard", n, TRUE, r)
  BY <1>1 DEF Sessions, Loads
<1>4. ASSUME NEW a \in Nat
      PROVE  /\ Loads([c EXCEPT !.pc = "image", !.app = a], "image", n, FALSE, r)
             /\ [c EXCEPT !.pc = "image", !.app = a].app = a
  BY <1>1 DEF Sessions, Loads
<1> QED BY <1>2, <1>3, <1>4 DEF c

(* The places a command may be at.                                         *)
LEMMA Places ==
    /\ "guard" \in Early /\ "name" \in Early /\ "prepare" \in Early
    /\ \A x \in Early : x \notin Late /\ x \notin Image /\ x \notin Removing /\ x # "idle"
                        /\ x # "imagesave"
    /\ \A x \in Late : x \notin Image /\ x \notin Removing /\ x # "idle" /\ x # "imagesave"
    /\ "image" \in Image /\ "post" \in Image
    /\ \A x \in Image : x \notin Removing /\ x \notin Late /\ x # "idle" /\ x # "imagesave"
BY DEF Early, Late, Image, Removing

(* A session that has loaded the record of its name fits.                  *)
LEMMA LoadedFit ==
    ASSUME DeployInv, NEW s \in Sessions, s.pc \in {"guard", "image"}, s.name \in Names,
           s.seen \in {recs[s.name], None}, s.rec = None, s.legacy = LegacySecret,
           s.pc = "guard" => s.seen = recs[s.name],
           s.add => /\ s.pc = "guard" /\ \E m \in Names : recs[m] # None
                    /\ s.seen # None =>
                          s.seen.worker = 0 /\ s.seen.app = 0 /\ s.seen.secondary,
           OnCvm(s, cvms)
    PROVE  /\ SessionFit(s, recs, legacy, cvms, rows, released)
           /\ \A x : Has(s, x) => Holds(recs, proc, s.name, x)
<1>1. /\ FileFit(recs, cvms) /\ FileRows(recs, rows) /\ LegacyFit(recs, legacy, cvms)
      /\ recs \in [Names -> WorkerRecords \cup {None}]
  BY InvParts DEF StoresTyped
<1>2. s.seen # None => s.seen = recs[s.name] /\ RecordFit(s.seen, s.name, cvms)
                       /\ RecordRows(s.seen, rows)
  BY <1>1 DEF FileFit, FileRows
<1>3. Shape(s)
  <2>1. s.pc \notin Late \cup {"imagesave"} \cup Removing \cup {"idle"} /\ s.pc \in Early \cup Image
    BY DEF Late, Removing, Early, Image
  <2>2. s.seen # None => s.seen.secret # 0
    BY <1>2 DEF RecordFit
  <2>3. s.add /\ s.seen # None => s.seen.worker = 0 /\ s.seen.app = 0 /\ s.seen.secondary
                                  /\ s.seen.secret # Legacy
    BY <1>2 DEF RecordFit
  <2>4. s.add => s.pc \in Early
    BY DEF Early
  <2> QED BY <2>1, <2>2, <2>3, <2>4 DEF Shape, Late
<1>4. OnFile(s, recs)
  BY LegacyForm DEF OnFile, Early, Image
<1>5. OnRows(s, rows)
  BY <1>2 DEF OnRows, RecordRows
<1>6. OnLegacy(s, legacy)
  BY LegacyForm DEF OnLegacy
<1>7. OnRecord(s, recs, legacy, released)
  <2>1. s.seen # None => Known(s.seen.secret, recs, legacy, released)
    BY <1>2 DEF Known
  <2>2. s.legacy # 0 => Known(Legacy, recs, legacy, released)
    BY LegacyForm DEF Known
  <2> QED BY <2>1, <2>2 DEF OnRecord
<1>8. \A x : Has(s, x) => Holds(recs, proc, s.name, x)
  BY <1>2 DEF Has, Holds
<1> QED BY <1>3, <1>4, <1>5, <1>6, <1>7, <1>8 DEF SessionFit

(* A name that is not busy is no active command's.                         *)
LEMMA NotBusy ==
    ASSUME NEW n, ~ Busy(n), NEW q \in Procs, Active(proc[q])
    PROVE  proc[q].name # n
BY DEF Busy, Active, Early, Late, Image

(* deploy and worker add start.                                            *)
LEMMA StartDeployInv ==
    ASSUME DeployInv, NEW p \in Procs, NEW n \in Names, StartDeploy(p, n) \/ StartAdd(p, n)
    PROVE  DeployInv'
<1> DEFINE r == recs[n]
           d == [Loaded(n, r) EXCEPT !.pc = "guard", !.keys = keys]
           b == [Loaded(n, r) EXCEPT !.pc = "guard", !.keys = keys, !.add = TRUE]
<1>1. /\ UNCHANGED <<recs, legacy, cvms, rows, keys, released>> /\ ~ Busy(n) /\ Counts(p)
      /\ \/ proc' = [proc EXCEPT ![p] = d]
         \/ proc' = [proc EXCEPT ![p] = b] /\ MayAdd(n)
  BY Zenon DEF StartDeploy, StartAdd, Goes
<1>2. StoresTyped'
  BY <1>1, InvParts, CountsTyped DEF StoresTyped
<1>3. r \in WorkerRecords \cup {None} /\ keys \in Nat
  BY InvParts DEF StoresTyped
<1>4. Loads(d, "guard", n, FALSE, r) /\ Loads(b, "guard", n, TRUE, r)
  <2> HIDE DEF r
  <2> QED BY <1>3, LegacyForm, LoadedForm
<1> HIDE DEF d, b
<1>5. ASSUME NEW s \in {d, b}, proc' = [proc EXCEPT ![p] = s], s = b => MayAdd(n)
      PROVE  DeployInv'
  <2>1. /\ s \in Sessions /\ s.pc = "guard" /\ s.name = n /\ s.seen = recs[n] /\ s.rec = None
        /\ s.legacy = LegacySecret
    BY <1>4, <1>5 DEF Loads
  <2>2. s.add => /\ \E m \in Names : recs[m] # None
                 /\ s.seen # None => s.seen.worker = 0 /\ s.seen.app = 0 /\ s.seen.secondary
    BY <1>4, <1>5 DEF MayAdd, Tracked, Loads
  <2>3. OnCvm(s, cvms)
    BY <2>1 DEF OnCvm, Image
  <2>4. /\ SessionFit(s, recs, legacy, cvms, rows, released)
        /\ \A x : Has(s, x) => Holds(recs, proc, s.name, x)
    BY <2>1, <2>2, <2>3, LoadedFit
  <2>5. \A q \in Procs : Active(proc[q]) => proc[q].name # s.name
    BY <1>1, <2>1, NotBusy
  <2> QED BY <1>1, <1>2, <1>5, <2>1, <2>4, <2>5, SessionMoves
<1>6. d # b
  BY <1>4 DEF Loads
<1> QED BY <1>1, <1>5, <1>6

(* register-image starts, for a CVM that is up.                            *)
LEMMA StartImageInv ==
    ASSUME DeployInv, NEW p \in Procs, NEW a \in Up, StartImage(p, a)
    PROVE  DeployInv'
<1> DEFINE n == ImageName(a)
           r == ImageRecord(a)
           s == [Loaded(n, r) EXCEPT !.pc = "image", !.app = a]
<1>1. /\ UNCHANGED <<recs, legacy, cvms, rows, keys, released>> /\ ~ Busy(n) /\ Counts(p)
      /\ proc' = [proc EXCEPT ![p] = s]
  BY Zenon DEF StartImage, Goes
<1>2. StoresTyped'
  BY <1>1, InvParts, CountsTyped DEF StoresTyped
<1>3. /\ recs \in [Names -> WorkerRecords \cup {None}] /\ FileFit(recs, cvms)
      /\ LegacyFit(recs, legacy, cvms) /\ cvms \in [AppIds -> Cvms \cup {None}]
  BY InvParts DEF StoresTyped
<1>4. a \in UpIn(cvms) /\ a \in Nat /\ cvms[a] \in Cvms
  BY <1>3 DEF Up, UpIn, AppIds
<1>5. /\ n \in Names /\ cvms[a].name = n /\ r \in {recs[n], None}
      /\ r # None => r.app = a
  <2>1. CASE \E m \in Names : Tracked(m) /\ recs[m].app = a
    <3>1. n \in Names /\ Tracked(n) /\ recs[n].app = a
      BY <2>1, Zenon DEF ImageName
    <3>2. cvms[a].name = n
      BY <1>3, <1>4, <3>1 DEF FileFit, RecordFit, Tracked
    <3>3. r = recs[n]
      BY <2>1, Zenon DEF ImageRecord
    <3> QED BY <3>1, <3>2, <3>3
  <2>2. CASE ~ \E m \in Names : Tracked(m) /\ recs[m].app = a
    <3>1. n = cvms[a].name /\ r = None
      BY <2>2, Zenon DEF ImageName, ImageRecord
    <3> QED BY <1>4, <3>1 DEF Cvms
  <2> QED BY <2>1, <2>2
<1> HIDE DEF n, r
<1>6. r \in WorkerRecords \cup {None}
  BY <1>3, <1>5
<1>7. Loads(s, "image", n, FALSE, r) /\ s.app = a
  <2>1. n \in Names /\ a \in Nat /\ LegacySecret \in {0, Legacy}
    BY <1>4, <1>5, LegacyForm
  <2>2. \A b \in Nat :
           /\ Loads([Loaded(n, r) EXCEPT !.pc = "image", !.app = b], "image", n, FALSE, r)
           /\ [Loaded(n, r) EXCEPT !.pc = "image", !.app = b].app = b
    BY <1>6, <2>1, LoadedForm
  <2> QED BY <2>1, <2>2, Zenon
<1> HIDE DEF s
<1>8. OnCvm(s, cvms)
  <2>1. a \in Named(cvms, n)
    BY <1>4, <1>5 DEF Named
  <2>2. r # None => r.secret = cvms[a].secret /\ r.slots \in {0, cvms[a].keys}
    BY <1>3, <1>4, <1>5 DEF FileFit, RecordFit
  <2>3. s.legacy # 0 => cvms[a].secret = Legacy
    BY <1>3, <1>4, <1>7, LegacyForm DEF LegacyFit, Loads, Legacy
  <2> QED BY <1>5, <1>7, <2>1, <2>2, <2>3 DEF OnCvm, Loads, Image
<1>9. /\ SessionFit(s, recs, legacy, cvms, rows, released)
      /\ \A x : Has(s, x) => Holds(recs, proc, s.name, x)
  BY <1>5, <1>7, <1>8, LoadedFit DEF Loads
<1>10. \A q \in Procs : Active(proc[q]) => proc[q].name # s.name
  BY <1>1, <1>7, NotBusy DEF Loads
<1> QED BY <1>1, <1>2, <1>7, <1>9, <1>10, SessionMoves DEF Loads

(* A session that only removes knows nothing.                              *)
LEMMA RemovingFit ==
    ASSUME NEW s \in Sessions, s.pc \in Removing, s.name \in Names, s.seen = None, s.rec = None,
           s.legacy = 0, s.add = FALSE
    PROVE  /\ ~ Active(s) /\ \A x : ~ Has(s, x)
           /\ \A R, l, C, W, E : SessionFit(s, R, l, C, W, E)
<1>1. ~ Active(s) /\ \A x : ~ Has(s, x)
  BY DEF Active, Early, Late, Image, Removing, Has
<1>2. Shape(s)
  BY DEF Shape, Removing, Late, Early
<1>3. \A R, l, C, W, E : /\ OnFile(s, R) /\ OnCvm(s, C) /\ OnRows(s, W)
                         /\ OnLegacy(s, l) /\ OnRecord(s, R, l, E)
  BY <1>1 DEF OnFile, OnCvm, OnRows, OnLegacy, OnRecord, Removing, Image
<1> QED BY <1>1, <1>2, <1>3 DEF SessionFit

(* worker remove starts.                                                   *)
LEMMA StartRemoveInv ==
    ASSUME DeployInv, NEW p \in Procs, NEW n \in Names, StartRemove(p, n)
    PROVE  DeployInv'
<1> DEFINE w == recs[n].worker
           at == IF w = 0 THEN "drop" ELSE "delete"
           s == [Idle EXCEPT !.pc = at, !.name = n, !.id = w]
<1>1. /\ UNCHANGED <<recs, legacy, cvms, rows, keys, released>> /\ Counts(p)
      /\ recs[n] # None /\ proc' = [proc EXCEPT ![p] = s]
  BY Zenon DEF StartRemove, Goes, Tracked
<1>2. StoresTyped'
  BY <1>1, InvParts, CountsTyped DEF StoresTyped
<1>3. w \in Nat
  BY <1>1, InvParts DEF StoresTyped, WorkerRecords
<1>4. at \in {"drop", "delete"}
  OBVIOUS
<1> HIDE DEF w, at
<1>5. /\ s \in Sessions /\ s.pc \in Removing /\ s.name = n /\ s.seen = None /\ s.rec = None
      /\ s.legacy = 0 /\ s.add = FALSE
  BY <1>3, <1>4 DEF Idle, Sessions, Removing
<1> HIDE DEF s
<1> QED BY <1>1, <1>2, <1>5, RemovingFit, SessionMoves

-----------------------------------------------------------------------------
(* Checks                                                                  *)

(* A session that goes on to another place, with all it knows.             *)
GoesOnTo(t, s, x) ==
    /\ t \in Sessions /\ t.pc = x /\ t.name = s.name /\ t.add = s.add
    /\ t.seen = s.seen /\ t.legacy = s.legacy /\ t.rec = s.rec /\ t.app = s.app

(* So it does when its place is all that changes.                          *)
LEMMA GoesOn ==
    ASSUME NEW s \in Sessions,
           NEW x \in {"name", "prepare", "post", "forget", "register"}
    PROVE  GoesOnTo([s EXCEPT !.pc = x], s, x)
BY DEF Sessions, GoesOnTo

(* Guards and the preflight: a session goes on if it is not refused.       *)
LEMMA ChecksInv ==
    ASSUME DeployInv, NEW p \in Procs, Guard(p) \/ CheckName(p) \/ ImageGuard(p)
    PROVE  DeployInv'
<1> DEFINE s == proc[p]
<1>1. UNCHANGED <<recs, legacy, cvms, rows, keys, used, released>>
  BY DEF Guard, CheckName, ImageGuard
<1>2. StoresTyped'
  BY <1>1, InvParts DEF StoresTyped
<1>3. CASE Ends(p)
  BY <1>1, <1>2, <1>3, EndsInv
<1>4. ASSUME NEW x \in {"name", "prepare", "post"}, Goes(p, [s EXCEPT !.pc = x]),
             \/ s.pc = "guard" /\ x = "name"
             \/ s.pc = "name" /\ x = "prepare"
             \/ s.pc = "image" /\ x = "post",
             s.pc # "name" /\ ~ s.add /\ s.seen # None => ~ IsSecondary(s.seen)
      PROVE  DeployInv'
  <2> DEFINE t == [s EXCEPT !.pc = x]
  <2>1. /\ s \in Sessions /\ Shape(s) /\ OnFile(s, recs) /\ OnCvm(s, cvms)
        /\ OnRows(s, rows) /\ OnLegacy(s, legacy) /\ OnRecord(s, recs, legacy, released)
    BY SessionParts
  <2> HIDE DEF s
  <2>2. /\ t \in Sessions /\ t.pc = x /\ t.name = s.name /\ t.add = s.add
        /\ t.seen = s.seen /\ t.legacy = s.legacy /\ t.rec = s.rec /\ t.app = s.app
    <3>1. GoesOnTo(t, s, x)
      BY <2>1, GoesOn
    <3> QED BY <3>1 DEF GoesOnTo
  <2> HIDE DEF t
  <2>3. Active(s) /\ Active(t)
    BY <1>4, <2>2 DEF Active, Early, Image
  <2>4. Shape(t) /\ s.rec = None
    BY <1>4, <2>1, <2>2 DEF Shape, Early, Late, Image, Removing
  <2>5. OnFile(t, recs)
    BY <1>4, <2>1, <2>2, <2>3, <2>4 DEF OnFile, Early, Image
  <2>6. OnCvm(t, cvms)
    BY <1>4, <2>1, <2>2 DEF OnCvm, Image
  <2>7. OnRows(t, rows)
    <3>1. ASSUME t.seen # None, ~ t.add, NEW w \in LiveIn(rows), Later(rows, w),
                 t.seen.secret = rows[w].secret
          PROVE  FALSE
      <4>1. s.pc \in {"guard", "image"} /\ IsOf(s.seen, w)
        BY <2>1, <2>2, <3>1 DEF OnRows
      <4>2. s.seen \in WorkerRecords
        BY <2>1, <2>2, <3>1 DEF Sessions
      <4>3. IsSecondary(s.seen)
        BY <3>1, <4>1, <4>2, InvParts, SecondaryForm
      <4> QED BY <1>4, <2>2, <3>1, <4>1, <4>3
    <3> QED BY <2>1, <2>2, <2>4, <3>1 DEF OnRows
  <2>8. OnLegacy(t, legacy) /\ OnRecord(t, recs, legacy, released)
    BY <2>1, <2>2, <2>3 DEF OnLegacy, OnRecord
  <2>9. \A y : Has(t, y) => Holds(recs, proc, t.name, y)
    BY <2>2 DEF Has, Holds, s
  <2>10. proc' = [proc EXCEPT ![p] = t]
    BY <1>4 DEF Goes, t
  <2> QED BY <1>1, <1>2, <2>2, <2>3, <2>4, <2>5, <2>6, <2>7, <2>8, <2>9, <2>10, SessionMoves
          DEF SessionFit, s
<1>5. CASE Guard(p)
  <2>1. s.pc = "guard" /\ (Ends(p) \/ Goes(p, [s EXCEPT !.pc = "name"]))
    BY <1>5 DEF Guard, At
  <2>2. ~ Ends(p) => (~ s.add /\ s.seen # None => ~ IsSecondary(s.seen))
    BY <1>5 DEF Guard
  <2> QED BY <1>3, <1>4, <2>1, <2>2
<1>6. CASE CheckName(p)
  <2>1. s.pc = "name" /\ (Ends(p) \/ Goes(p, [s EXCEPT !.pc = "prepare"]))
    BY <1>6 DEF CheckName, At
  <2> QED BY <1>3, <1>4, <2>1
<1>7. CASE ImageGuard(p)
  <2>1. s.pc = "image" /\ (Ends(p) \/ Goes(p, [s EXCEPT !.pc = "post"]))
    BY <1>7 DEF ImageGuard, At
  <2>2. ~ Ends(p) => (s.seen # None => ~ IsSecondary(s.seen))
    BY <1>7 DEF ImageGuard
  <2> QED BY <1>3, <1>4, <2>1, <2>2
<1> QED BY <1>5, <1>6, <1>7

-----------------------------------------------------------------------------
(* deploy before it writes                                                 *)

(* The session of a command that has found the CVM a by its name.          *)
Booted(t, s, a) ==
    /\ t \in Sessions /\ t.pc = "app" /\ t.name = s.name /\ t.add = s.add
    /\ t.seen = s.seen /\ t.legacy = s.legacy
    /\ t.rec \in WorkerRecords /\ t.rec.app = a /\ t.rec.worker = s.rec.worker
    /\ t.rec.secret = s.rec.secret /\ t.rec.slots = s.rec.slots
    /\ t.rec.secondary = s.rec.secondary

(* So it is when it takes down the app id.                                 *)
LEMMA BootForm ==
    ASSUME NEW s \in Sessions, s.rec \in WorkerRecords, NEW a \in Nat
    PROVE  Booted([s EXCEPT !.pc = "app", !.rec.app = a], s, a)
<1> DEFINE r == [s.rec EXCEPT !.app = a]
<1>1. /\ r \in WorkerRecords /\ r.app = a /\ r.worker = s.rec.worker
      /\ r.secret = s.rec.secret /\ r.slots = s.rec.slots /\ r.secondary = s.rec.secondary
  BY DEF WorkerRecords
<1>2. [s EXCEPT !.pc = "app", !.rec.app = a] = [s EXCEPT !.pc = "app", !.rec = r]
  BY Zenon
<1> HIDE DEF r
<1> DEFINE t == [s EXCEPT !.pc = "app", !.rec = r]
<1>3. /\ t \in Sessions /\ t.pc = "app" /\ t.name = s.name /\ t.add = s.add
      /\ t.seen = s.seen /\ t.legacy = s.legacy /\ t.rec = r
  BY <1>1 DEF Sessions
<1> HIDE DEF t
<1> QED BY <1>1, <1>2, <1>3 DEF Booted, t

(* The poll finds the CVM of the name.                                     *)
LEMMA BootInv ==
    ASSUME DeployInv, NEW p \in Procs, Boot(p)
    PROVE  DeployInv'
<1> DEFINE s == proc[p]
<1>1. /\ s.pc = "boot" /\ UNCHANGED <<recs, legacy, cvms, rows, keys, used, released>>
      /\ \E a \in NamedCvms(s.name) : proc' = [proc EXCEPT ![p] = [s EXCEPT !.pc = "app",
                                                                          !.rec.app = a]]
  BY Zenon DEF Boot, At, Outcomes, Goes
<1>2. PICK a \in NamedCvms(s.name) :
         proc' = [proc EXCEPT ![p] = [s EXCEPT !.pc = "app", !.rec.app = a]]
  BY <1>1
<1> DEFINE t == [s EXCEPT !.pc = "app", !.rec.app = a]
<1>3. /\ s \in Sessions /\ Shape(s) /\ OnFile(s, recs) /\ OnCvm(s, cvms)
      /\ OnRows(s, rows) /\ OnLegacy(s, legacy) /\ OnRecord(s, recs, legacy, released)
  BY SessionParts
<1>4. StoresTyped'
  BY <1>1, InvParts DEF StoresTyped
<1>5. a \in Named(cvms, s.name) /\ a \in Nat
  BY <1>2 DEF NamedCvms, Up, Named, UpIn, AppIds
<1>6. \A x : Has(s, x) => Holds(recs, proc, s.name, x)
  BY DEF Holds
<1>7. proc' = [proc EXCEPT ![p] = t]
  BY <1>2
<1> HIDE DEF s
<1>8. s.rec \in WorkerRecords /\ s.seen = None /\ s.rec # None /\ Active(s)
  BY <1>1, <1>3 DEF Shape, Late, Sessions, Active
<1>9. Booted(t, s, a)
  BY <1>3, <1>5, <1>8, BootForm
<1> HIDE DEF t
<1>10. Shape(t) /\ Active(t)
  BY <1>1, <1>3, <1>8, <1>9, NoneApart DEF Shape, Active, Late, Early, Removing, Booted
<1>11. OnFile(t, recs)
  BY <1>1, <1>3, <1>8, <1>9 DEF OnFile, Booted, Early, Image
<1>12. OnCvm(t, cvms)
  BY <1>1, <1>3, <1>5, <1>9 DEF OnCvm, Booted, Image
<1>13. OnRows(t, rows) /\ OnLegacy(t, legacy) /\ OnRecord(t, recs, legacy, released)
  <2>1. /\ t.seen = None /\ t.rec # None /\ t.rec.secret = s.rec.secret /\ t.add = s.add
        /\ t.legacy = s.legacy /\ Active(t) /\ Active(s) /\ t.pc = "app"
    BY <1>8, <1>9, <1>10, NoneApart DEF Booted
  <2>2. OnRows(t, rows)
    BY <1>1, <1>3, <1>8, <2>1 DEF OnRows
  <2>3. OnLegacy(t, legacy)
    BY <1>3, <1>8, <2>1 DEF OnLegacy
  <2>4. OnRecord(t, recs, legacy, released)
    BY <1>3, <1>8, <2>1 DEF OnRecord
  <2> QED BY <2>2, <2>3, <2>4
<1>14. \A x : Has(t, x) => Has(s, x)
  BY <1>8, <1>9 DEF Has, Booted
<1>15. SessionFit(t, recs, legacy, cvms, rows, released)
  BY <1>10, <1>11, <1>12, <1>13 DEF SessionFit
<1>16. t \in Sessions /\ t.name = s.name
  BY <1>9 DEF Booted
<1>17. \A x : Has(t, x) => Holds(recs, proc, t.name, x)
  BY <1>6, <1>14, <1>16
<1>18. Active(proc[p]) /\ t.name = proc[p].name
  BY <1>8, <1>16 DEF s
<1> QED BY <1>1, <1>4, <1>7, <1>15, <1>16, <1>17, <1>18, SessionMoves

(* The session of a command that has prepared its record.                  *)
Prepared(t, s, x) ==
    /\ t \in Sessions /\ t.pc = "launch" /\ t.name = s.name /\ t.add = s.add
    /\ t.seen = None /\ t.legacy = 0 /\ t.keys = s.keys
    /\ t.rec \in WorkerRecords /\ t.rec.app = 0 /\ t.rec.secret = x
    /\ t.rec.worker = (IF s.seen = None THEN 0 ELSE s.seen.worker)
    /\ t.rec.slots = s.keys /\ t.rec.secondary = s.add

(* So it is when it has the secret x.                                      *)
LEMMA PreparedForm ==
    ASSUME NEW s \in Sessions, NEW x \in Nat
    PROVE  Prepared([Idle EXCEPT !.pc = "launch", !.name = s.name, !.add = s.add,
                         !.rec = WorkerRecord(IF s.seen = None THEN 0 ELSE s.seen.worker, 0,
                                              x, s.keys, s.add),
                         !.keys = s.keys], s, x)
<1> DEFINE w == IF s.seen = None THEN 0 ELSE s.seen.worker
           r == WorkerRecord(w, 0, x, s.keys, s.add)
<1>1. w \in Nat /\ s.keys \in Nat /\ s.add \in BOOLEAN /\ s.name \in Names \cup {None}
  <2>1. s.seen \in WorkerRecords \cup {None} /\ s.keys \in Nat /\ s.add \in BOOLEAN
        /\ s.name \in Names \cup {None}
    BY DEF Sessions
  <2> QED BY <2>1 DEF WorkerRecords
<1>2. w = IF s.seen = None THEN 0 ELSE s.seen.worker
  OBVIOUS
<1> HIDE DEF w
<1>3. /\ r \in WorkerRecords /\ r.app = 0 /\ r.secret = x /\ r.worker = w
      /\ r.slots = s.keys /\ r.secondary = s.add
  BY <1>1 DEF WorkerRecord, WorkerRecords
<1> HIDE DEF r
<1> DEFINE t == [Idle EXCEPT !.pc = "launch", !.name = s.name, !.add = s.add, !.rec = r,
                             !.keys = s.keys]
<1>4. /\ t \in Sessions /\ t.pc = "launch" /\ t.name = s.name /\ t.add = s.add
      /\ t.seen = None /\ t.legacy = 0 /\ t.keys = s.keys /\ t.rec = r
  BY <1>1, <1>3 DEF Idle, Sessions
<1> HIDE DEF t
<1>5. Prepared(t, s, x)
  BY <1>2, <1>3, <1>4 DEF Prepared
<1> QED BY <1>5, Zenon DEF t, r, w

-----------------------------------------------------------------------------
(* Saving a record                                                         *)

(* A record saved under a name: what the file, the rows, the other sessions *)
(* and the session itself have to be like.                                 *)
LEMMA SavesInv ==
    ASSUME DeployInv, NEW p \in Procs, NEW t \in Sessions, proc' = [proc EXCEPT ![p] = t],
           NEW n \in Names, NEW r \in WorkerRecords, recs' = Upserted(n, r), legacy' = 0,
           UNCHANGED <<cvms, rows, keys, used>>, released' \subseteq Nat,
           Remembers(recs, legacy, released, recs', legacy', released'),
           RecordFit(r, n, cvms), RecordRows(r, rows),
           Active(proc[p]), proc[p].name = n, Active(t) => t.name = n,
           \A x : Has(t, x) => x = r.secret /\ t.name = n,
           \/ r.secret \in {0, Legacy}
           \/ Holds(recs, proc, n, r.secret)
           \/ \A m \in Names : ~ Holds(recs, proc, m, r.secret),
           SessionFit(t, recs', legacy', cvms, rows, released')
    PROVE  DeployInv'
<1>1. /\ StoresTyped /\ proc \in [Procs -> Sessions] /\ Alone(proc) /\ Owned(recs, proc)
      /\ FileFit(recs, cvms) /\ RowsFit(rows, cvms) /\ FileRows(recs, rows)
      /\ CvmsKnown(recs, legacy, cvms, released)
  BY InvParts
<1>2. /\ recs' \in [Names -> WorkerRecords \cup {None}] /\ recs'[n] = r /\ r # None
      /\ Spares(recs, recs', n)
  BY <1>1, NoneApart DEF Upserted, Spares, StoresTyped
<1>3. StoresTyped'
  BY <1>1, <1>2 DEF StoresTyped
<1>4. FileFit(recs', cvms) /\ FileRows(recs', rows)
  BY <1>1, <1>2, FilesFit
<1>5. CvmsKnown(recs', legacy', cvms, released')
  BY <1>1, KnownKeep
<1>6. StoresFit(recs', legacy', cvms', rows', released')
  BY <1>1, <1>4, <1>5 DEF StoresFit, LegacyFit
<1>7. Alone(proc') /\ \A q \in Procs \ {p} : Active(proc[q]) => proc[q].name # n
  <2>1. Alone(proc')
    BY <1>1, AloneMoves
  <2>2. \A q \in Procs \ {p} : Active(proc[q]) => proc[q].name # n
    BY <1>1 DEF Alone
  <2> QED BY <2>1, <2>2
<1>8. ASSUME NEW q \in Procs \ {p}
      PROVE  SessionFit(proc[q], recs', legacy', cvms', rows', released')
  <2>1. /\ Shape(proc[q]) /\ OnFile(proc[q], recs) /\ OnCvm(proc[q], cvms)
        /\ OnRows(proc[q], rows) /\ OnRecord(proc[q], recs, legacy, released)
    BY SessionParts
  <2>2. OnFile(proc[q], recs')
    BY <1>2, <1>7, <2>1, FilesKeep
  <2>3. OnRecord(proc[q], recs', legacy', released')
    BY <2>1, KnownKeep
  <2>4. OnLegacy(proc[q], legacy')
    BY DEF OnLegacy
  <2> QED BY <2>1, <2>2, <2>3, <2>4 DEF SessionFit
<1>9. Owned(recs', proc')
  <2> DEFINE y == r.secret
  <2>1. n \in Names /\ recs'[n] # None => recs'[n] = recs[n] \/ recs'[n].secret = y
    BY <1>2
  <2>2. \A x : Has(t, x) =>
           Holds(recs, proc, t.name, x) \/ x \in {0, Legacy} \/ (x = y /\ t.name = n)
    OBVIOUS
  <2>3. \/ y \in {0, Legacy} \/ Holds(recs, proc, n, y)
        \/ \A m \in Names : ~ Holds(recs, proc, m, y)
    OBVIOUS
  <2> HIDE DEF y
  <2> QED BY <1>1, <1>2, <2>1, <2>2, <2>3, OwnedMoves
<1> QED BY <1>3, <1>6, <1>7, <1>8, <1>9, Moves

(* A saved record forgets no secret but that of the worker it takes over,  *)
(* which is let go of.                                                     *)
LEMMA PersistKnows ==
    ASSUME DeployInv, NEW n \in Names, NEW r \in WorkerRecords, Persist(n, r),
           recs[n] # None => recs[n].secret = r.secret, legacy # 0 => r.secret = Legacy
    PROVE  /\ Remembers(recs, legacy, released, recs', legacy', released')
           /\ released' \subseteq Nat /\ Known(r.secret, recs', legacy', released')
<1>1. recs \in [Names -> WorkerRecords \cup {None}] /\ released \subseteq Nat
      /\ legacy \in {0, Legacy}
  BY InvParts DEF StoresTyped
<1>2. /\ recs' = Upserted(n, r) /\ legacy' = 0 /\ released' = released \cup TakesOver(n, r)
  BY DEF Persist
<1>3. recs'[n] = r /\ r # None
  BY <1>2, NoneApart DEF Upserted
<1>4. ASSUME NEW x, Known(x, recs, legacy, released)
      PROVE  Known(x, recs', legacy', released')
  <2>1. CASE x \in released
    BY <1>2, <2>1 DEF Known
  <2>2. CASE x = legacy
    BY <1>1, <1>2, <1>3, <2>2 DEF Known
  <2>3. ASSUME NEW m \in Names, recs[m] # None, recs[m].secret = x
        PROVE  Known(x, recs', legacy', released')
    <3>1. CASE m = n
      BY <1>3, <2>3, <3>1 DEF Known
    <3>2. CASE m # n /\ r.worker # 0 /\ recs[m].worker = r.worker
      BY <1>2, <2>3, <3>2 DEF Known, TakesOver, Tracked
    <3>3. CASE m # n /\ ~ (r.worker # 0 /\ recs[m].worker = r.worker)
      <4>1. recs'[m] = recs[m]
        BY <1>2, <3>3 DEF Upserted
      <4> QED BY <2>3, <4>1 DEF Known
    <3> QED BY <3>1, <3>2, <3>3
  <2> QED BY <1>4, <2>1, <2>2, <2>3 DEF Known
<1>5. TakesOver(n, r) \subseteq Nat
  BY <1>1 DEF TakesOver, Tracked, WorkerRecords
<1> QED BY <1>1, <1>2, <1>3, <1>4, <1>5 DEF Remembers, Known

(* A session that saves the record it has, all but its place unchanged, or *)
(* that ends with it.                                                      *)
LEMMA SaveOwnInv ==
    ASSUME DeployInv, NEW p \in Procs, NEW t \in Sessions, proc' = [proc EXCEPT ![p] = t],
           NEW r, r = proc[p].rec, Persist(proc[p].name, r), UNCHANGED <<cvms, rows, keys, used>>,
           proc[p].pc \in {"app", "save", "imagesave"}, r.secret # 0,
           \/ t = Idle
           \/ proc[p].pc = "app" /\ GoesOnTo(t, proc[p], "register")
    PROVE  DeployInv'
<1> DEFINE s == proc[p]
<1>1. /\ s \in Sessions /\ Shape(s) /\ OnFile(s, recs) /\ OnCvm(s, cvms)
      /\ OnRows(s, rows) /\ OnLegacy(s, legacy) /\ OnRecord(s, recs, legacy, released)
  BY SessionParts
<1>2. Holds(recs, proc, s.name, r.secret) \/ s.rec = None
  BY DEF Holds, Has
<1> HIDE DEF s
<1>3. /\ s.rec = r /\ r # None /\ r \in WorkerRecords /\ s.name \in Names /\ Active(s)
      /\ s.seen = None /\ s.pc \in {"app", "save", "imagesave"}
  BY <1>1 DEF s, Shape, Sessions, Active, Late, Early, Image
<1> DEFINE n == s.name
<1>4. /\ recs[n] # None => recs[n].secret = r.secret
      /\ legacy # 0 => r.secret = Legacy
  BY <1>1, <1>3 DEF OnFile, OnLegacy
<1>5. Persist(n, r)
  BY DEF s
<1>6. /\ Remembers(recs, legacy, released, recs', legacy', released')
      /\ released' \subseteq Nat /\ Known(r.secret, recs', legacy', released')
  BY <1>3, <1>4, <1>5, PersistKnows
<1>7. r.app \in Named(cvms, n) /\ r.secret = cvms[r.app].secret
      /\ r.slots \in {0, cvms[r.app].keys}
  BY <1>1, <1>3 DEF OnCvm
<1>8. r.app # 0 /\ r.app \in UpIn(cvms) /\ cvms[r.app].name = n
  <2>1. MaxCvms \in Nat
    BY NoneApart
  <2> QED BY <1>7, <2>1 DEF Named, UpIn, AppIds
<1>9. /\ s.pc \in {"save", "imagesave"} => ~ r.secondary
      /\ s.pc = "app" => r.secondary = s.add
      /\ s.add /\ s.pc = "app" => r.secret # Legacy
      /\ s.pc = "imagesave" => ~ s.add
  BY <1>1, <1>3 DEF Shape, Late, Early
<1>10. RecordFit(r, n, cvms)
  BY <1>3, <1>7, <1>8, <1>9 DEF RecordFit
<1>11. RecordRows(r, rows)
  <2>1. SUFFICES ASSUME NEW w \in LiveIn(rows)
                 PROVE  Later(rows, w) /\ r.secret = rows[w].secret => IsOf(r, w)
    BY <1>8 DEF RecordRows
  <2>2. CASE s.add
    BY <1>1, <1>3, <2>2 DEF OnRows, IsOf
  <2>3. CASE ~ s.add
    BY <1>1, <1>3, <2>3 DEF OnRows
  <2> QED BY <2>2, <2>3
<1>12. recs' = Upserted(n, r) /\ legacy' = 0 /\ recs'[n] = r
  BY <1>3, <1>5 DEF Persist, Upserted
<1>13. SessionFit(t, recs', legacy', cvms, rows, released')
  <2>1. CASE t = Idle
    BY <2>1, IdleFit
  <2>2. CASE s.pc = "app" /\ GoesOnTo(t, s, "register")
    <3>1. /\ t.pc = "register" /\ t.name = n /\ t.add = s.add /\ t.seen = None
          /\ t.legacy = s.legacy /\ t.rec = r /\ t.app = s.app
      BY <1>3, <2>2 DEF GoesOnTo
    <3>2. Shape(t)
      BY <1>1, <1>3, <2>2, <3>1 DEF Shape, Late, Early, Removing
    <3>3. OnFile(t, recs')
      BY <1>12, <3>1 DEF OnFile, Early, Image
    <3>4. OnCvm(t, cvms)
      BY <1>1, <1>3, <2>2, <3>1 DEF OnCvm, Image
    <3>5. OnRows(t, rows)
      BY <1>1, <1>3, <2>2, <3>1 DEF OnRows
    <3>6. OnRecord(t, recs', legacy', released')
      <4>1. s.legacy # 0 => Known(Legacy, recs', legacy', released')
        BY <1>1, <1>6 DEF OnRecord, Remembers
      <4> QED BY <1>6, <3>1, <4>1 DEF OnRecord
    <3> QED BY <1>12, <3>2, <3>3, <3>4, <3>5, <3>6 DEF SessionFit, OnLegacy
  <2> QED BY <2>1, <2>2 DEF s
<1>14. /\ Active(t) => t.name = n
       /\ \A x : Has(t, x) => x = r.secret /\ t.name = n
  <2>1. CASE t = Idle
    BY <2>1, IdleFit
  <2>2. CASE GoesOnTo(t, s, "register")
    BY <1>3, <2>2 DEF GoesOnTo, Has
  <2> QED BY <2>1, <2>2 DEF s
<1>15. Holds(recs, proc, n, r.secret) /\ Active(proc[p]) /\ proc[p].name = n
  BY <1>2, <1>3 DEF s
<1> HIDE DEF n
<1> QED BY <1>3, <1>6, <1>10, <1>11, <1>12, <1>13, <1>14, <1>15, SavesInv DEF n

(* The app id is saved.                                                    *)
LEMMA SaveAppInv ==
    ASSUME DeployInv, NEW p \in Procs, SaveApp(p)
    PROVE  DeployInv'
<1> DEFINE t == [proc[p] EXCEPT !.pc = "register"]
<1>1. /\ proc[p].pc = "app" /\ Persist(proc[p].name, proc[p].rec)
      /\ UNCHANGED <<cvms, rows, keys, used>> /\ proc' = [proc EXCEPT ![p] = t]
  BY DEF SaveApp, At, Goes
<1>2. proc[p] \in Sessions /\ proc[p].rec.secret # 0
  BY <1>1, SessionParts DEF Shape, Late
<1>3. GoesOnTo(t, proc[p], "register")
  BY <1>2, GoesOn
<1>4. t \in Sessions
  BY <1>3 DEF GoesOnTo
<1> HIDE DEF t
<1> QED BY <1>1, <1>2, <1>3, <1>4, SaveOwnInv

(* The worker is saved, by deploy and by register-image.                   *)
LEMMA SaveWorkerInv ==
    ASSUME DeployInv, NEW p \in Procs, SaveWorker(p) \/ ImageSave(p)
    PROVE  DeployInv'
<1>1. /\ proc[p].pc \in {"save", "imagesave"} /\ proc' = [proc EXCEPT ![p] = Idle]
      /\ UNCHANGED <<cvms, rows, keys, used>>
  BY DEF SaveWorker, ImageSave, At, Ends, Goes
<1>2. CASE proc[p].rec.secret # 0
  <2>1. Persist(proc[p].name, proc[p].rec)
    BY <1>2 DEF SaveWorker, ImageSave
  <2> QED BY <1>1, <1>2, <2>1, IdleFit, SaveOwnInv
<1>3. CASE proc[p].rec.secret = 0
  <2>1. proc[p].pc # "save"
    BY <1>3, SessionParts DEF Shape, Late
  <2>2. UNCHANGED <<recs, legacy, released>> /\ Ends(p)
    BY <1>1, <1>3, <2>1 DEF SaveWorker, ImageSave, At
  <2>3. StoresTyped'
    BY <1>1, <2>2, InvParts DEF StoresTyped
  <2> QED BY <1>1, <2>2, <2>3, EndsInv
<1> QED BY <1>2, <1>3

(* A record prepared with the secret that is on file.                      *)
LEMMA PrepareKnownInv ==
    ASSUME DeployInv, NEW p \in Procs, NEW t, NEW x \in Nat \ {0}, x = KnownSecret(proc[p]),
           proc[p].pc = "prepare", Prepared(t, proc[p], x), proc' = [proc EXCEPT ![p] = t],
           UNCHANGED <<recs, legacy, cvms, rows, keys, used, released>>
    PROVE  DeployInv'
<1> DEFINE s == proc[p]
<1>1. /\ s \in Sessions /\ Shape(s) /\ OnFile(s, recs) /\ OnCvm(s, cvms)
      /\ OnRows(s, rows) /\ OnLegacy(s, legacy) /\ OnRecord(s, recs, legacy, released)
  BY SessionParts
<1>2. RowsFit(rows, cvms)
  BY InvParts
<1>3. s.seen # None => Holds(recs, proc, s.name, s.seen.secret)
  BY DEF Holds, Has
<1>4. StoresTyped'
  BY InvParts DEF StoresTyped
<1>5. Active(s) /\ s.pc = "prepare"
  BY DEF Active, Early
<1>6. x = IF s.seen # None THEN s.seen.secret ELSE IF s.add THEN 0 ELSE s.legacy
  BY DEF KnownSecret
<1>7. Prepared(t, s, x)
  OBVIOUS
<1> HIDE DEF s
<1>8. \/ s.seen # None /\ x = s.seen.secret
      \/ s.seen = None /\ ~ s.add /\ s.legacy # 0 /\ x = Legacy
  BY <1>1, <1>6 DEF Sessions, Legacy
<1>9. /\ t \in Sessions /\ t.pc = "launch" /\ t.name = s.name /\ t.add = s.add
      /\ t.seen = None /\ t.legacy = 0 /\ t.keys = s.keys
      /\ t.rec \in WorkerRecords /\ t.rec # None /\ t.rec.app = 0 /\ t.rec.secret = x
      /\ t.rec.worker = (IF s.seen = None THEN 0 ELSE s.seen.worker)
      /\ t.rec.slots = s.keys /\ t.rec.secondary = s.add
  BY <1>7, NoneApart DEF Prepared
<1>10. Shape(t) /\ Active(t)
  BY <1>1, <1>5, <1>8, <1>9 DEF Shape, Active, Late, Early, Removing
<1>11. OnFile(t, recs)
  BY <1>1, <1>5, <1>8, <1>9 DEF OnFile, Early, Image
<1>12. OnCvm(t, cvms)
  BY <1>9 DEF OnCvm, Image
<1>13. OnRows(t, rows)
  <2>1. ASSUME ~ t.add, NEW w \in LiveIn(rows), Later(rows, w) PROVE t.rec.secret # rows[w].secret
    BY <1>1, <1>2, <1>5, <1>8, <1>9, <2>1 DEF OnRows, RowsFit
  <2>2. ASSUME t.add, NEW w \in LiveIn(rows) PROVE t.rec.secret # rows[w].secret
    BY <1>1, <1>8, <1>9, <2>2 DEF OnRows
  <2> QED BY <1>9, <2>1, <2>2 DEF OnRows
<1>14. OnLegacy(t, legacy)
  BY <1>1, <1>5, <1>8, <1>9 DEF OnLegacy
<1>15. OnRecord(t, recs, legacy, released)
  BY <1>1, <1>8, <1>9 DEF OnRecord
<1>16. \A y : Has(t, y) => Holds(recs, proc, t.name, y) \/ y \in {0, Legacy}
  BY <1>3, <1>8, <1>9 DEF Has
<1>17. SessionFit(t, recs, legacy, cvms, rows, released)
  BY <1>10, <1>11, <1>12, <1>13, <1>14, <1>15 DEF SessionFit
<1>18. Active(proc[p]) /\ t.name = proc[p].name
  BY <1>5, <1>9 DEF s
<1> QED BY <1>4, <1>9, <1>16, <1>17, <1>18, SessionMoves

(* A record prepared with a fresh secret, and saved.                       *)
LEMMA PrepareFreshInv ==
    ASSUME DeployInv, NEW p \in Procs, NEW t, NEW x \in Nat, x = Fresh, KnownSecret(proc[p]) = 0,
           proc[p].pc = "prepare", Prepared(t, proc[p], x), proc' = [proc EXCEPT ![p] = t],
           PersistFresh(proc[p].name, t.rec), UNCHANGED <<cvms, rows, keys, used>>
    PROVE  DeployInv'
<1> DEFINE s == proc[p]
<1>1. /\ s \in Sessions /\ Shape(s) /\ OnFile(s, recs)
      /\ OnLegacy(s, legacy) /\ OnRecord(s, recs, legacy, released)
  BY SessionParts
<1>2. /\ recs \in [Names -> WorkerRecords \cup {None}] /\ released \subseteq Nat
      /\ legacy \in {0, Legacy} /\ TypeOK /\ MaxCvms \in Nat
  BY InvParts, NoneApart DEF StoresTyped
<1>3. x \in Nat \ {0, Legacy} /\ x \notin SecretsInUse
  BY <1>2, FreshForm
<1>4. \A m \in Names : ~ Holds(recs, proc, m, x)
  BY <1>3 DEF Holds, Has, SecretsInUse, Tracked
<1>5. \A w \in LiveIn(rows) : rows[w].secret # x
  BY <1>2, <1>3, FirstLiveForm DEF SecretsInUse
<1>6. /\ s.pc = "prepare" /\ Prepared(t, s, x) /\ PersistFresh(s.name, t.rec)
      /\ 0 = IF s.seen # None THEN s.seen.secret ELSE IF s.add THEN 0 ELSE s.legacy
  BY DEF KnownSecret
<1>7. Active(s)
  BY <1>6 DEF Active, Early
<1>8. s.name = proc[p].name /\ Active(proc[p])
  BY <1>7
<1> HIDE DEF s
<1>9. s.seen = None /\ legacy = 0 /\ s.name \in Names
  <2>1. s.rec = None /\ s.name \in Names /\ s.seen = None
    BY <1>1, <1>6 DEF Shape, Late
  <2> QED BY <1>1, <1>6, <1>7, <2>1 DEF OnLegacy, Legacy
<1>10. recs[s.name] = None
  BY <1>1, <1>6, <1>7, <1>9 DEF OnFile, Early
<1> DEFINE n == s.name
           r == t.rec
<1>11. /\ t \in Sessions /\ t.pc = "launch" /\ t.name = n /\ t.add = s.add
       /\ t.seen = None /\ t.legacy = 0 /\ t.keys = s.keys
       /\ r \in WorkerRecords /\ r # None /\ r.app = 0 /\ r.secret = x
       /\ r.worker = 0 /\ r.slots = s.keys /\ r.secondary = s.add
  BY <1>6, <1>9, NoneApart DEF Prepared
<1>12. /\ recs' = Upserted(n, r) /\ legacy' = 0
       /\ released' = (released \cup TakesOver(n, r)) \ {x}
  BY <1>6, <1>11 DEF PersistFresh
<1>13. recs' = [m \in Names |-> IF m = n THEN r ELSE recs[m]] /\ TakesOver(n, r) = {}
  BY <1>11, <1>12 DEF Upserted, TakesOver
<1>14. Remembers(recs, legacy, released, recs', legacy', released') /\ released' \subseteq Nat
  <2>1. ASSUME NEW y, Known(y, recs, legacy, released)
        PROVE  Known(y, recs', legacy', released')
    <3>1. CASE y = x
      BY <1>9, <1>11, <1>13, <3>1 DEF Known
    <3>2. CASE y # x /\ y \in released
      BY <1>12, <3>2 DEF Known
    <3>3. CASE y = legacy
      BY <1>9, <1>12, <3>3 DEF Known
    <3>4. CASE \E m \in Names : recs[m] # None /\ recs[m].secret = y
      BY <1>10, <1>13, <3>4 DEF Known
    <3> QED BY <2>1, <3>1, <3>2, <3>3, <3>4 DEF Known
  <2> QED BY <1>2, <1>12, <1>13, <2>1 DEF Remembers
<1>15. RecordFit(r, n, cvms) /\ RecordRows(r, rows)
  <2>1. 0 \notin UpIn(cvms)
    BY <1>2 DEF UpIn, AppIds
  <2> QED BY <1>3, <1>5, <1>11, <2>1 DEF RecordFit, RecordRows
<1>16. SessionFit(t, recs', legacy', cvms, rows, released')
  <2>1. Shape(t)
    BY <1>3, <1>9, <1>11 DEF Shape, Late, Early, Removing
  <2>2. OnFile(t, recs')
    BY <1>9, <1>11, <1>13 DEF OnFile, Early, Image
  <2>3. OnCvm(t, cvms) /\ OnRows(t, rows)
    BY <1>5, <1>11 DEF OnCvm, OnRows, Image
  <2>4. OnLegacy(t, legacy') /\ OnRecord(t, recs', legacy', released')
    BY <1>9, <1>11, <1>12, <1>13 DEF OnLegacy, OnRecord, Known
  <2> QED BY <2>1, <2>2, <2>3, <2>4 DEF SessionFit
<1>17. \A y : Has(t, y) => y = r.secret /\ t.name = n
  BY <1>11 DEF Has
<1>18. \A m \in Names : ~ Holds(recs, proc, m, r.secret)
  BY <1>4, <1>11
<1>19. n \in Names /\ proc[p].name = n /\ Active(t) => t.name = n
  BY <1>8, <1>9, <1>11
<1> HIDE DEF n, r
<1> QED BY <1>8, <1>9, <1>11, <1>12, <1>14, <1>15, <1>16, <1>17, <1>18, <1>19, SavesInv DEF n

(* prepare_worker_record.                                                  *)
LEMMA PrepareInv ==
    ASSUME DeployInv, NEW p \in Procs, Prepare(p)
    PROVE  DeployInv'
<1> DEFINE s == proc[p]
           x == IF KnownSecret(s) = 0 THEN Fresh ELSE KnownSecret(s)
           r == WorkerRecord(IF s.seen = None THEN 0 ELSE s.seen.worker, 0, x, s.keys, s.add)
           t == [Idle EXCEPT !.pc = "launch", !.name = s.name, !.add = s.add, !.rec = r,
                             !.keys = s.keys]
<1>1. /\ s.pc = "prepare" /\ UNCHANGED <<cvms, rows, keys, used>>
      /\ proc' = [proc EXCEPT ![p] = t]
      /\ IF KnownSecret(s) = 0 THEN PersistFresh(s.name, r)
         ELSE UNCHANGED <<recs, legacy, released>>
  BY Zenon DEF Prepare, At, Goes
<1>2. s \in Sessions /\ TypeOK
  BY SessionParts, InvParts
<1>3. KnownSecret(s) \in Nat
  BY <1>2 DEF KnownSecret, Sessions, WorkerRecords, Legacy
<1>4. x \in Nat
  BY <1>2, <1>3, FreshForm
<1>5. Prepared(t, s, x)
  <2> HIDE DEF s, x
  <2> QED BY <1>2, <1>4, PreparedForm
<1>6. t.rec = r
  BY DEF Idle
<1> HIDE DEF r, t
<1>7. CASE KnownSecret(s) = 0
  <2>1. x = Fresh /\ PersistFresh(s.name, t.rec)
    BY <1>1, <1>6, <1>7
  <2> HIDE DEF x
  <2> QED BY <1>1, <1>4, <1>5, <1>7, <2>1, PrepareFreshInv
<1>8. CASE KnownSecret(s) # 0
  <2>1. x = KnownSecret(s) /\ x \in Nat \ {0} /\ UNCHANGED <<recs, legacy, released>>
    BY <1>1, <1>4, <1>8
  <2> HIDE DEF x
  <2> QED BY <1>1, <1>5, <2>1, PrepareKnownInv
<1> QED BY <1>7, <1>8

-----------------------------------------------------------------------------
(* Removing                                                                *)

(* A session that knows nothing goes on alone, and owns nothing.           *)
LEMMA ForgetfulMoves ==
    ASSUME DeployInv, NEW p \in Procs, NEW t \in Sessions, proc' = [proc EXCEPT ![p] = t],
           ~ Active(t), \A x : ~ Has(t, x), NEW Q, Spares(recs, Q, None)
    PROVE  Alone(proc') /\ Owned(Q, proc')
<1>1. Alone(proc) /\ Owned(recs, proc) /\ proc \in [Procs -> Sessions]
  BY InvParts
<1>2. Alone(proc')
  BY <1>1, AloneMoves
<1> DEFINE y == 0
<1>3. None \notin Names /\ y \in {0, Legacy}
  BY NoneApart
<1> HIDE DEF y
<1>4. Owned(Q, proc')
  BY <1>1, <1>3, OwnedMoves
<1> QED BY <1>2, <1>4

(* Records go, their secrets are let go of.                                *)
LEMMA LetGoInv ==
    ASSUME DeployInv, NEW p \in Procs, Ends(p), UNCHANGED <<legacy, cvms, rows, keys, used>>,
           NEW gone, gone \subseteq Names, \A n \in gone : recs[n] # None,
           recs' = [n \in Names |-> IF n \in gone THEN None ELSE recs[n]],
           released' = released \cup {recs[n].secret : n \in gone}
    PROVE  DeployInv'
<1>1. /\ StoresTyped /\ FileFit(recs, cvms) /\ RowsFit(rows, cvms) /\ FileRows(recs, rows)
      /\ LegacyFit(recs, legacy, cvms) /\ CvmsKnown(recs, legacy, cvms, released)
  BY InvParts
<1>2. proc' = [proc EXCEPT ![p] = Idle]
  BY DEF Ends, Goes
<1>3. Spares(recs, recs', None) /\ None \notin Names
  BY NoneApart DEF Spares
<1>4. StoresTyped'
  <2>1. recs' \in [Names -> WorkerRecords \cup {None}]
    BY <1>1 DEF StoresTyped
  <2>2. released' \subseteq Nat
    BY <1>1 DEF StoresTyped, WorkerRecords
  <2> QED BY <1>1, <2>1, <2>2 DEF StoresTyped
<1>5. Remembers(recs, legacy, released, recs', legacy', released')
  BY DEF Remembers, Known
<1>6. StoresFit(recs', legacy', cvms', rows', released')
  <2>1. FileFit(recs', cvms) /\ FileRows(recs', rows)
    BY <1>1, <1>3, FilesFit
  <2>2. LegacyFit(recs', legacy, cvms)
    BY <1>1 DEF LegacyFit
  <2>3. CvmsKnown(recs', legacy', cvms, released')
    BY <1>1, <1>5, KnownKeep
  <2> QED BY <1>1, <2>1, <2>2, <2>3 DEF StoresFit
<1>7. ASSUME NEW q \in Procs
      PROVE  SessionFit(proc[q], recs', legacy', cvms', rows', released')
  <2>1. /\ Shape(proc[q]) /\ OnFile(proc[q], recs) /\ OnCvm(proc[q], cvms)
        /\ OnRows(proc[q], rows) /\ OnLegacy(proc[q], legacy)
        /\ OnRecord(proc[q], recs, legacy, released)
    BY SessionParts
  <2>2. Active(proc[q]) => proc[q].name # None
    BY <1>3, <2>1 DEF Shape, Active, Early, Late, Image
  <2>3. OnFile(proc[q], recs')
    BY <1>3, <2>1, <2>2, FilesKeep
  <2>4. OnRecord(proc[q], recs', legacy', released')
    BY <1>5, <2>1, KnownKeep
  <2> QED BY <2>1, <2>3, <2>4 DEF SessionFit
<1>8. Alone(proc') /\ Owned(recs', proc')
  BY <1>2, <1>3, IdleFit, ForgetfulMoves
<1> QED BY <1>2, <1>4, <1>6, <1>7, <1>8, IdleFit, Moves

(* remove_provisional_worker and remove_worker_by_id.                      *)
LEMMA DropInv ==
    ASSUME DeployInv, NEW p \in Procs, Drop(p) \/ Forget(p)
    PROVE  DeployInv'
<1>1. recs \in [Names -> WorkerRecords \cup {None}]
  BY InvParts DEF StoresTyped
<1>2. CASE Drop(p)
  <2> DEFINE n == proc[p].name
             gone == IF recs[n] # None /\ recs[n].worker = 0 THEN {n} ELSE {}
  <2>1. /\ Ends(p) /\ UNCHANGED <<legacy, cvms, rows, keys, used>> /\ proc[p].pc = "drop"
        /\ recs' = IF recs[n] # None /\ recs[n].worker = 0 THEN [recs EXCEPT ![n] = None]
                   ELSE recs
        /\ released' = IF recs[n] # None /\ recs[n].worker = 0
                       THEN released \cup {recs[n].secret} ELSE released
    BY <1>2 DEF Drop, At, Tracked
  <2>2. n \in Names
    BY <2>1, SessionParts DEF Shape
  <2>3. /\ gone \subseteq Names /\ \A m \in gone : recs[m] # None
        /\ recs' = [m \in Names |-> IF m \in gone THEN None ELSE recs[m]]
        /\ released' = released \cup {recs[m].secret : m \in gone}
    BY <1>1, <2>1, <2>2
  <2> HIDE DEF gone
  <2> QED BY <2>1, <2>3, LetGoInv
<1>3. CASE Forget(p)
  <2> DEFINE gone == {n \in Names : recs[n] # None /\ recs[n].worker = proc[p].id}
  <2>1. /\ Ends(p) /\ UNCHANGED <<legacy, cvms, rows, keys, used>>
        /\ recs' = [n \in Names |-> IF n \in gone THEN None ELSE recs[n]]
        /\ released' = released \cup {recs[n].secret : n \in gone}
    BY <1>3 DEF Forget, Tracked
  <2>2. gone \subseteq Names /\ \A n \in gone : recs[n] # None
    OBVIOUS
  <2> HIDE DEF gone
  <2> QED BY <2>1, <2>2, LetGoInv
<1> QED BY <1>2, <1>3

(* A row is rewritten, or added at the end.                                *)
LEMMA RowsPut ==
    ASSUME NEW W \in Seq(Rows), NEW r \in Rows
    PROVE  /\ \A w \in 1 .. Len(W) :
                /\ [W EXCEPT ![w] = r] \in Seq(Rows)
                /\ DOMAIN [W EXCEPT ![w] = r] = DOMAIN W
                /\ \A v \in DOMAIN W : [W EXCEPT ![w] = r][v] = IF v = w THEN r ELSE W[v]
           /\ Append(W, r) \in Seq(Rows) /\ DOMAIN Append(W, r) = 1 .. Len(W) + 1
           /\ \A v \in 1 .. Len(W) + 1 :
                 Append(W, r)[v] = IF v = Len(W) + 1 THEN r ELSE W[v]
<1>1. ASSUME NEW w \in 1 .. Len(W) PROVE [W EXCEPT ![w] = r] \in Seq(Rows)
  BY ExceptSeq
<1>2. DOMAIN W = 1 .. Len(W)
  OBVIOUS
<1>3. \A w \in 1 .. Len(W) :
         /\ DOMAIN [W EXCEPT ![w] = r] = DOMAIN W
         /\ \A v \in DOMAIN W : [W EXCEPT ![w] = r][v] = IF v = w THEN r ELSE W[v]
  BY <1>2
<1>4. Append(W, r) \in Seq(Rows) /\ DOMAIN Append(W, r) = 1 .. Len(W) + 1
  OBVIOUS
<1>5. \A v \in 1 .. Len(W) + 1 : Append(W, r)[v] = IF v = Len(W) + 1 THEN r ELSE W[v]
  OBVIOUS
<1> QED BY <1>1, <1>3, <1>4, <1>5

(* What a row taken out of service leaves.                                 *)
LEMMA RowGone ==
    ASSUME DeployInv, NEW w \in Live, rows' = [rows EXCEPT ![w].live = FALSE],
           UNCHANGED <<recs, legacy, cvms, keys, released>>
    PROVE  /\ rows' \in Seq(Rows)
           /\ StoresFit(recs', legacy', cvms', rows', released')
           /\ \A q \in Procs : SessionFit(proc[q], recs', legacy', cvms', rows', released')
<1>1. /\ rows \in Seq(Rows) /\ FileFit(recs, cvms) /\ RowsFit(rows, cvms) /\ FileRows(recs, rows)
      /\ LegacyFit(recs, legacy, cvms) /\ CvmsKnown(recs, legacy, cvms, released) /\ TypeOK
  BY InvParts DEF StoresTyped
<1> DEFINE r == [rows[w] EXCEPT !.live = FALSE]
<1>2. w \in 1 .. Len(rows) /\ rows[w] \in Rows /\ LiveIn(rows) \subseteq 1 .. Len(rows)
  BY <1>1, RowsForm, FirstLiveForm
<1>3. r \in Rows /\ r.live = FALSE
  <2>1. \A x \in Rows : [x EXCEPT !.live = FALSE] \in Rows /\ [x EXCEPT !.live = FALSE].live = FALSE
    BY DEF Rows
  <2> QED BY <1>2, <2>1
<1>4. rows' = [rows EXCEPT ![w] = r]
  BY Zenon
<1> HIDE DEF r
<1>5. rows' \in Seq(Rows)
  <2>1. rows \in Seq(Rows)
    BY <1>1
  <2>2. \A v \in 1 .. Len(rows) : [rows EXCEPT ![v] = r] \in Seq(Rows)
    BY <1>3, <2>1, RowsPut
  <2> QED BY <1>2, <1>4, <2>2
<1>6. DOMAIN rows' = DOMAIN rows /\ \A v \in DOMAIN rows : v # w => rows'[v] = rows[v]
  BY <1>1, <1>4
<1>7. rows'[w] = r
  BY <1>1, <1>2, <1>4
<1>8. \A v \in LiveIn(rows') : v \in LiveIn(rows) /\ rows'[v] = rows[v]
  BY <1>3, <1>6, <1>7 DEF LiveIn
<1>9. RowsFit(rows', cvms) /\ FileRows(recs, rows')
  BY <1>1, <1>8, RowsFewer
<1>10. StoresFit(recs', legacy', cvms', rows', released')
  BY <1>1, <1>9 DEF StoresFit
<1>11. ASSUME NEW q \in Procs
       PROVE  SessionFit(proc[q], recs', legacy', cvms', rows', released')
  <2>1. SessionFit(proc[q], recs, legacy, cvms, rows, released)
    BY SessionParts
  <2>2. OnRows(proc[q], rows) => OnRows(proc[q], rows')
    BY <1>8, RowsFewer
  <2> QED BY <2>1, <2>2 DEF SessionFit
<1> QED BY <1>5, <1>10, <1>11

(* The registry drops a row by itself.                                     *)
LEMMA DeregisterInv ==
    ASSUME DeployInv, NEW w \in DOMAIN rows, Deregister(w)
    PROVE  DeployInv'
<1>1. /\ w \in Live /\ rows' = [rows EXCEPT ![w].live = FALSE]
      /\ used' = [used EXCEPT !.drops = @ + 1]
      /\ UNCHANGED <<recs, legacy, cvms, keys, proc, released>>
  BY DEF Deregister
<1>2. /\ rows' \in Seq(Rows) /\ StoresFit(recs', legacy', cvms', rows', released')
      /\ \A q \in Procs : SessionFit(proc[q], recs', legacy', cvms', rows', released')
  BY <1>1, RowGone
<1>3. StoresTyped /\ proc \in [Procs -> Sessions] /\ Alone(proc) /\ Owned(recs, proc)
  BY InvParts
<1>4. TypeOK'
  BY <1>1, <1>2, <1>3, CountsTyped DEF TypeOK, StoresTyped
<1> QED BY <1>1, <1>2, <1>3, <1>4 DEF DeployInv

(* The registry drops a row on the command's request, or refuses.          *)
LEMMA DeleteInv ==
    ASSUME DeployInv, NEW p \in Procs, Delete(p)
    PROVE  DeployInv'
<1> DEFINE w == proc[p].id
<1>1. proc[p].pc = "delete" /\ UNCHANGED <<recs, legacy, cvms, keys, used, released>>
  BY DEF Delete, At
<1>2. CASE w \in Live
  <2> DEFINE t == [proc[p] EXCEPT !.pc = "forget"]
  <2>1. rows' = [rows EXCEPT ![w].live = FALSE] /\ proc' = [proc EXCEPT ![p] = t]
    BY <1>2, Zenon DEF Delete, Goes
  <2>2. /\ rows' \in Seq(Rows) /\ StoresFit(recs', legacy', cvms', rows', released')
        /\ \A q \in Procs : SessionFit(proc[q], recs', legacy', cvms', rows', released')
    BY <1>1, <1>2, <2>1, RowGone
  <2>3. StoresTyped'
    BY <1>1, <2>2, InvParts DEF StoresTyped
  <2>4. proc[p] \in Sessions /\ Shape(proc[p])
    BY SessionParts
  <2>5. GoesOnTo(t, proc[p], "forget")
    BY <2>4, GoesOn
  <2> HIDE DEF t
  <2>6. /\ t \in Sessions /\ t.pc \in Removing /\ t.name \in Names /\ t.seen = None
        /\ t.rec = None /\ t.legacy = 0 /\ t.add = FALSE
    <3>1. proc[p].add \in BOOLEAN
      BY <2>4 DEF Sessions
    <3> QED BY <1>1, <2>4, <2>5, <3>1 DEF GoesOnTo, Shape, Removing, Late, Early
  <2>7. /\ ~ Active(t) /\ \A x : ~ Has(t, x)
        /\ SessionFit(t, recs', legacy', cvms', rows', released')
    BY <2>6, RemovingFit
  <2>8. Spares(recs, recs', None)
    BY <1>1 DEF Spares
  <2>9. Alone(proc') /\ Owned(recs', proc')
    BY <2>1, <2>6, <2>7, <2>8, ForgetfulMoves
  <2> QED BY <2>1, <2>2, <2>3, <2>6, <2>7, <2>9, Moves
<1>3. CASE w \notin Live
  <2>1. Ends(p) /\ UNCHANGED rows
    BY <1>3 DEF Delete
  <2>2. StoresTyped'
    BY <1>1, <2>1, InvParts DEF StoresTyped
  <2> QED BY <1>1, <2>1, <2>2, EndsInv
<1> QED BY <1>2, <1>3

-----------------------------------------------------------------------------
(* CVMs come and go                                                        *)

(* A session whose name has the CVMs it had fits.                          *)
LEMMA CvmsKeep ==
    ASSUME NEW C, NEW D, NEW s, OnCvm(s, C),
           Active(s) => /\ Named(D, s.name) = Named(C, s.name)
                        /\ \A a \in Named(C, s.name) : D[a] = C[a]
    PROVE  OnCvm(s, D)
<1>1. s.pc \in {"boot", "app", "register", "save", "imagesave"} \cup Image => Active(s)
  BY DEF Active, Late, Image
<1>2. CASE s.pc = "boot"
  BY <1>1, <1>2 DEF OnCvm, Image
<1>3. CASE s.pc \in {"app", "register", "save"}
  BY <1>1, <1>3 DEF OnCvm, Image
<1>4. CASE s.pc \in Image
  BY <1>1, <1>4 DEF OnCvm, Image
<1>5. CASE s.pc = "imagesave"
  BY <1>1, <1>5 DEF OnCvm, Image
<1>6. CASE s.pc \notin {"boot", "app", "register", "save", "imagesave"} \cup Image
  BY <1>6 DEF OnCvm, Image
<1> QED BY <1>2, <1>3, <1>4, <1>5, <1>6

(* The operator tears a CVM down that no command works on.                 *)
LEMMA TearDownInv ==
    ASSUME DeployInv, NEW p \in Procs, NEW a \in Up, TearDown(p, a)
    PROVE  DeployInv'
<1> DEFINE D == [cvms EXCEPT ![a] = None]
<1>1. /\ ~ Busy(cvms[a].name) /\ cvms' = D /\ Counts(p)
      /\ UNCHANGED <<recs, legacy, rows, keys, proc, released>>
  BY DEF TearDown
<1>2. /\ StoresTyped /\ proc \in [Procs -> Sessions] /\ Alone(proc) /\ Owned(recs, proc)
      /\ FileFit(recs, cvms) /\ RowsFit(rows, cvms) /\ FileRows(recs, rows)
      /\ LegacyFit(recs, legacy, cvms) /\ CvmsKnown(recs, legacy, cvms, released)
  BY InvParts
<1>3. /\ D \in [AppIds -> Cvms \cup {None}]
      /\ \A b \in UpIn(D) : b \in UpIn(cvms) /\ b # a /\ D[b] = cvms[b]
      /\ \A b \in UpIn(cvms) : b # a => b \in UpIn(D)
  BY <1>2 DEF StoresTyped, UpIn, Up
<1> HIDE DEF D
<1>4. StoresTyped'
  BY <1>1, <1>2, <1>3, CountsTyped DEF StoresTyped
<1>5. StoresFit(recs', legacy', cvms', rows', released')
  <2>1. FileFit(recs, D)
    BY <1>2, <1>3 DEF FileFit, RecordFit
  <2>2. RowsFit(rows, D)
    BY <1>2, <1>3 DEF RowsFit
  <2>3. LegacyFit(recs, legacy, D) /\ CvmsKnown(recs, legacy, D, released)
    BY <1>2, <1>3 DEF LegacyFit, CvmsKnown
  <2> QED BY <1>1, <1>2, <2>1, <2>2, <2>3 DEF StoresFit
<1>6. ASSUME NEW q \in Procs
      PROVE  SessionFit(proc'[q], recs', legacy', cvms', rows', released')
  <2>1. SessionFit(proc[q], recs, legacy, cvms, rows, released)
    BY SessionParts
  <2>2. Active(proc[q]) => proc[q].name # cvms[a].name
    BY <1>1, NotBusy
  <2>3. ASSUME Active(proc[q])
        PROVE  /\ Named(D, proc[q].name) = Named(cvms, proc[q].name)
               /\ \A b \in Named(cvms, proc[q].name) : D[b] = cvms[b]
    BY <1>3, <2>2, <2>3 DEF Named
  <2>4. OnCvm(proc[q], D)
    BY <2>1, <2>3, CvmsKeep DEF SessionFit
  <2> QED BY <1>1, <2>1, <2>4 DEF SessionFit
<1>7. TypeOK'
  BY <1>1, <1>2, <1>4 DEF StoresTyped, TypeOK
<1> QED BY <1>1, <1>2, <1>5, <1>6, <1>7 DEF DeployInv

(* A session that has launched its CVM.                                    *)
LEMMA LaunchedForm ==
    ASSUME NEW s \in Sessions
    PROVE  GoesOnTo([s EXCEPT !.pc = "boot", !.keys = 0], s, "boot")
BY DEF Sessions, GoesOnTo

(* The CVM is launched under a name that nothing has, with an app id that  *)
(* nothing refers to.                                                      *)
LEMMA LaunchInv ==
    ASSUME DeployInv, NEW p \in Procs, Launch(p)
    PROVE  DeployInv'
<1> DEFINE s == proc[p]
           b == Min(AppIds \ AppsInUse)
           c == [name |-> s.name, secret |-> s.rec.secret, keys |-> s.keys]
           D == [cvms EXCEPT ![b] = c]
           t == [s EXCEPT !.pc = "boot", !.keys = 0]
<1>1. /\ s.pc = "launch" /\ UNCHANGED <<recs, legacy, rows, keys, used, released>>
      /\ \/ Ends(p) /\ UNCHANGED cvms
         \/ /\ NamedCvms(s.name) = {} /\ AppIds \ AppsInUse # {} /\ cvms' = D
            /\ proc' = [proc EXCEPT ![p] = t]
  BY Zenon DEF Launch, At, Goes
<1>2. /\ StoresTyped /\ proc \in [Procs -> Sessions] /\ Alone(proc) /\ Owned(recs, proc)
      /\ FileFit(recs, cvms) /\ RowsFit(rows, cvms) /\ FileRows(recs, rows) /\ TypeOK
      /\ LegacyFit(recs, legacy, cvms) /\ CvmsKnown(recs, legacy, cvms, released)
  BY InvParts
<1>3. CASE Ends(p) /\ UNCHANGED cvms
  <2>1. StoresTyped'
    BY <1>1, <1>2, <1>3 DEF StoresTyped
  <2> QED BY <1>1, <1>3, <2>1, EndsInv
<1>4. CASE /\ NamedCvms(s.name) = {} /\ AppIds \ AppsInUse # {} /\ cvms' = D
           /\ proc' = [proc EXCEPT ![p] = t]
  <2>1. /\ s \in Sessions /\ Shape(s) /\ OnFile(s, recs) /\ OnCvm(s, cvms)
        /\ OnRows(s, rows) /\ OnLegacy(s, legacy) /\ OnRecord(s, recs, legacy, released)
    BY SessionParts
  <2>2. b \in AppIds \ AppsInUse
    BY <1>4, MinForm DEF AppIds
  <2>3. /\ b \notin UpIn(cvms)
        /\ \A n \in Names : recs[n] # None => recs[n].app # b
        /\ \A w \in LiveIn(rows) : rows[w].cvm # b
    BY <1>2, <2>2, FirstLiveForm DEF AppsInUse, Up, UpIn, Tracked
  <2>4. \A x : Has(s, x) => Holds(recs, proc, s.name, x)
    BY DEF Holds
  <2>5. Named(cvms, s.name) = {}
    BY <1>4 DEF NamedCvms, Up, Named, UpIn
  <2>6. /\ proc' = [proc EXCEPT ![p] = t] /\ cvms' = D
    BY <1>4
  <2>7. /\ \A q \in Procs \ {p} : Active(s) /\ Active(proc[q]) => proc[q].name # s.name
        /\ Active(s) => Active(proc[p])
        /\ s.name = proc[p].name
    BY <1>2 DEF Alone
  <2> HIDE DEF b
  <2> HIDE DEF s
  <2>8. /\ s.name \in Names /\ s.rec \in WorkerRecords /\ s.rec # None /\ s.rec.secret \in Nat
        /\ s.rec.secret # 0 /\ s.keys \in Nat /\ s.seen = None /\ s.rec.slots = s.keys
        /\ Active(s) /\ s.rec.secondary = s.add /\ (s.add => s.rec.worker = 0)
        /\ s.rec.app = 0 /\ (s.add => s.rec.secret # Legacy)
    BY <1>1, <2>1 DEF Shape, Late, Sessions, Active, WorkerRecords
  <2>9. GoesOnTo(t, s, "boot")
    BY <2>1, LaunchedForm
  <2> HIDE DEF t
  <2>10. /\ t \in Sessions /\ t.pc = "boot" /\ t.name = s.name /\ t.add = s.add /\ t.seen = None
         /\ t.legacy = s.legacy /\ t.rec = s.rec /\ t.app = s.app
    BY <2>8, <2>9 DEF GoesOnTo
  <2>11. c \in Cvms /\ c # None /\ c.name = s.name /\ c.secret = s.rec.secret /\ c.keys = s.keys
    BY <2>8, NoneApart DEF Cvms
  <2> HIDE DEF c
  <2>12. /\ D \in [AppIds -> Cvms \cup {None}] /\ D[b] = c /\ b \in UpIn(D)
         /\ \A a \in UpIn(D) : a = b \/ (a \in UpIn(cvms) /\ D[a] = cvms[a])
         /\ \A a \in UpIn(cvms) : a \in UpIn(D) /\ D[a] = cvms[a]
    BY <1>2, <2>2, <2>3, <2>11 DEF StoresTyped, UpIn
  <2> HIDE DEF D
  <2>13. StoresTyped'
    BY <1>1, <1>2, <2>6, <2>12 DEF StoresTyped
  <2>14. StoresFit(recs', legacy', cvms', rows', released')
    <3>1. FileFit(recs, D)
      BY <1>2, <2>3, <2>12 DEF FileFit, RecordFit
    <3>2. RowsFit(rows, D)
      BY <1>2, <2>3, <2>12 DEF RowsFit
    <3>3. LegacyFit(recs, legacy, D)
      BY <1>2, <2>1, <2>8, <2>11, <2>12 DEF LegacyFit, OnLegacy
    <3>4. CvmsKnown(recs, legacy, D, released)
      BY <1>2, <2>1, <2>8, <2>11, <2>12 DEF CvmsKnown, OnRecord
    <3> QED BY <1>1, <1>2, <2>6, <3>1, <3>2, <3>3, <3>4 DEF StoresFit
  <2>15. SessionFit(t, recs', legacy', cvms', rows', released')
    <3>1. Shape(t)
      BY <1>1, <2>1, <2>8, <2>10 DEF Shape, Late, Early, Removing
    <3>2. OnFile(t, recs)
      BY <2>1, <2>8, <2>10 DEF OnFile, Early, Image
    <3>3. \A a \in Named(D, s.name) : a = b
      BY <2>5, <2>12 DEF Named
    <3>4. OnCvm(t, D)
      BY <2>8, <2>10, <2>11, <2>12, <3>3 DEF OnCvm, Image
    <3>5. OnRows(t, rows)
      BY <1>1, <2>1, <2>8, <2>10 DEF OnRows
    <3>6. OnLegacy(t, legacy)
      BY <2>1, <2>8, <2>10 DEF OnLegacy
    <3>7. OnRecord(t, recs, legacy, released)
      BY <2>1, <2>8, <2>10 DEF OnRecord
    <3> QED BY <1>1, <2>6, <3>1, <3>2, <3>4, <3>5, <3>6, <3>7 DEF SessionFit
  <2>16. ASSUME NEW q \in Procs \ {p}
         PROVE  SessionFit(proc[q], recs', legacy', cvms', rows', released')
    <3>1. SessionFit(proc[q], recs, legacy, cvms, rows, released)
      BY SessionParts
    <3>2. Active(proc[q]) => proc[q].name # s.name
      BY <2>7, <2>8
    <3>3. ASSUME Active(proc[q])
          PROVE  /\ Named(D, proc[q].name) = Named(cvms, proc[q].name)
                 /\ \A a \in Named(cvms, proc[q].name) : D[a] = cvms[a]
      BY <2>11, <2>12, <3>2, <3>3 DEF Named
    <3>4. OnCvm(proc[q], D)
      BY <3>1, <3>3, CvmsKeep DEF SessionFit
    <3> QED BY <1>1, <2>6, <3>1, <3>4 DEF SessionFit
  <2>17. Active(proc[p]) /\ t.name = proc[p].name
    BY <2>7, <2>8, <2>10
  <2>18. Alone(proc')
    BY <1>2, <2>6, <2>10, <2>17, AloneMoves
  <2>19. Owned(recs', proc')
    <3> DEFINE y == 0
    <3>1. Spares(recs, recs, None) /\ None \notin Names /\ y \in {0, Legacy}
      BY NoneApart DEF Spares
    <3> HIDE DEF y
    <3>2. \A x : Has(t, x) =>
             Holds(recs, proc, t.name, x) \/ x \in {0, Legacy} \/ (x = y /\ t.name = None)
      BY <2>4, <2>8, <2>10 DEF Has
    <3>3. Owned(recs, proc')
      BY <1>2, <2>6, <2>10, <3>1, <3>2, OwnedMoves
    <3> QED BY <1>1, <3>3
  <2> QED BY <2>6, <2>10, <2>13, <2>14, <2>15, <2>16, <2>18, <2>19, Moves
<1> QED BY <1>1, <1>3, <1>4

-----------------------------------------------------------------------------
(* Registering                                                             *)

(* The rows V are the rows W but for the live row v, which is r; no other  *)
(* row has come to be a later one.                                         *)
Placed(W, V, v, r) ==
    /\ v \in Nat \ {0} /\ v \in LiveIn(V) /\ V[v] = r
    /\ \A w \in LiveIn(V) : w # v =>
          w \in LiveIn(W) /\ V[w] = W[w] /\ (Later(V, w) => Later(W, w))

(* The row v is the oldest one, and the others are later than it.          *)
Front(W, V, v) == ~ Later(V, v) /\ \A w \in LiveIn(V) : w # v => Later(W, w)

(* The row that POST /miners/register leaves.                              *)
Answered(r, app, secret, slots) ==
    /\ r.cvm = app /\ r.sent = (secret # 0) /\ r.slots = slots
    /\ \/ r.secret = secret
       \/ secret = 0 /\ RegisteredId \in LiveIn(rows) /\ r.secret = rows[RegisteredId].secret

(* A row appended is live, and younger than all others.                    *)
LEMMA AppendForm ==
    ASSUME NEW W \in Seq(Rows), NEW r \in Rows, r.live
    PROVE  /\ Append(W, r) \in Seq(Rows) /\ Len(W) \in Nat
           /\ Placed(W, Append(W, r), Len(W) + 1, r)
           /\ LiveIn(W) = {} => Front(W, Append(W, r), Len(W) + 1)
<1> DEFINE V == Append(W, r)
           v == Len(W) + 1
<1>1. /\ V \in Seq(Rows) /\ DOMAIN V = 1 .. Len(W) + 1
      /\ \A w \in 1 .. Len(W) + 1 : V[w] = IF w = Len(W) + 1 THEN r ELSE W[w]
  BY RowsPut
<1>2. Len(W) \in Nat /\ DOMAIN W = 1 .. Len(W)
  OBVIOUS
<1>3. v \in Nat \ {0} /\ v \in LiveIn(V) /\ V[v] = r
  BY <1>1, <1>2 DEF LiveIn
<1>4. ASSUME NEW w \in LiveIn(V), w # v
      PROVE  w \in LiveIn(W) /\ V[w] = W[w] /\ w < v /\ w \in Nat
  BY <1>1, <1>2, <1>4 DEF LiveIn
<1> HIDE DEF V, v
<1>5. ASSUME NEW w \in LiveIn(V), w # v, Later(V, w) PROVE Later(W, w)
  <2>1. PICK u \in LiveIn(V) : u < w
    BY <1>5 DEF Later
  <2>2. u # v
    BY <1>3, <1>4, <1>5, <2>1
  <2> QED BY <1>4, <1>5, <2>1, <2>2 DEF Later
<1>6. Placed(W, V, v, r)
  BY <1>3, <1>4, <1>5 DEF Placed
<1>7. LiveIn(W) = {} => Front(W, V, v)
  <2>1. LiveIn(W) = {} => \A w \in LiveIn(V) : w = v
    BY <1>4
  <2> QED BY <1>3, <2>1 DEF Front, Later
<1> QED BY <1>1, <1>2, <1>6, <1>7 DEF V, v

(* POST /miners/register writes the oldest live row, or the first one.     *)
LEMMA RegisteredForm ==
    ASSUME DeployInv, NEW app \in Nat, NEW secret \in Nat, NEW slots \in Nat,
           Registered(app, secret, slots)
    PROVE  \E r \in Rows : /\ Answered(r, app, secret, slots) /\ rows' \in Seq(Rows)
                           /\ Placed(rows, rows', RegisteredId, r)
                           /\ Front(rows, rows', RegisteredId)
<1> DEFINE w == FirstLive
           x == IF secret # 0 \/ w = 0 THEN secret ELSE rows[w].secret
           r == [cvm |-> app, sent |-> secret # 0, slots |-> slots, live |-> TRUE, secret |-> x]
<1>1. rows' = IF w = 0 THEN Append(rows, r) ELSE [rows EXCEPT ![w] = r]
  BY DEF Registered
<1>2. /\ rows \in Seq(Rows) /\ TypeOK
  BY InvParts DEF StoresTyped
<1>3. /\ Live = LiveIn(rows) /\ w \in Nat /\ (Live = {} => w = 0)
      /\ Live # {} => w \in Live /\ \A v \in Live : w <= v
  BY <1>2, FirstLiveForm
<1>4. \A v \in LiveIn(rows) : v \in Nat /\ v # 0 /\ rows[v] \in Rows /\ v \in 1 .. Len(rows)
  BY <1>2, RowsForm
<1>5. x \in Nat /\ (x = secret \/ (secret = 0 /\ w \in LiveIn(rows) /\ x = rows[w].secret))
  BY <1>3, <1>4 DEF Rows
<1>6. RegisteredId = IF w = 0 THEN Len(rows) + 1 ELSE w
  BY DEF RegisteredId
<1> HIDE DEF x
<1>7. /\ r \in Rows /\ r.live /\ r.cvm = app /\ r.sent = (secret # 0)
      /\ r.slots = slots /\ r.secret = x
  BY <1>5 DEF Rows
<1> HIDE DEF r
<1> HIDE DEF w
<1>8. CASE Live = {}
  <2>1. w = 0 /\ rows' = Append(rows, r) /\ RegisteredId = Len(rows) + 1 /\ LiveIn(rows) = {}
    BY <1>1, <1>3, <1>6, <1>8
  <2>2. /\ rows' \in Seq(Rows) /\ Placed(rows, rows', RegisteredId, r)
        /\ Front(rows, rows', RegisteredId)
    BY <1>2, <1>7, <2>1, AppendForm
  <2>3. Answered(r, app, secret, slots)
    BY <1>5, <1>7, <2>1 DEF Answered
  <2> QED BY <1>7, <2>2, <2>3
<1>9. CASE Live # {}
  <2>1. /\ w \in LiveIn(rows) /\ w # 0 /\ w \in Nat /\ w \in 1 .. Len(rows)
        /\ rows' = [rows EXCEPT ![w] = r] /\ RegisteredId = w
    BY <1>1, <1>3, <1>4, <1>6, <1>9
  <2>2. /\ rows' \in Seq(Rows) /\ DOMAIN rows' = DOMAIN rows
        /\ \A v \in DOMAIN rows : rows'[v] = IF v = w THEN r ELSE rows[v]
    <3>1. /\ \A u \in 1 .. Len(rows) : [rows EXCEPT ![u] = r] \in Seq(Rows)
      BY <1>2, <1>7, RowsPut
    <3>2. rows' \in Seq(Rows)
      BY <2>1, <3>1
    <3> QED BY <1>2, <2>1, <3>2
  <2>3. /\ w \in LiveIn(rows') /\ rows'[w] = r
        /\ \A v \in LiveIn(rows') : v # w => v \in LiveIn(rows) /\ rows'[v] = rows[v]
    BY <1>7, <2>1, <2>2 DEF LiveIn
  <2>4. ASSUME NEW v \in LiveIn(rows'), v # w PROVE w < v /\ v \in LiveIn(rows) /\ v \in Nat
    <3>1. v \in LiveIn(rows)
      BY <2>3, <2>4
    <3>2. v \in Nat /\ w <= v
      BY <1>3, <1>4, <3>1
    <3> QED BY <2>1, <2>4, <3>1, <3>2
  <2>5. \A v \in LiveIn(rows') : v # w => Later(rows, v)
    BY <2>1, <2>4 DEF Later
  <2>6. ~ Later(rows', w)
    <3>1. SUFFICES ASSUME NEW u \in LiveIn(rows'), u < w PROVE FALSE
      BY DEF Later
    <3>2. u # w
      BY <2>1, <3>1
    <3>3. w < u /\ u \in Nat
      BY <2>4, <3>1, <3>2
    <3> QED BY <2>1, <3>1, <3>3
  <2>7. Placed(rows, rows', w, r) /\ Front(rows, rows', w)
    BY <2>1, <2>3, <2>5, <2>6 DEF Placed, Front
  <2>8. Answered(r, app, secret, slots)
    BY <1>5, <1>7, <2>1 DEF Answered
  <2> QED BY <1>7, <2>1, <2>2, <2>7, <2>8
<1> QED BY <1>8, <1>9

(* The secret that a session puts into a row is no other name's.           *)
LEMMA OthersApart ==
    ASSUME DeployInv, NEW p \in Procs, Active(proc[p]), NEW x \in Nat \ {0, Legacy},
           Has(proc[p], x)
    PROVE  /\ \A n \in Names : recs[n] # None /\ recs[n].secret = x => n = proc[p].name
           /\ \A q \in Procs \ {p} : ~ Has(proc[q], x)
<1>1. Alone(proc) /\ Owned(recs, proc)
  BY InvParts
<1>2. Active(proc[p]) => proc[p].name \in Names
  BY SessionParts DEF Shape, Active, Early, Late, Image
<1>3. Holds(recs, proc, proc[p].name, x)
  BY DEF Holds
<1>4. ASSUME NEW n \in Names, recs[n] # None, recs[n].secret = x PROVE n = proc[p].name
  <2>1. Holds(recs, proc, n, x)
    BY <1>4 DEF Holds
  <2> QED BY <1>1, <1>2, <1>3, <2>1 DEF Owned
<1>5. ASSUME NEW q \in Procs \ {p}, Has(proc[q], x) PROVE FALSE
  <2>1. Active(proc[q]) /\ proc[q].name \in Names
    <3>1. Shape(proc[q]) /\ proc[q] \in Sessions
      BY SessionParts
    <3>2. proc[q].pc \notin Removing \cup {"idle"}
      BY <1>5, <3>1 DEF Shape, Has, Late, Removing
    <3> QED BY <3>1, <3>2 DEF Shape, Sessions, Active, Early, Late, Image, Removing
  <2>2. Holds(recs, proc, proc[q].name, x)
    BY <1>5 DEF Holds
  <2>3. proc[q].name = proc[p].name
    BY <1>1, <1>2, <1>3, <2>1, <2>2 DEF Owned
  <2> QED BY <1>1, <2>1, <2>3 DEF Alone
<1> QED BY <1>4, <1>5

(* What a row put in place leaves: it is true of its CVM, its secret is    *)
(* the session's own, the one the row had, or the legacy one or none.      *)
LEMMA RowPlaced ==
    ASSUME DeployInv, NEW p \in Procs, Active(proc[p]), NEW v, NEW r \in Rows,
           Placed(rows, rows', v, r),
           r.cvm \in UpIn(cvms) => /\ r.sent => r.secret = cvms[r.cvm].secret
                                   /\ r.slots \in {0, cvms[r.cvm].keys},
           \A w \in LiveIn(rows) : w # v /\ w \in LiveIn(rows') =>
              rows[w].secret # r.secret \/ r.secret = 0,
           Later(rows', v) => Has(proc[p], r.secret) /\ r.secret \notin {0, Legacy},
           \/ r.secret \in {0, Legacy}
           \/ v \in LiveIn(rows) /\ r.secret = rows[v].secret /\ ~ Later(rows', v)
           \/ Has(proc[p], r.secret),
           \A n \in {proc[p].name} :
              recs[n] # None /\ recs[n].secret = r.secret /\ Has(proc[p], r.secret) =>
                 recs[n].app # 0 /\ (Later(rows', v) => IsOf(recs[n], v))
    PROVE  /\ RowsFit(rows', cvms) /\ FileRows(recs, rows')
           /\ \A q \in Procs \ {p} : OnRows(proc[q], rows')
<1>1. /\ FileFit(recs, cvms) /\ RowsFit(rows, cvms) /\ FileRows(recs, rows)
  BY InvParts
<1>2. /\ v \in LiveIn(rows') /\ rows'[v] = r /\ r.secret \in Nat
      /\ \A w \in LiveIn(rows') : w # v =>
            w \in LiveIn(rows) /\ rows'[w] = rows[w] /\ (Later(rows', w) => Later(rows, w))
  BY DEF Placed, Rows
<1>3. RowsFit(rows', cvms)
  <2>1. ASSUME NEW w \in LiveIn(rows'), rows'[w].cvm \in UpIn(cvms)
        PROVE  /\ rows'[w].sent => rows'[w].secret = cvms[rows'[w].cvm].secret
               /\ rows'[w].slots \in {0, cvms[rows'[w].cvm].keys}
    <3>1. CASE w = v
      BY <1>2, <2>1, <3>1
    <3>2. CASE w # v
      BY <1>1, <1>2, <2>1, <3>2 DEF RowsFit
    <3> QED BY <3>1, <3>2
  <2>2. ASSUME NEW u \in LiveIn(rows'), NEW w \in LiveIn(rows'), u # w
        PROVE  rows'[u].secret # rows'[w].secret \/ rows'[u].secret = 0
    <3>1. CASE u = v
      BY <1>2, <2>2, <3>1
    <3>2. CASE w = v
      BY <1>2, <2>2, <3>2
    <3>3. CASE u # v /\ w # v
      BY <1>1, <1>2, <2>2, <3>3 DEF RowsFit
    <3> QED BY <3>1, <3>2, <3>3
  <2>3. ASSUME NEW w \in LiveIn(rows'), Later(rows', w)
        PROVE  rows'[w].secret \notin {0, Legacy}
    <3>1. CASE w = v
      BY <1>2, <2>3, <3>1
    <3>2. CASE w # v
      BY <1>1, <1>2, <2>3, <3>2 DEF RowsFit
    <3> QED BY <3>1, <3>2
  <2> QED BY <2>1, <2>2, <2>3 DEF RowsFit
<1>4. Has(proc[p], r.secret) /\ r.secret \notin {0, Legacy} =>
         /\ \A n \in Names : recs[n] # None /\ recs[n].secret = r.secret => n = proc[p].name
         /\ \A q \in Procs \ {p} : ~ Has(proc[q], r.secret)
  <2>1. r.secret \notin {0, Legacy} => r.secret \in Nat \ {0, Legacy}
    BY <1>2
  <2> DEFINE x == r.secret
  <2> HIDE DEF x
  <2>2. ASSUME Has(proc[p], x), x \in Nat \ {0, Legacy}
        PROVE  /\ \A n \in Names : recs[n] # None /\ recs[n].secret = x => n = proc[p].name
               /\ \A q \in Procs \ {p} : ~ Has(proc[q], x)
    BY <2>2, OthersApart
  <2> QED BY <2>1, <2>2 DEF x
<1>5. FileRows(recs, rows')
  <2>1. SUFFICES ASSUME NEW n \in Names, recs[n] # None, NEW w \in LiveIn(rows')
                 PROVE  /\ Later(rows', w) /\ recs[n].secret = rows'[w].secret => IsOf(recs[n], w)
                        /\ recs[n].worker = 0 /\ recs[n].app = 0 /\ recs[n].secondary =>
                              recs[n].secret # rows'[w].secret
    BY DEF FileRows, RecordRows
  <2>2. RecordRows(recs[n], rows) /\ RecordFit(recs[n], n, cvms)
    BY <1>1, <2>1 DEF FileRows, FileFit
  <2>3. CASE w # v
    BY <1>2, <2>1, <2>2, <2>3 DEF RecordRows
  <2>4. CASE w = v
    <3>1. Later(rows', v) /\ recs[n].secret = r.secret => IsOf(recs[n], v)
      BY <1>4, <2>1
    <3>2. ASSUME recs[n].worker = 0, recs[n].app = 0, recs[n].secondary,
                 recs[n].secret = r.secret
          PROVE  FALSE
      <4>1. r.secret \notin {0, Legacy}
        BY <2>2, <3>2 DEF RecordFit
      <4>2. ~ Has(proc[p], r.secret)
        BY <1>4, <2>1, <3>2, <4>1
      <4>3. v \in LiveIn(rows) /\ r.secret = rows[v].secret
        BY <4>1, <4>2
      <4> QED BY <2>2, <3>2, <4>3 DEF RecordRows
    <3> QED BY <1>2, <2>4, <3>1, <3>2
  <2> QED BY <2>3, <2>4
<1>6. ASSUME NEW q \in Procs \ {p} PROVE OnRows(proc[q], rows')
  <2> DEFINE y == proc[q]
  <2>1. OnRows(y, rows) /\ Shape(y)
    BY SessionParts
  <2>2. Has(proc[p], r.secret) /\ r.secret \notin {0, Legacy} => ~ Has(y, r.secret)
    BY <1>4
  <2> HIDE DEF y
  <2>3. ASSUME y.seen # None, ~ y.add, NEW w \in LiveIn(rows'), Later(rows', w),
               y.seen.secret = rows'[w].secret
        PROVE  y.pc \in {"guard", "image"} /\ IsOf(y.seen, w)
    <3>1. w # v
      BY <1>2, <2>2, <2>3 DEF Has
    <3> QED BY <1>2, <2>1, <2>3, <3>1 DEF OnRows
  <2>4. ASSUME y.rec # None, ~ y.add, NEW w \in LiveIn(rows'), Later(rows', w)
        PROVE  y.rec.secret # rows'[w].secret
    <3>1. CASE w # v
      BY <1>2, <2>1, <2>4, <3>1 DEF OnRows
    <3>2. CASE w = v
      BY <1>2, <2>2, <2>4, <3>2 DEF Has
    <3> QED BY <3>1, <3>2
  <2>5. ASSUME y.seen # None, y.add, NEW w \in LiveIn(rows')
        PROVE  y.seen.secret # rows'[w].secret
    <3>1. CASE w # v
      BY <1>2, <2>1, <2>5, <3>1 DEF OnRows
    <3>2. CASE w = v
      <4>1. y.seen.secret \notin {0, Legacy}
        BY <2>1, <2>5 DEF Shape
      <4>2. v \in LiveIn(rows) => y.seen.secret # rows[v].secret
        BY <2>1, <2>5 DEF OnRows
      <4> QED BY <1>2, <2>2, <2>5, <3>2, <4>1, <4>2 DEF Has
    <3> QED BY <3>1, <3>2
  <2>6. ASSUME y.rec # None, y.add, NEW w \in LiveIn(rows'), y.rec.secret = rows'[w].secret
        PROVE  y.pc = "save" /\ w = y.rec.worker
    <3>1. CASE w # v
      BY <1>2, <2>1, <2>6, <3>1 DEF OnRows
    <3>2. CASE w = v
      <4>1. y.rec.secret \notin {0, Legacy}
        BY <2>1, <2>6 DEF Shape, Early, Late
      <4>2. v \in LiveIn(rows) /\ r.secret = rows[v].secret
        BY <1>2, <2>2, <2>6, <3>2, <4>1 DEF Has
      <4> QED BY <1>2, <2>1, <2>6, <3>2, <4>2 DEF OnRows
    <3> QED BY <3>1, <3>2
  <2>7. OnRows(y, rows')
    BY <2>3, <2>4, <2>5, <2>6 DEF OnRows
  <2> QED BY <2>7 DEF y
<1> QED BY <1>3, <1>5, <1>6

(* What the command has to fit, for the row it has placed to be all right. *)
LEMMA PlacedInv ==
    ASSUME DeployInv, NEW p \in Procs, NEW t \in Sessions, proc' = [proc EXCEPT ![p] = t],
           UNCHANGED <<recs, legacy, cvms, keys, used, released>>, rows' \in Seq(Rows),
           RowsFit(rows', cvms), FileRows(recs, rows'),
           \A q \in Procs \ {p} : OnRows(proc[q], rows'),
           SessionFit(t, recs, legacy, cvms, rows', released),
           Active(proc[p]), t.name = proc[p].name,
           \A x : Has(t, x) => Has(proc[p], x) \/ x \in {0, Legacy}
    PROVE  DeployInv'
<1>1. /\ StoresTyped /\ proc \in [Procs -> Sessions] /\ Alone(proc) /\ Owned(recs, proc)
      /\ FileFit(recs, cvms)
      /\ LegacyFit(recs, legacy, cvms) /\ CvmsKnown(recs, legacy, cvms, released)
  BY InvParts
<1>2. StoresTyped'
  BY <1>1 DEF StoresTyped
<1>3. StoresFit(recs', legacy', cvms', rows', released')
  BY <1>1 DEF StoresFit
<1>4. ASSUME NEW q \in Procs \ {p}
      PROVE  SessionFit(proc[q], recs', legacy', cvms', rows', released')
  <2>1. SessionFit(proc[q], recs, legacy, cvms, rows, released)
    BY SessionParts
  <2> QED BY <2>1 DEF SessionFit
<1>5. Alone(proc')
  BY <1>1, AloneMoves
<1>6. Owned(recs', proc')
  <2> DEFINE y == 0
  <2>1. Spares(recs, recs, None) /\ None \notin Names /\ y \in {0, Legacy}
    BY NoneApart DEF Spares
  <2> HIDE DEF y
  <2>2. \A x : Has(t, x) =>
           Holds(recs, proc, t.name, x) \/ x \in {0, Legacy} \/ (x = y /\ t.name = None)
    BY DEF Holds
  <2>3. Owned(recs, proc')
    BY <1>1, <2>1, <2>2, OwnedMoves
  <2> QED BY <2>3
<1>7. SessionFit(t, recs', legacy', cvms', rows', released')
  OBVIOUS
<1> QED BY <1>2, <1>3, <1>4, <1>5, <1>6, <1>7, Moves

(* The session of a command that has registered its worker as v.           *)
Enrolled(t, s, v) ==
    /\ t \in Sessions /\ t.pc = "save" /\ t.name = s.name /\ t.add = s.add
    /\ t.seen = s.seen /\ t.legacy = s.legacy
    /\ t.rec \in WorkerRecords /\ t.rec.app = s.rec.app /\ t.rec.worker = v
    /\ t.rec.secret = s.rec.secret /\ t.rec.slots = s.rec.slots /\ t.rec.secondary = FALSE

(* So it is when it takes down the worker id.                              *)
LEMMA EnrolledForm ==
    ASSUME NEW s \in Sessions, s.rec \in WorkerRecords, NEW v \in Nat
    PROVE  Enrolled([s EXCEPT !.pc = "save", !.rec.secondary = FALSE, !.rec.worker = v], s, v)
<1> DEFINE r == [s.rec EXCEPT !.secondary = FALSE, !.worker = v]
<1>1. /\ r \in WorkerRecords /\ r.app = s.rec.app /\ r.worker = v /\ r.secondary = FALSE
      /\ r.secret = s.rec.secret /\ r.slots = s.rec.slots
  BY DEF WorkerRecords
<1>2. [s EXCEPT !.pc = "save", !.rec.secondary = FALSE, !.rec.worker = v]
        = [s EXCEPT !.pc = "save", !.rec = r]
  BY DEF Sessions, WorkerRecords
<1> HIDE DEF r
<1> DEFINE t == [s EXCEPT !.pc = "save", !.rec = r]
<1>3. /\ t \in Sessions /\ t.pc = "save" /\ t.name = s.name /\ t.add = s.add
      /\ t.seen = s.seen /\ t.legacy = s.legacy /\ t.rec = r
  BY <1>1 DEF Sessions
<1> HIDE DEF t
<1> QED BY <1>1, <1>2, <1>3 DEF Enrolled, t

(* A session at "register", whose row r is in place as v.                  *)
LEMMA RegistersInv ==
    ASSUME DeployInv, NEW p \in Procs, proc[p].pc = "register",
           UNCHANGED <<recs, legacy, cvms, keys, used, released>>, rows' \in Seq(Rows),
           NEW v, NEW r \in Rows, NEW t, Enrolled(t, proc[p], v), proc' = [proc EXCEPT ![p] = t],
           r.cvm = proc[p].rec.app, r.secret = proc[p].rec.secret, r.slots = proc[p].rec.slots,
           Placed(rows, rows', v, r), ~ proc[p].add => Front(rows, rows', v)
    PROVE  DeployInv'
<1> DEFINE s == proc[p]
<1>1. /\ s \in Sessions /\ Shape(s) /\ OnFile(s, recs) /\ OnCvm(s, cvms)
      /\ OnRows(s, rows) /\ OnLegacy(s, legacy) /\ OnRecord(s, recs, legacy, released)
  BY SessionParts
<1>2. s.pc = "register" /\ Enrolled(t, s, v) /\ (~ s.add => Front(rows, rows', v))
      /\ r.cvm = s.rec.app /\ r.secret = s.rec.secret /\ r.slots = s.rec.slots /\ MaxCvms \in Nat
  BY NoneApart
<1>3. s = proc[p]
  OBVIOUS
<1> HIDE DEF s
<1>4. /\ s.name \in Names /\ s.rec \in WorkerRecords /\ s.rec # None /\ s.seen = None
      /\ s.rec.secret # 0 /\ s.rec.secondary = s.add /\ Active(s)
      /\ s.add => s.rec.worker = 0 /\ s.rec.secret # Legacy
      /\ s.rec.app \in Named(cvms, s.name) /\ cvms[s.rec.app].secret = s.rec.secret
      /\ cvms[s.rec.app].keys = s.rec.slots
  BY <1>1, <1>2 DEF Shape, Late, Sessions, Active, OnCvm, Image
<1>5. s.rec.app # 0
  BY <1>2, <1>4 DEF Named, UpIn, AppIds
<1>6. ASSUME NEW w \in LiveIn(rows'), w # v PROVE rows'[w].secret # s.rec.secret
                                                  /\ rows[w].secret # s.rec.secret
  <2>1. w \in LiveIn(rows) /\ rows'[w] = rows[w]
    BY <1>6 DEF Placed
  <2>2. CASE s.add
    BY <1>1, <1>2, <1>4, <2>1, <2>2 DEF OnRows
  <2>3. CASE ~ s.add
    <3>1. Later(rows, w)
      BY <1>2, <1>6, <2>3 DEF Front
    <3> QED BY <1>1, <1>4, <2>1, <2>3, <3>1 DEF OnRows
  <2> QED BY <2>2, <2>3
<1>7. Later(rows', v) => s.add
  BY <1>2 DEF Front
<1>8. /\ RowsFit(rows', cvms) /\ FileRows(recs, rows')
      /\ \A q \in Procs \ {p} : OnRows(proc[q], rows')
  <2>1. Has(s, r.secret) /\ (s.add => r.secret \notin {0, Legacy})
    BY <1>2, <1>4 DEF Has
  <2>2. recs[s.name] # None => recs[s.name] = s.rec
    BY <1>1, <1>2, <1>4 DEF OnFile
  <2>3. s.add => IsOf(s.rec, v)
    BY <1>4 DEF IsOf
  <2>4. \A n \in {s.name} :
           recs[n] # None /\ recs[n].secret = r.secret /\ Has(s, r.secret) =>
              recs[n].app # 0 /\ (Later(rows', v) => IsOf(recs[n], v))
    BY <1>5, <1>7, <2>2, <2>3
  <2>5. r.cvm \in UpIn(cvms) => /\ r.sent => r.secret = cvms[r.cvm].secret
                                /\ r.slots \in {0, cvms[r.cvm].keys}
    BY <1>2, <1>4
  <2>6. \A w \in LiveIn(rows) : w # v /\ w \in LiveIn(rows') =>
           rows[w].secret # r.secret \/ r.secret = 0
    BY <1>2, <1>6
  <2>7. Later(rows', v) => Has(s, r.secret) /\ r.secret \notin {0, Legacy}
    BY <1>7, <2>1
  <2> QED BY <1>3, <1>4, <2>1, <2>4, <2>5, <2>6, <2>7, RowPlaced
<1>9. /\ t \in Sessions /\ t.pc = "save" /\ t.name = s.name /\ t.add = s.add
      /\ t.seen = None /\ t.legacy = s.legacy
      /\ t.rec \in WorkerRecords /\ t.rec # None /\ t.rec.app = s.rec.app /\ t.rec.worker = v
      /\ t.rec.secret = s.rec.secret /\ t.rec.slots = s.rec.slots /\ t.rec.secondary = FALSE
  BY <1>2, <1>4, NoneApart DEF Enrolled
<1>10. Shape(t)
  BY <1>4, <1>9 DEF Shape, Late, Early, Removing
<1>11. OnFile(t, recs)
  BY <1>1, <1>2, <1>4, <1>9 DEF OnFile, Early, Image
<1>12. OnCvm(t, cvms)
  BY <1>4, <1>9 DEF OnCvm, Image
<1>13. OnRows(t, rows')
  BY <1>6, <1>7, <1>9 DEF OnRows
<1>14. OnLegacy(t, legacy) /\ OnRecord(t, recs, legacy, released)
  BY <1>1, <1>4, <1>9 DEF OnLegacy, OnRecord
<1>15. SessionFit(t, recs, legacy, cvms, rows', released)
  BY <1>10, <1>11, <1>12, <1>13, <1>14 DEF SessionFit
<1>16. \A x : Has(t, x) => Has(s, x) \/ x \in {0, Legacy}
  BY <1>4, <1>9 DEF Has
<1> QED BY <1>3, <1>4, <1>8, <1>9, <1>15, <1>16, PlacedInv

(* register_worker, by deploy and by worker add.                           *)
LEMMA RegisterInv ==
    ASSUME DeployInv, NEW p \in Procs, Register(p)
    PROVE  DeployInv'
<1> DEFINE s == proc[p]
           d == [cvm |-> s.rec.app, sent |-> TRUE, slots |-> s.rec.slots, live |-> TRUE,
                 secret |-> s.rec.secret]
           v == IF s.add THEN Len(rows) + 1 ELSE RegisteredId
           t == [s EXCEPT !.pc = "save", !.rec.secondary = FALSE, !.rec.worker = v]
<1>1. /\ s.pc = "register" /\ UNCHANGED <<recs, legacy, cvms, keys, used, released>>
      /\ IF s.add THEN Attached(d) ELSE Registered(s.rec.app, s.rec.secret, s.rec.slots)
      /\ proc' = [proc EXCEPT ![p] = t]
  BY Zenon DEF Register, At, Goes
<1>2. s \in Sessions /\ Shape(s) /\ rows \in Seq(Rows) /\ TypeOK
  BY SessionParts, InvParts DEF StoresTyped
<1>3. /\ s.rec \in WorkerRecords /\ s.rec.secret # 0 /\ s.rec.app \in Nat
      /\ s.rec.secret \in Nat /\ s.rec.slots \in Nat
  BY <1>1, <1>2 DEF Sessions, Shape, Late, WorkerRecords
<1>4. v \in Nat
  BY <1>2, FirstLiveForm DEF RegisteredId
<1>5. Enrolled(t, s, v)
  <2> HIDE DEF s, v
  <2> QED BY <1>2, <1>3, <1>4, EnrolledForm
<1> HIDE DEF t
<1>6. CASE s.add
  <2>1. d \in Rows /\ d.live /\ d.cvm = s.rec.app /\ d.secret = s.rec.secret
        /\ d.slots = s.rec.slots
    BY <1>3 DEF Rows
  <2> HIDE DEF d
  <2>2. rows' = Append(rows, d) /\ v = Len(rows) + 1
    BY <1>1, <1>6 DEF Attached
  <2>3. rows' \in Seq(Rows) /\ Placed(rows, rows', v, d)
    BY <1>2, <2>1, <2>2, AppendForm
  <2> HIDE DEF v
  <2> QED BY <1>1, <1>5, <1>6, <2>1, <2>3, RegistersInv
<1>7. CASE ~ s.add
  <2>1. Registered(s.rec.app, s.rec.secret, s.rec.slots) /\ v = RegisteredId
    BY <1>1, <1>7
  <2>2. \E r \in Rows : /\ Answered(r, s.rec.app, s.rec.secret, s.rec.slots)
                        /\ rows' \in Seq(Rows) /\ Placed(rows, rows', RegisteredId, r)
                        /\ Front(rows, rows', RegisteredId)
    BY <1>3, <2>1, RegisteredForm
  <2>3. PICK r \in Rows : /\ Answered(r, s.rec.app, s.rec.secret, s.rec.slots)
                          /\ rows' \in Seq(Rows) /\ Placed(rows, rows', v, r)
                          /\ Front(rows, rows', v)
    BY <2>1, <2>2
  <2>4. r.cvm = s.rec.app /\ r.secret = s.rec.secret /\ r.slots = s.rec.slots
    BY <1>3, <2>3 DEF Answered
  <2> HIDE DEF v
  <2> QED BY <1>1, <1>5, <2>3, <2>4, RegistersInv
<1> QED BY <1>6, <1>7

(* The session of register-image that has registered its CVM as v.         *)
Reenrolled(t, s, v, x, slots) ==
    /\ t \in Sessions /\ t.pc = "imagesave" /\ t.name = s.name /\ t.add = FALSE
    /\ t.seen = None /\ t.legacy = 0
    /\ t.rec \in WorkerRecords /\ t.rec # None /\ t.rec.app = s.app /\ t.rec.worker = v
    /\ t.rec.secret = x /\ t.rec.slots = slots /\ t.rec.secondary = FALSE

(* So it is when it takes down what it has registered.                     *)
LEMMA ReenrolledForm ==
    ASSUME NEW s \in Sessions, NEW v \in Nat, NEW x \in Nat, NEW slots \in Nat
    PROVE  Reenrolled([Idle EXCEPT !.pc = "imagesave", !.name = s.name,
                           !.rec = WorkerRecord(v, s.app, x, slots, FALSE)], s, v, x, slots)
<1> DEFINE r == WorkerRecord(v, s.app, x, slots, FALSE)
<1>1. s.app \in Nat /\ s.name \in Names \cup {None}
  BY DEF Sessions
<1>2. /\ r \in WorkerRecords /\ r.app = s.app /\ r.secret = x /\ r.worker = v
      /\ r.slots = slots /\ r.secondary = FALSE
  BY <1>1 DEF WorkerRecord, WorkerRecords
<1> HIDE DEF r
<1> DEFINE t == [Idle EXCEPT !.pc = "imagesave", !.name = s.name, !.rec = r]
<1>3. /\ t \in Sessions /\ t.pc = "imagesave" /\ t.name = s.name /\ t.add = FALSE
      /\ t.seen = None /\ t.legacy = 0 /\ t.rec = r
  BY <1>1, <1>2 DEF Idle, Sessions
<1> HIDE DEF t
<1>4. Reenrolled(t, s, v, x, slots)
  BY <1>2, <1>3, NoneApart DEF Reenrolled
<1> QED BY <1>4, Zenon DEF t, r

(* register-image sends what is recorded of the CVM again.                 *)
LEMMA ImagePostInv ==
    ASSUME DeployInv, NEW p \in Procs, ImagePost(p)
    PROVE  DeployInv'
<1> DEFINE s == proc[p]
           x == IF s.seen # None THEN s.seen.secret ELSE s.legacy
           slots == IF s.seen # None THEN s.seen.slots ELSE 0
           v == RegisteredId
           t == [Idle EXCEPT !.pc = "imagesave", !.name = s.name,
                             !.rec = WorkerRecord(v, s.app, x, slots, FALSE)]
<1>1. /\ s.pc = "post" /\ UNCHANGED <<recs, legacy, cvms, keys, used, released>>
      /\ Registered(s.app, x, slots) /\ proc' = [proc EXCEPT ![p] = t]
  BY Zenon DEF ImagePost, At, Goes
<1>2. /\ s \in Sessions /\ Shape(s) /\ OnFile(s, recs) /\ OnCvm(s, cvms)
      /\ OnRows(s, rows) /\ OnLegacy(s, legacy) /\ OnRecord(s, recs, legacy, released)
  BY SessionParts
<1>3. RowsFit(rows, cvms) /\ rows \in Seq(Rows) /\ TypeOK /\ MaxCvms \in Nat
  BY InvParts, NoneApart DEF StoresTyped
<1>4. s = proc[p]
  OBVIOUS
<1> HIDE DEF s
<1>5. v \in Nat
  BY <1>3, FirstLiveForm DEF RegisteredId
<1>6. /\ s.name \in Names /\ s.rec = None /\ Active(s) /\ ~ s.add /\ s.legacy \in {0, Legacy}
      /\ s.seen \in WorkerRecords \cup {None} /\ s.app \in Nat
      /\ s.seen # None => s.seen.secret # 0
  BY <1>1, <1>2 DEF Shape, Sessions, Active, Image, Late, Early
<1>7. /\ s.app \in Named(cvms, s.name) /\ s.app # 0 /\ s.app \in UpIn(cvms)
      /\ s.seen # None => /\ s.seen.app = s.app /\ s.seen.secret = cvms[s.app].secret
                          /\ s.seen.slots \in {0, cvms[s.app].keys}
      /\ s.seen = None /\ s.legacy # 0 => cvms[s.app].secret = Legacy
  BY <1>1, <1>2, <1>3 DEF OnCvm, Image, Named, UpIn, AppIds
<1>8. /\ x \in Nat /\ slots \in Nat /\ slots \in {0, cvms[s.app].keys}
      /\ \/ s.seen # None /\ x = s.seen.secret /\ x # 0
         \/ s.seen = None /\ x = s.legacy /\ x = Legacy
         \/ s.seen = None /\ x = s.legacy /\ x = 0
      /\ x # 0 => x = cvms[s.app].secret
  BY <1>6, <1>7 DEF WorkerRecords, Legacy
<1>9. Has(s, x) \/ x \in {0, Legacy}
  BY <1>8 DEF Has
<1> HIDE DEF x, slots
<1>10. /\ t \in Sessions /\ t.pc = "imagesave" /\ t.name = s.name /\ t.add = FALSE
       /\ t.seen = None /\ t.legacy = 0
       /\ t.rec \in WorkerRecords /\ t.rec # None /\ t.rec.app = s.app /\ t.rec.worker = v
       /\ t.rec.secret = x /\ t.rec.slots = slots /\ t.rec.secondary = FALSE
  <2> HIDE DEF v
  <2>1. Reenrolled(t, s, v, x, slots)
    BY <1>2, <1>5, <1>8, ReenrolledForm
  <2> HIDE DEF t
  <2> QED BY <2>1 DEF Reenrolled
<1> HIDE DEF t
<1>11. PICK r \in Rows : /\ Answered(r, s.app, x, slots) /\ rows' \in Seq(Rows)
                         /\ Placed(rows, rows', v, r) /\ Front(rows, rows', v)
  BY <1>1, <1>6, <1>8, RegisteredForm
<1>12. /\ r.cvm = s.app /\ r.sent = (x # 0) /\ r.slots = slots
       /\ r.secret = x \/ (x = 0 /\ v \in LiveIn(rows) /\ r.secret = rows[v].secret)
  BY <1>11 DEF Answered
<1> HIDE DEF v
<1>13. ASSUME NEW w \in LiveIn(rows'), w # v
       PROVE  /\ w \in LiveIn(rows) /\ rows'[w] = rows[w] /\ rows[w].secret # x
              /\ rows[w].secret # r.secret \/ r.secret = 0
  <2>1. w \in LiveIn(rows) /\ rows'[w] = rows[w] /\ Later(rows, w)
    BY <1>11, <1>13 DEF Placed, Front
  <2>2. rows[w].secret \notin {0, Legacy}
    BY <1>3, <2>1 DEF RowsFit
  <2>3. rows[w].secret # x
    BY <1>1, <1>2, <1>6, <1>8, <2>1, <2>2 DEF OnRows
  <2>4. v \in LiveIn(rows) => rows[w].secret # rows[v].secret \/ rows[v].secret = 0
    BY <1>3, <1>13, <2>1 DEF RowsFit
  <2> QED BY <1>12, <2>1, <2>3, <2>4
<1>14. ~ Later(rows', v)
  BY <1>11 DEF Front
<1>15. recs[s.name] # None /\ x # 0 =>
          s.seen # None /\ recs[s.name].secret = x /\ recs[s.name].app = s.app
  BY <1>1, <1>2, <1>6, <1>7, <1>8 DEF OnFile, Image
<1>16. /\ RowsFit(rows', cvms) /\ FileRows(recs, rows')
       /\ \A q \in Procs \ {p} : OnRows(proc[q], rows')
  <2>1. r.cvm \in UpIn(cvms) => /\ r.sent => r.secret = cvms[r.cvm].secret
                                /\ r.slots \in {0, cvms[r.cvm].keys}
    BY <1>8, <1>12
  <2>2. \A w \in LiveIn(rows) : w # v /\ w \in LiveIn(rows') =>
           rows[w].secret # r.secret \/ r.secret = 0
    BY <1>13
  <2>3. \/ r.secret \in {0, Legacy}
        \/ v \in LiveIn(rows) /\ r.secret = rows[v].secret /\ ~ Later(rows', v)
        \/ Has(s, r.secret)
    BY <1>9, <1>12, <1>14
  <2>4. \A n \in {s.name} :
           recs[n] # None /\ recs[n].secret = r.secret /\ Has(s, r.secret) =>
              recs[n].app # 0 /\ (Later(rows', v) => IsOf(recs[n], v))
    BY <1>6, <1>7, <1>8, <1>14, <1>15 DEF Has
  <2> QED BY <1>4, <1>6, <1>11, <1>14, <2>1, <2>2, <2>3, <2>4, RowPlaced
<1>17. SessionFit(t, recs, legacy, cvms, rows', released)
  <2>1. Shape(t)
    BY <1>6, <1>10 DEF Shape, Late, Early, Removing
  <2>2. OnFile(t, recs)
    BY <1>10, <1>15 DEF OnFile, Early, Image
  <2>3. OnCvm(t, cvms)
    BY <1>7, <1>8, <1>10 DEF OnCvm, Image
  <2>4. OnRows(t, rows')
    BY <1>10, <1>13, <1>14 DEF OnRows
  <2>5. OnLegacy(t, legacy)
    BY <1>2, <1>6, <1>8, <1>10 DEF OnLegacy, Legacy
  <2>6. OnRecord(t, recs, legacy, released)
    BY <1>2, <1>8, <1>10 DEF OnRecord, Legacy
  <2> QED BY <2>1, <2>2, <2>3, <2>4, <2>5, <2>6 DEF SessionFit
<1>18. \A y : Has(t, y) => Has(s, y) \/ y \in {0, Legacy}
  BY <1>9, <1>10 DEF Has
<1> QED BY <1>1, <1>4, <1>6, <1>10, <1>11, <1>16, <1>17, <1>18, PlacedInv

-----------------------------------------------------------------------------
(* The invariant                                                           *)

(* It holds at the start, of a fresh installation and of an old one.       *)
LEMMA DeployInit ==
    ASSUME Init
    PROVE  DeployInv
<1> DEFINE c == [name |-> First, secret |-> Legacy, keys |-> 1]
           d == [cvm |-> 1, secret |-> Legacy, sent |-> TRUE, slots |-> 0, live |-> TRUE]
<1>1. /\ recs = [n \in Names |-> None] /\ keys = 1 /\ released = {}
      /\ proc = [p \in Procs |-> Idle] /\ used = [commands |-> 0, faults |-> 0, drops |-> 0]
      /\ \/ legacy = 0 /\ cvms = NoCvms /\ rows = <<>>
         \/ legacy = Legacy /\ cvms = [NoCvms EXCEPT ![1] = c] /\ rows = <<d>>
  BY DEF Init
<1>2. c \in Cvms /\ c # None /\ c.secret = Legacy /\ c.keys = 1
  BY NoneApart DEF Cvms, Legacy
<1>3. d \in Rows /\ d.live /\ d.secret = Legacy /\ d.slots = 0 /\ d.cvm = 1
  BY DEF Rows, Legacy
<1> HIDE DEF c, d
<1>4. /\ cvms \in [AppIds -> Cvms \cup {None}] /\ rows \in Seq(Rows) /\ legacy \in {0, Legacy}
      /\ \A a \in UpIn(cvms) : a = 1 /\ cvms[a] = c /\ legacy = Legacy
      /\ \A w \in LiveIn(rows) : w = 1 /\ rows[w] = d
  <2>1. CASE legacy = 0 /\ cvms = NoCvms /\ rows = <<>>
    BY <2>1 DEF NoCvms, UpIn, LiveIn
  <2>2. CASE legacy = Legacy /\ cvms = [NoCvms EXCEPT ![1] = c] /\ rows = <<d>>
    <3>1. /\ cvms \in [AppIds -> Cvms \cup {None}]
          /\ \A a \in AppIds : cvms[a] # None => a = 1 /\ cvms[a] = c
      BY <1>2, <2>2 DEF NoCvms
    <3>2. rows \in Seq(Rows) /\ DOMAIN rows = {1} /\ rows[1] = d
      BY <1>3, <2>2
    <3> QED BY <2>2, <3>1, <3>2 DEF UpIn, LiveIn
  <2> QED BY <1>1, <2>1, <2>2
<1>5. TypeOK
  <2>1. used \in [commands : Nat, faults : Nat, drops : Nat]
    BY <1>1
  <2> QED BY <1>1, <1>4, <2>1, IdleFit DEF TypeOK
<1>6. StoresFit(recs, legacy, cvms, rows, released)
  <2>1. FileFit(recs, cvms) /\ FileRows(recs, rows)
    BY <1>1 DEF FileFit, FileRows
  <2>2. RowsFit(rows, cvms)
    BY <1>2, <1>3, <1>4 DEF RowsFit, Later
  <2>3. LegacyFit(recs, legacy, cvms) /\ CvmsKnown(recs, legacy, cvms, released)
    BY <1>1, <1>2, <1>4 DEF LegacyFit, CvmsKnown, Known
  <2> QED BY <2>1, <2>2, <2>3 DEF StoresFit
<1>7. \A p \in Procs : proc[p] = Idle
  BY <1>1
<1>8. \A p \in Procs : SessionFit(proc[p], recs, legacy, cvms, rows, released)
  BY <1>7, IdleFit
<1>9. Alone(proc) /\ Owned(recs, proc)
  BY <1>1, <1>7, IdleFit DEF Alone, Owned, Holds
<1> QED BY <1>5, <1>6, <1>8, <1>9 DEF DeployInv

(* Every step keeps it.                                                    *)
LEMMA DeployStep ==
    ASSUME DeployInv, [Next]_vars
    PROVE  DeployInv'
<1>1. ASSUME NEW p \in Procs, Steps(p) PROVE DeployInv'
  <2>1. CASE Guard(p) \/ CheckName(p) \/ ImageGuard(p)
    BY <2>1, ChecksInv
  <2>2. CASE Prepare(p)
    BY <2>2, PrepareInv
  <2>3. CASE Launch(p)
    BY <2>3, LaunchInv
  <2>4. CASE Boot(p)
    BY <2>4, BootInv
  <2>5. CASE SaveApp(p)
    BY <2>5, SaveAppInv
  <2>6. CASE Register(p)
    BY <2>6, RegisterInv
  <2>7. CASE SaveWorker(p) \/ ImageSave(p)
    BY <2>7, SaveWorkerInv
  <2>8. CASE ImagePost(p)
    BY <2>8, ImagePostInv
  <2>9. CASE Drop(p) \/ Forget(p)
    BY <2>9, DropInv
  <2>10. CASE Delete(p)
    BY <2>10, DeleteInv
  <2> QED BY <1>1, <2>1, <2>2, <2>3, <2>4, <2>5, <2>6, <2>7, <2>8, <2>9, <2>10 DEF Steps
<1>2. ASSUME NEW p \in Procs, Starts(p) PROVE DeployInv'
  <2>1. ASSUME NEW n \in Names, StartDeploy(p, n) \/ StartAdd(p, n) PROVE DeployInv'
    BY <2>1, StartDeployInv
  <2>2. ASSUME NEW n \in Names, StartRemove(p, n) PROVE DeployInv'
    BY <2>2, StartRemoveInv
  <2>3. ASSUME NEW a \in Up, StartImage(p, a) PROVE DeployInv'
    BY <2>3, StartImageInv
  <2>4. ASSUME NEW a \in Up, TearDown(p, a) PROVE DeployInv'
    BY <2>4, TearDownInv
  <2>5. CASE SetKeys(p)
    BY <2>5, SetKeysInv
  <2> QED BY <1>2, <2>1, <2>2, <2>3, <2>4, <2>5 DEF Starts
<1>3. ASSUME NEW p \in Procs, Fail(p) PROVE DeployInv'
  BY <1>3, FailInv
<1>4. ASSUME NEW w \in DOMAIN rows, Deregister(w) PROVE DeployInv'
  BY <1>4, DeregisterInv
<1>5. ASSUME UNCHANGED vars PROVE DeployInv'
  BY <1>5 DEF vars, DeployInv, TypeOK
<1> QED BY <1>1, <1>2, <1>3, <1>4, <1>5 DEF Next

(* The sessions and the three stores fit together.                         *)
THEOREM Invariance == Spec => []DeployInv
BY DeployInit, DeployStep, PTL DEF Spec

(* Every variable keeps its type.                                          *)
THEOREM TypesKept == Spec => []TypeOK
<1>1. DeployInv => TypeOK
  BY InvParts
<1> QED BY <1>1, Invariance, PTL

(* A worker record always names the secret and the keys of the very CVM it *)
(* names: what a recovery sends again is what that CVM enforces and holds. *)
THEOREM RecordsStayTrue == Spec => []RecordsTrue
<1>1. DeployInv => RecordsTrue
  BY InvParts DEF RecordsTrue, FileFit, RecordFit, Tracked, Up, UpIn
<1> QED BY <1>1, Invariance, PTL

(* What the registry was told of an endpoint is true of the CVM behind it, *)
(* whatever failed and whatever another command did meanwhile.             *)
THEOREM RowsStayTrue == Spec => []RowsTrue
<1>1. DeployInv => RowsTrue
  <2>1. ASSUME DeployInv PROVE RowsTrue
    <3>1. RowsFit(rows, cvms) /\ Live = LiveIn(rows)
      BY <2>1, InvParts, FirstLiveForm
    <3> QED BY <3>1 DEF RowsTrue, RowsFit, Up, UpIn
  <2> QED BY <2>1
<1> QED BY <1>1, Invariance, PTL

(* Two live workers never share a node secret.                             *)
THEOREM RowsStayApart == Spec => []RowsApart
<1>1. DeployInv => RowsApart
  <2>1. ASSUME DeployInv PROVE RowsApart
    <3>1. RowsFit(rows, cvms) /\ Live = LiveIn(rows)
      BY <2>1, InvParts, FirstLiveForm
    <3> QED BY <3>1 DEF RowsApart, RowsFit
  <2> QED BY <2>1
<1> QED BY <1>1, Invariance, PTL

(* The secret a running CVM enforces is on record until its operator       *)
(* removes the worker or another CVM takes over its row.                   *)
THEOREM SecretsStay == Spec => []SecretKept
<1>1. DeployInv => SecretKept
  <2>1. ASSUME DeployInv PROVE SecretKept
    <3>1. CvmsKnown(recs, legacy, cvms, released)
      BY <2>1, InvParts
    <3> QED BY <3>1 DEF SecretKept, CvmsKnown, Known, Tracked, Up, UpIn
  <2> QED BY <2>1
<1> QED BY <1>1, Invariance, PTL

=============================================================================
