------------------------ MODULE ChutesBudgetsProofs ------------------------
(***************************************************************************)
(* Proofs about ChutesBudgets, for any number of credentials, chutes,      *)
(* callers and gates, any limits and any time: the rate of evidence calls, *)
(* the single flight of discoveries and the quiet after a refusal survive  *)
(* that a budget is dropped and made again.                                *)
(***************************************************************************)
EXTENDS ChutesBudgets, FiniteSetTheorems, WellFoundedInduction, TLAPS

Backoffs == [Chutes -> Backoff]

Call == [at : Nat, chute : Chutes]

Calls == Seq(Call)

(* The queue of a budget is what the calls of its credential, oldest first,*)
(* leave when those before some point are past the window.                 *)
QueueFit(e, calls, t) ==
    LET gone == Len(calls) - Len(e) IN
    /\ gone \in Nat /\ Len(e) <= EvidenceLimit
    /\ \A i \in 1 .. Len(e) : e[i] = calls[gone + i].at
    /\ \A j \in 1 .. gone : calls[j].at + Window <= t

(* A backoff that has begun never steps below its start.                   *)
Stepped(f) == \A x \in Chutes : f[x] = NoBackoff \/ f[x].step >= BackoffStart

(* The quiet Chutes asked for is in the evidence backoff while it lasts.   *)
Hushed(f, q, t) == \A x \in Chutes : q[x] > t => f[x].until >= q[x]

(* What holds of the budget of a credential with these calls and quiet.    *)
BudgetFit(b, calls, q, t) ==
    /\ b \in Budget
    /\ QueueFit(b.evidence, calls, t)
    /\ Stepped(b.evidenceBackoff)
    /\ Hushed(b.evidenceBackoff, q, t)

(* A caller at a gate refers to the gate of its credential's budget.       *)
GateHeld ==
    \A w \in Workers : worker[w].pc \in {"gate", "discover"} =>
        /\ worker[w].cred \in held
        /\ worker[w].gate = budget[worker[w].cred].gate
        /\ worker[w].gate # None

Busy == \A w \in Workers : worker[w].pc # "rest" =>
            worker[w].cred \in Credentials /\ worker[w].chute \in Chutes

Budgets ==
    \A c \in Credentials : /\ BudgetFit(budget[c], log[c], quiet[c], now)
                           /\ c \notin held => budget[c] = EmptyBudget
                           /\ c \in held => budget[c].gate \in Gates

BudgetInv == TypeOK /\ Busy /\ Budgets /\ GateHeld /\ SingleFlight

-----------------------------------------------------------------------------
(* Queues                                                                  *)

(* A set of numbers has a least one.                                       *)
LEMMA Least ==
    ASSUME NEW T, T \subseteq Nat, T # {}
    PROVE  \E x \in T : \A y \in T : x <= y
<1> DEFINE R == OpToRel(<, Nat)
<1>1. IsWellFoundedOn(R, Nat)
  BY NatLessThanWellFounded
<1>2. \A x, y \in Nat : y < x => <<y, x>> \in R
  BY DEF OpToRel
<1> HIDE DEF R
<1>3. PICK x \in T : \A y \in T : ~ (<<y, x>> \in R)
  BY <1>1, WFMin
<1>4. ASSUME NEW y \in T PROVE x <= y
  <2>1. ~ (<<y, x>> \in R) /\ x \in Nat /\ y \in Nat
    BY <1>3
  <2>2. ~ (y < x)
    BY <2>1, <1>2
  <2> QED BY <2>1, <2>2
<1> QED BY <1>4

(* What pruning leaves of a queue is a suffix, and what it drops is past   *)
(* the window.                                                             *)
LEMMA RecentSuffix ==
    ASSUME NEW times \in Seq(Nat), now \in Nat
    PROVE  \E d \in 0 .. Len(times) :
             /\ Recent(times) \in Seq(Nat) /\ Len(Recent(times)) = Len(times) - d
             /\ \A i \in 1 .. Len(times) - d : Recent(times)[i] = times[d + i]
             /\ \A j \in 1 .. d : times[j] + Window <= now
<1> DEFINE on == {k \in 1 .. Len(times) : times[k] + Window > now}
           first == CHOOSE k \in on : \A j \in on : k <= j
<1>0. Len(times) \in Nat /\ Window \in Nat /\ \A k \in 1 .. Len(times) : times[k] \in Nat
  BY ConstantsAssumption
<1>1. CASE on = {}
  <2>1. Recent(times) = <<>>
    BY <1>1 DEF Recent
  <2>2. ASSUME NEW j \in 1 .. Len(times) PROVE times[j] + Window <= now
    <3>1. ~ (times[j] + Window > now) /\ times[j] \in Nat
      BY <1>0, <1>1
    <3> QED BY <1>0, <3>1
  <2>3. Len(times) \in 0 .. Len(times) /\ Len(times) - Len(times) = 0
    BY <1>0
  <2> QED BY <2>1, <2>2, <2>3
<1>2. CASE on # {}
  <2>1. first \in on /\ \A j \in on : first <= j
    <3>1. on \subseteq Nat
      BY <1>0
    <3>2. \E k \in on : \A j \in on : k <= j
      <4> HIDE DEF on
      <4> QED BY <1>2, <3>1, Least
    <3> HIDE DEF on
    <3> QED BY <3>2
  <2>2. Recent(times) = SubSeq(times, first, Len(times))
    BY <1>2 DEF Recent
  <2> HIDE DEF first
  <2>3. first \in 1 .. Len(times)
    BY <2>1
  <2>4. first - 1 \in 0 .. Len(times) /\ Len(times) - (first - 1) = Len(times) - first + 1
    BY <1>0, <2>3
  <2>5. /\ SubSeq(times, first, Len(times)) \in Seq(Nat)
        /\ Len(SubSeq(times, first, Len(times))) = Len(times) - first + 1
        /\ \A i \in 1 .. Len(times) - first + 1 :
              SubSeq(times, first, Len(times))[i] = times[first + i - 1]
    BY <1>0, <2>3
  <2>6. \A i \in 1 .. Len(times) - first + 1 : times[first + i - 1] = times[(first - 1) + i]
    BY <1>0, <2>3
  <2>7. ASSUME NEW j \in 1 .. first - 1 PROVE times[j] + Window <= now
    <3>1. j \in 1 .. Len(times) /\ ~ (first <= j)
      BY <1>0, <2>3
    <3>2. j \notin on
      BY <2>1, <3>1
    <3> QED BY <1>0, <3>1, <3>2
  <2> QED BY <2>2, <2>4, <2>5, <2>6, <2>7
<1> QED BY <1>1, <1>2

(* Pruned, the queue is still what the calls leave.                        *)
LEMMA TailPruned ==
    ASSUME NEW e \in Seq(Nat), NEW calls \in Calls, QueueFit(e, calls, now), now \in Nat
    PROVE  Recent(e) \in Seq(Nat) /\ QueueFit(Recent(e), calls, now)
<1>1. PICK d \in 0 .. Len(e) :
             /\ Recent(e) \in Seq(Nat) /\ Len(Recent(e)) = Len(e) - d
             /\ \A i \in 1 .. Len(e) - d : Recent(e)[i] = e[d + i]
             /\ \A j \in 1 .. d : e[j] + Window <= now
  BY RecentSuffix
<1> DEFINE r == Recent(e)
           gone == Len(calls) - Len(e)
           rest == Len(calls) - Len(r)
<1>2. /\ Len(e) \in Nat /\ d \in Nat /\ d <= Len(e) /\ gone \in Nat /\ Len(e) <= EvidenceLimit
      /\ Len(calls) \in Nat /\ EvidenceLimit \in Nat
      /\ \A i \in 1 .. Len(e) : e[i] = calls[gone + i].at
      /\ \A j \in 1 .. gone : calls[j].at + Window <= now
  BY ConstantsAssumption DEF QueueFit, Calls
<1>3. Len(r) = Len(e) - d /\ rest = gone + d
  BY <1>1, <1>2
<1> HIDE DEF r, gone, rest
<1>4. ASSUME NEW i \in 1 .. Len(r) PROVE r[i] = calls[rest + i].at
  <2>1. i \in 1 .. Len(e) - d /\ d + i \in 1 .. Len(e) /\ rest + i = gone + (d + i)
    BY <1>2, <1>3
  <2> QED BY <1>1, <1>2, <2>1 DEF r
<1>5. ASSUME NEW j \in 1 .. rest PROVE calls[j].at + Window <= now
  <2>1. CASE j <= gone
    BY <1>2, <1>3, <2>1
  <2>2. CASE j > gone
    <3>1. j - gone \in 1 .. d /\ j - gone \in 1 .. Len(e) /\ gone + (j - gone) = j
      BY <1>2, <1>3, <2>2
    <3>2. e[j - gone] = calls[j].at /\ e[j - gone] + Window <= now
      BY <1>1, <1>2, <3>1
    <3> QED BY <3>2
  <2> QED BY <1>2, <1>3, <2>1, <2>2
<1>6. rest \in Nat /\ Len(r) <= EvidenceLimit
  BY <1>2, <1>3
<1> QED BY <1>1, <1>4, <1>5, <1>6 DEF QueueFit, r, rest

(* A call begins and is charged.                                           *)
LEMMA TailCharged ==
    ASSUME NEW e \in Seq(Nat), NEW calls \in Calls, QueueFit(e, calls, now), now \in Nat,
           Len(e) < EvidenceLimit, NEW x \in Chutes
    PROVE  QueueFit(Append(e, now), Append(calls, [at |-> now, chute |-> x]), now)
<1> DEFINE f == Append(e, now)
           more == Append(calls, [at |-> now, chute |-> x])
           gone == Len(calls) - Len(e)
<1>1. /\ Len(e) \in Nat /\ gone \in Nat /\ Len(calls) \in Nat /\ EvidenceLimit \in Nat
      /\ \A i \in 1 .. Len(e) : e[i] = calls[gone + i].at
      /\ \A j \in 1 .. gone : calls[j].at + Window <= now
  BY ConstantsAssumption DEF QueueFit, Calls
<1>2. /\ Len(f) = Len(e) + 1 /\ f[Len(e) + 1] = now
      /\ \A i \in 1 .. Len(e) : f[i] = e[i]
  BY <1>1
<1>3. /\ Len(more) = Len(calls) + 1 /\ more[Len(calls) + 1].at = now
      /\ \A i \in 1 .. Len(calls) : more[i] = calls[i]
  BY <1>1 DEF Calls
<1> HIDE DEF f, more
<1>4. Len(more) - Len(f) = gone
  BY <1>1, <1>2, <1>3
<1> HIDE DEF gone
<1>5. ASSUME NEW i \in 1 .. Len(f) PROVE f[i] = more[gone + i].at
  <2>1. CASE i \in 1 .. Len(e)
    <3>1. gone + i \in 1 .. Len(calls)
      BY <1>1, <2>1 DEF gone
    <3> QED BY <1>1, <1>2, <1>3, <2>1, <3>1
  <2>2. CASE i = Len(e) + 1
    <3>1. gone + i = Len(calls) + 1
      BY <1>1, <2>2 DEF gone
    <3> QED BY <1>2, <1>3, <2>2, <3>1
  <2> QED BY <1>1, <1>2, <2>1, <2>2
<1>6. ASSUME NEW j \in 1 .. gone PROVE more[j].at + Window <= now
  <2>1. j \in 1 .. Len(calls)
    BY <1>1 DEF gone
  <2> QED BY <1>1, <1>3, <2>1
<1>7. QueueFit(f, more, now)
  <2> DEFINE lost == Len(more) - Len(f)
  <2>1. lost = gone
    BY <1>4
  <2> HIDE DEF lost
  <2>2. lost \in Nat /\ Len(f) <= EvidenceLimit
    BY <1>1, <1>2, <2>1
  <2>3. \A i \in 1 .. Len(f) : f[i] = more[lost + i].at
    BY <1>5, <2>1
  <2>4. \A j \in 1 .. lost : more[j].at + Window <= now
    BY <1>6, <2>1
  <2> QED BY <2>2, <2>3, <2>4 DEF QueueFit, lost
<1> QED BY <1>7 DEF f, more

(* The calls in the window are in the queue.                               *)
LEMMA TailRate ==
    ASSUME NEW e \in Seq(Nat), NEW calls \in Calls, NEW t \in Nat, QueueFit(e, calls, t)
    PROVE  Cardinality({k \in DOMAIN calls : calls[k].at + Window > t}) <= EvidenceLimit
<1> DEFINE gone == Len(calls) - Len(e)
           S == {k \in DOMAIN calls : calls[k].at + Window > t}
<1>0. /\ Len(e) \in Nat /\ Len(calls) \in Nat
      /\ EvidenceLimit \in Nat /\ Window \in Nat
  BY ConstantsAssumption DEF Calls
<1>1. /\ Len(e) \in Nat /\ gone \in Nat /\ Len(calls) \in Nat /\ EvidenceLimit \in Nat
      /\ Len(e) <= EvidenceLimit /\ Window \in Nat
      /\ \A j \in 1 .. gone : calls[j].at + Window <= t
  BY <1>0 DEF QueueFit
<1>2. S \subseteq gone + 1 .. Len(calls)
  <2> SUFFICES ASSUME NEW k \in 1 .. Len(calls), calls[k].at + Window > t
               PROVE  k \in gone + 1 .. Len(calls)
    BY DEF Calls
  <2>1. calls[k].at \in Nat
    <3>1. calls[k] \in Call
      BY DEF Calls
    <3> QED BY <3>1 DEF Call
  <2>2. ~ (k \in 1 .. gone)
    BY <1>1, <2>1
  <2> QED BY <1>1, <2>2
<1> HIDE DEF S, gone
<1>3. IsFiniteSet(gone + 1 .. Len(calls)) /\ Cardinality(gone + 1 .. Len(calls)) = Len(e)
  <2>1. gone + 1 \in Int /\ Len(calls) \in Int
    BY <1>1
  <2>2. /\ IsFiniteSet(gone + 1 .. Len(calls))
        /\ Cardinality(gone + 1 .. Len(calls))
             = IF gone + 1 > Len(calls) THEN 0 ELSE Len(calls) - (gone + 1) + 1
    BY <2>1, FS_Interval
  <2> QED BY <1>1, <2>2 DEF gone
<1>4. IsFiniteSet(S) /\ Cardinality(S) <= Len(e)
  BY <1>2, <1>3, FS_Subset
<1>5. Cardinality(S) \in Nat
  BY <1>4, FS_CardinalityType
<1> QED BY <1>1, <1>4, <1>5 DEF S

-----------------------------------------------------------------------------
(* Budgets                                                                 *)

(* What the assumption says of each limit.                                 *)
LEMMA Numbers ==
    /\ BackoffStart \in Nat /\ BackoffMax \in Nat /\ RefusalBackoff \in Nat
    /\ Window \in Nat /\ Slack \in Nat /\ Jitter \in Nat
    /\ BackoffStart > 0 /\ BackoffStart <= BackoffMax /\ Window > 0
BY ConstantsAssumption

(* A chute with no backoff rests until time 0.                             *)
LEMMA NoBackoffTyped ==
    NoBackoff \in Backoff /\ NoBackoff.until = 0 /\ NoBackoff.step = 0
BY Numbers DEF NoBackoff, Backoff

(* What pruning keeps of the backoffs.                                     *)
LEMMA BackoffsKept ==
    ASSUME NEW f \in Backoffs
    PROVE  /\ KeepBackoffs(f) \in Backoffs
           /\ \A x \in Chutes : KeepBackoffs(f)[x]
                                  = IF f[x].until + 2 * BackoffMax > now THEN f[x] ELSE NoBackoff
BY NoBackoffTyped DEF KeepBackoffs, Backoffs

(* Prune keeps the gate and prunes each queue and each map of backoffs.    *)
LEMMA PruneForm ==
    ASSUME NEW b \in Budget, now \in Nat
    PROVE  /\ Prune(b) \in Budget /\ Prune(b).gate = b.gate
           /\ Prune(b).recent = Recent(b.recent) /\ Prune(b).evidence = Recent(b.evidence)
           /\ Prune(b).backoff = KeepBackoffs(b.backoff)
           /\ Prune(b).evidenceBackoff = KeepBackoffs(b.evidenceBackoff)
<1> DEFINE r == Recent(b.recent)
           e == Recent(b.evidence)
           f == KeepBackoffs(b.backoff)
           h == KeepBackoffs(b.evidenceBackoff)
           u == [b EXCEPT !.recent = r, !.evidence = e, !.backoff = f, !.evidenceBackoff = h]
<1>1. /\ b.recent \in Seq(Nat) /\ b.evidence \in Seq(Nat)
      /\ b.backoff \in Backoffs /\ b.evidenceBackoff \in Backoffs
  BY DEF Budget, Backoffs
<1>2. r \in Seq(Nat) /\ e \in Seq(Nat)
  BY <1>1, RecentSuffix
<1>3. f \in Backoffs /\ h \in Backoffs
  BY <1>1, BackoffsKept
<1>4. Prune(b) = u
  BY Zenon DEF Prune
<1> HIDE DEF r, e, f, h
<1>5. /\ u \in Budget /\ u.gate = b.gate /\ u.recent = r /\ u.evidence = e
      /\ u.backoff = f /\ u.evidenceBackoff = h
  BY <1>2, <1>3 DEF Budget, Backoffs
<1> QED BY <1>4, <1>5 DEF r, e, f, h

(* A budget made anew: no call, no backoff, no gate yet.                   *)
LEMMA EmptyTyped ==
    /\ EmptyBudget \in Budget /\ EmptyBudget.evidence = <<>> /\ EmptyBudget.gate = None
    /\ \A x \in Chutes : EmptyBudget.evidenceBackoff[x] = NoBackoff
<1>1. [x \in Chutes |-> NoBackoff] \in Backoffs
  BY NoBackoffTyped DEF Backoffs
<1> QED BY <1>1 DEF EmptyBudget, Budget, Backoffs

(* Pruning keeps the fit: a backoff that still counts is not dropped.      *)
LEMMA PruneFit ==
    ASSUME NEW b, NEW calls \in Calls, NEW q \in [Chutes -> Nat], now \in Nat,
           BudgetFit(b, calls, q, now)
    PROVE  BudgetFit(Prune(b), calls, q, now)
<1>1. b \in Budget /\ b.evidence \in Seq(Nat) /\ b.evidenceBackoff \in Backoffs
  BY DEF BudgetFit, Budget, Backoffs
<1>2. QueueFit(Prune(b).evidence, calls, now)
  BY <1>1, PruneForm, TailPruned DEF BudgetFit
<1>3. \A x \in Chutes : Prune(b).evidenceBackoff[x]
                          = IF b.evidenceBackoff[x].until + 2 * BackoffMax > now
                            THEN b.evidenceBackoff[x] ELSE NoBackoff
  BY <1>1, PruneForm, BackoffsKept
<1>4. Stepped(Prune(b).evidenceBackoff)
  BY <1>3 DEF BudgetFit, Stepped
<1>5. ASSUME NEW x \in Chutes, q[x] > now PROVE Prune(b).evidenceBackoff[x].until >= q[x]
  <2>1. b.evidenceBackoff[x].until >= q[x] /\ q[x] \in Nat /\ b.evidenceBackoff[x] \in Backoff
    BY <1>1, <1>5 DEF BudgetFit, Hushed, Backoffs
  <2>2. b.evidenceBackoff[x].until \in Nat
    BY <2>1 DEF Backoff
  <2>3. b.evidenceBackoff[x].until + 2 * BackoffMax > now
    BY <1>5, <2>1, <2>2, Numbers
  <2> QED BY <1>3, <2>1, <2>3
<1> QED BY <1>1, <1>2, <1>4, <1>5, PruneForm DEF BudgetFit, Hushed

(* A budget dropped as idle is remembered by nothing.                      *)
LEMMA IdleFit ==
    ASSUME NEW b, NEW calls \in Calls, NEW q \in [Chutes -> Nat], now \in Nat,
           BudgetFit(b, calls, q, now), Idle(b),
           NEW e \in Budget, e.evidence = <<>>, \A x \in Chutes : e.evidenceBackoff[x] = NoBackoff
    PROVE  BudgetFit(e, calls, q, now)
<1>1. /\ b.evidence = <<>>
      /\ \A x \in Chutes : b.evidenceBackoff[x] = NoBackoff
  BY DEF Idle
<1>2. QueueFit(e.evidence, calls, now)
  BY <1>1 DEF BudgetFit
<1>3. Stepped(e.evidenceBackoff)
  BY DEF Stepped
<1>4. Hushed(e.evidenceBackoff, q, now)
  BY <1>1 DEF BudgetFit, Hushed
<1> QED BY <1>2, <1>3, <1>4 DEF BudgetFit

-----------------------------------------------------------------------------
(* The sweep                                                               *)

(* Each budget after the sweep, and one made anew for c.                   *)
LEMMA SweptFit ==
    ASSUME BudgetInv, NEW c \in Credentials
    PROVE  /\ BudgetFit(Swept[c], log[c], quiet[c], now)
           /\ c \notin Kept => Swept[c] = EmptyBudget
           /\ c \in Kept => /\ c \in held /\ Swept[c].gate = budget[c].gate
                            /\ Swept[c].gate \in Gates
           /\ \A g \in Gates :
                 /\ BudgetFit(Entry(Kept, Swept, c, g), log[c], quiet[c], now)
                 /\ Entry(Kept, Swept, c, g).gate \in Gates
                 /\ c \in Kept => Entry(Kept, Swept, c, g).gate = budget[c].gate
<1>1. /\ now \in Nat /\ log[c] \in Calls /\ quiet[c] \in [Chutes -> Nat]
      /\ BudgetFit(budget[c], log[c], quiet[c], now) /\ budget[c] \in Budget
      /\ c \notin held => budget[c] = EmptyBudget
      /\ c \in held => budget[c].gate \in Gates
  BY DEF BudgetInv, TypeOK, Budgets, BudgetFit, Calls, Call
<1>2. BudgetFit(Prune(budget[c]), log[c], quiet[c], now)
  BY <1>1, PruneFit
<1>3. Prune(budget[c]).gate = budget[c].gate
  BY <1>1, PruneForm
<1>4. Swept[c] = IF c \in Kept THEN Prune(budget[c]) ELSE EmptyBudget
  BY DEF Swept
<1>5. CASE c \in Kept
  <2>1. c \in held
    BY <1>5 DEF Kept
  <2> QED BY <1>1, <1>2, <1>3, <1>4, <1>5, <2>1 DEF Entry
<1>6. CASE c \notin Kept
  <2>1. ASSUME NEW e \in Budget, e.evidence = <<>>,
               \A x \in Chutes : e.evidenceBackoff[x] = NoBackoff
        PROVE  BudgetFit(e, log[c], quiet[c], now)
    <3>1. CASE c \in held
      <4>1. Idle(Prune(budget[c]))
        BY <1>6, <3>1 DEF Kept
      <4> QED BY <1>1, <1>2, <2>1, <4>1, IdleFit
    <3>2. CASE c \notin held
      <4>1. BudgetFit(EmptyBudget, log[c], quiet[c], now)
        BY <1>1, <3>2
      <4> QED BY <2>1, <4>1, EmptyTyped DEF BudgetFit, Stepped, Hushed
    <3> QED BY <3>1, <3>2
  <2>2. ASSUME NEW g \in Gates
        PROVE  /\ BudgetFit(Entry(Kept, Swept, c, g), log[c], quiet[c], now)
               /\ Entry(Kept, Swept, c, g).gate \in Gates
    <3> DEFINE u == [EmptyBudget EXCEPT !.gate = g]
    <3>1. Entry(Kept, Swept, c, g) = u
      BY <1>6 DEF Entry
    <3>2. /\ u \in Budget /\ u.evidence = <<>> /\ u.gate = g
          /\ \A x \in Chutes : u.evidenceBackoff[x] = NoBackoff
      BY EmptyTyped DEF Budget
    <3> HIDE DEF u
    <3> QED BY <2>1, <3>1, <3>2
  <2> QED BY <1>4, <1>6, <2>1, <2>2, EmptyTyped
<1> QED BY <1>5, <1>6

-----------------------------------------------------------------------------
(* Budgets stored                                                          *)

(* The held budgets H as B: what every caller at a gate refers to is held. *)
Base(H, B) ==
    /\ H \subseteq Credentials /\ B \in [Credentials -> Budget]
    /\ \A d \in Credentials : /\ BudgetFit(B[d], log[d], quiet[d], now)
                              /\ d \notin H => B[d] = EmptyBudget
                              /\ d \in H => B[d].gate \in Gates
    /\ \A w \in Workers : worker[w].pc \in {"gate", "discover"} =>
          /\ worker[w].cred \in H
          /\ worker[w].gate = B[worker[w].cred].gate
          /\ worker[w].gate # None

(* The budgets as they are stored.                                         *)
LEMMA HeldBase ==
    ASSUME BudgetInv
    PROVE  Base(held, budget)
BY DEF BudgetInv, Base, TypeOK, Budgets, GateHeld

(* A budget whose gate a caller refers to is not idle.                     *)
LEMMA SweptBase ==
    ASSUME BudgetInv
    PROVE  Base(Kept, Swept)
<1>1. Swept \in [Credentials -> Budget]
  BY SweptFit DEF Swept, BudgetFit
<1>2. Kept \subseteq Credentials
  BY DEF Kept, BudgetInv, TypeOK
<1>3. ASSUME NEW w \in Workers, worker[w].pc \in {"gate", "discover"}
      PROVE  /\ worker[w].cred \in Kept
             /\ worker[w].gate = Swept[worker[w].cred].gate
             /\ worker[w].gate # None
  <2> DEFINE c == worker[w].cred
  <2>1. c \in held /\ worker[w].gate = budget[c].gate /\ worker[w].gate # None
    BY <1>3 DEF BudgetInv, GateHeld
  <2>2. c \in Credentials /\ now \in Nat /\ budget[c] \in Budget
    BY <2>1 DEF BudgetInv, TypeOK
  <2>3. w \in GateUsers(Prune(budget[c]).gate)
    BY <2>1, <2>2, PruneForm DEF GateUsers
  <2>4. ~Idle(Prune(budget[c]))
    BY <2>3 DEF Idle
  <2>5. c \in Kept
    BY <2>1, <2>4 DEF Kept
  <2> QED BY <2>1, <2>2, <2>5, SweptFit
<1> QED BY <1>1, <1>2, <1>3, SweptFit DEF Base

(* One of them is stored.                                                  *)
LEMMA Stored ==
    ASSUME BudgetInv, NEW H, NEW B, Base(H, B), NEW c \in Credentials, NEW b,
           held' = H \cup {c}, budget' = [B EXCEPT ![c] = b], now' = now,
           BudgetFit(b, log'[c], quiet'[c], now), b.gate \in Gates,
           c \in H => b.gate = B[c].gate,
           \A d \in Credentials \ {c} : log'[d] = log[d] /\ quiet'[d] = quiet[d]
    PROVE  /\ Budgets' /\ held' \subseteq Credentials /\ budget' \in [Credentials -> Budget]
           /\ c \in held' /\ budget'[c].gate \in Gates
           /\ \A w \in Workers : worker[w].pc \in {"gate", "discover"} =>
                /\ worker[w].cred \in held'
                /\ worker[w].gate = budget'[worker[w].cred].gate
                /\ worker[w].gate # None
<1>1. b \in Budget
  BY DEF BudgetFit
<1>2. /\ budget' \in [Credentials -> Budget]
      /\ \A d \in Credentials : budget'[d] = IF d = c THEN b ELSE B[d]
  BY <1>1 DEF Base
<1>3. held' \subseteq Credentials
  BY DEF Base
<1>4. ASSUME NEW d \in Credentials
      PROVE  /\ BudgetFit(budget'[d], log'[d], quiet'[d], now')
             /\ d \notin held' => budget'[d] = EmptyBudget
             /\ d \in held' => budget'[d].gate \in Gates
  <2>1. CASE d = c
    BY <1>2, <2>1
  <2>2. CASE d # c
    BY <1>2, <2>2 DEF Base
  <2> QED BY <2>1, <2>2
<1>5. Budgets'
  BY <1>4 DEF Budgets
<1>6. ASSUME NEW w \in Workers, worker[w].pc \in {"gate", "discover"}
      PROVE  /\ worker[w].cred \in held'
             /\ worker[w].gate = budget'[worker[w].cred].gate
             /\ worker[w].gate # None
  <2>1. /\ worker[w].cred \in H /\ worker[w].gate = B[worker[w].cred].gate
        /\ worker[w].gate # None
    BY <1>6 DEF Base
  <2> QED BY <1>2, <1>3, <2>1
<1> QED BY <1>2, <1>3, <1>5, <1>6

(* The workers after one of them has moved.                                *)
LEMMA Moved ==
    ASSUME BudgetInv, NEW w \in Workers, NEW r,
           r \in [pc : {"rest", "gate", "discover", "admit", "renew"},
                  cred : Credentials \cup {None}, chute : Chutes \cup {None},
                  gate : Gates \cup {None}],
           worker' = [worker EXCEPT ![w] = r],
           r.pc # "rest" => r.cred \in Credentials /\ r.chute \in Chutes,
           \A v \in Workers : worker[v].pc \in {"gate", "discover"} =>
                /\ worker[v].cred \in held'
                /\ worker[v].gate = budget'[worker[v].cred].gate
                /\ worker[v].gate # None,
           r.pc \in {"gate", "discover"} =>
                r.cred \in held' /\ r.gate = budget'[r.cred].gate /\ r.gate # None,
           r.pc = "discover" => \A v \in Workers \ {w} :
                worker[v].pc = "discover" => worker[v].cred # r.cred
    PROVE  /\ worker' \in [Workers -> [pc : {"rest", "gate", "discover", "admit", "renew"},
                               cred : Credentials \cup {None}, chute : Chutes \cup {None},
                               gate : Gates \cup {None}]]
           /\ Busy' /\ GateHeld' /\ SingleFlight'
<1> DEFINE Record == [pc : {"rest", "gate", "discover", "admit", "renew"},
                      cred : Credentials \cup {None}, chute : Chutes \cup {None},
                      gate : Gates \cup {None}]
<1>1. worker \in [Workers -> Record] /\ r \in Record
  BY DEF BudgetInv, TypeOK
<1> HIDE DEF Record
<1>2. /\ worker' \in [Workers -> Record]
      /\ \A v \in Workers : worker'[v] = IF v = w THEN r ELSE worker[v]
  BY <1>1
<1>3. Busy'
  BY <1>2 DEF BudgetInv, Busy
<1>4. GateHeld'
  BY <1>2 DEF GateHeld
<1>5. SingleFlight'
  BY <1>2 DEF BudgetInv, SingleFlight
<1> QED BY <1>2, <1>3, <1>4, <1>5 DEF Record

-----------------------------------------------------------------------------
(* Backoffs                                                                *)

(* The rest of the rate window is a length of time.                        *)
LEMMA WindowLeft ==
    ASSUME now \in Nat
    PROVE  UntilNextWindow \in Nat
<1>1. now % Window \in 0 .. Window - 1
  BY Numbers
<1> QED BY <1>1, Numbers DEF UntilNextWindow

(* Backing off never shortens a backoff, and waits at least as long as the *)
(* refusal asks for.                                                       *)
LEMMA BackOffGrows ==
    ASSUME now \in Nat, NEW old \in Backoff, old = NoBackoff \/ old.step >= BackoffStart,
           NEW error \in Errors, NEW spread \in 0 .. Jitter
    PROVE  LET u == BackOff(old, error, spread)
           IN  /\ u \in Backoff /\ u.step >= BackoffStart /\ u.until >= old.until
               /\ Refusal(error) => u.until >= now + BackoffWait(error, BackoffStart, 0)
               /\ now + BackoffWait(error, BackoffStart, 0) \in Nat
<1> DEFINE step == IF old = NoBackoff THEN BackoffStart ELSE Min2(old.step * 2, BackoffMax)
           wait == BackoffWait(error, step, spread)
           least == BackoffWait(error, BackoffStart, 0)
           until == Max2(old.until, now + wait)
<1>1. old.until \in Nat /\ old.step \in 0 .. BackoffMax
  BY DEF Backoff
<1>2. step \in 0 .. BackoffMax /\ step >= BackoffStart
  BY <1>1, Numbers DEF Min2
<1>3. BackOff(old, error, spread) = [until |-> until, step |-> step]
  BY DEF BackOff
<1> HIDE DEF step
<1>4. spread \in Nat /\ UntilNextWindow \in Nat /\ step \in Nat
  BY <1>2, WindowLeft, Numbers
<1>5. wait \in Nat /\ least \in Nat /\ (Refusal(error) => wait >= least)
  <2>1. CASE error = "rate_limited"
    BY <2>1, <1>2, <1>4, Numbers DEF BackoffWait, Max2, Refusal
  <2>2. CASE error = "below_minimum"
    BY <2>2, <1>2, <1>4, Numbers DEF BackoffWait, Refusal
  <2>3. CASE error = "other"
    BY <2>3, <1>2, <1>4, Numbers DEF BackoffWait, Refusal
  <2> QED BY <2>1, <2>2, <2>3 DEF Errors
<1> HIDE DEF wait, least
<1>6. until \in Nat /\ until >= old.until /\ until >= now + wait
  BY <1>1, <1>5 DEF Max2
<1> HIDE DEF until
<1>7. [until |-> until, step |-> step] \in Backoff
  BY <1>2, <1>6 DEF Backoff
<1>8. Refusal(error) => until >= now + least
  BY <1>5, <1>6
<1> QED BY <1>2, <1>3, <1>5, <1>6, <1>7, <1>8 DEF least

-----------------------------------------------------------------------------
(* The actions                                                             *)

(* However long it has lasted, a backoff that begins again is a backoff.   *)
LEMMA BackOffTyped ==
    ASSUME now \in Nat, NEW old \in Backoff, NEW error \in Errors, NEW spread \in 0 .. Jitter
    PROVE  BackOff(old, error, spread) \in Backoff
<1> DEFINE step == IF old = NoBackoff THEN BackoffStart ELSE Min2(old.step * 2, BackoffMax)
           wait == BackoffWait(error, step, spread)
           until == Max2(old.until, now + wait)
<1>1. old.until \in Nat /\ old.step \in 0 .. BackoffMax
  BY DEF Backoff
<1>2. step \in 0 .. BackoffMax
  BY <1>1, Numbers DEF Min2
<1>3. BackOff(old, error, spread) = [until |-> until, step |-> step]
  BY DEF BackOff
<1> HIDE DEF step
<1>4. spread \in Nat /\ UntilNextWindow \in Nat /\ step \in Nat
  BY <1>2, WindowLeft, Numbers
<1>5. wait \in Nat
  BY <1>4, Numbers DEF BackoffWait, Max2, Errors
<1> HIDE DEF wait
<1>6. until \in Nat
  BY <1>1, <1>5 DEF Max2
<1> HIDE DEF until
<1> QED BY <1>2, <1>3, <1>6 DEF Backoff

(* A backoff that begins, or begins again, covers the quiet asked for.     *)
LEMMA BackedOff ==
    ASSUME now \in Nat, NEW old \in Backoff, old = NoBackoff \/ old.step >= BackoffStart,
           NEW error \in Errors, NEW spread \in 0 .. Jitter, NEW m \in Nat,
           m > now => old.until >= m
    PROVE  LET u == BackOff(old, error, spread)
               n == IF Refusal(error) THEN Max2(m, now + BackoffWait(error, BackoffStart, 0)) ELSE m
           IN  /\ u \in Backoff /\ u.step >= BackoffStart
               /\ n \in Nat /\ (n > now => u.until >= n)
<1> DEFINE u == BackOff(old, error, spread)
           least == now + BackoffWait(error, BackoffStart, 0)
           n == IF Refusal(error) THEN Max2(m, least) ELSE m
<1>1. /\ u \in Backoff /\ u.step >= BackoffStart /\ u.until >= old.until
      /\ Refusal(error) => u.until >= least
      /\ least \in Nat
  BY BackOffGrows
<1>2. u.until \in Nat /\ old.until \in Nat
  BY <1>1 DEF Backoff
<1> HIDE DEF u, least
<1>3. n \in Nat /\ (n > now => u.until >= n)
  BY <1>1, <1>2 DEF Max2
<1> QED BY <1>1, <1>3 DEF u, least

WorkerRecord ==
    [pc : {"rest", "gate", "discover", "admit", "renew"},
     cred : Credentials \cup {None}, chute : Chutes \cup {None}, gate : Gates \cup {None}]

(* No caller moves.                                                        *)
LEMMA Unmoved ==
    ASSUME BudgetInv, worker' = worker,
           \A v \in Workers : worker[v].pc \in {"gate", "discover"} =>
                /\ worker[v].cred \in held'
                /\ worker[v].gate = budget'[worker[v].cred].gate
                /\ worker[v].gate # None
    PROVE  worker' \in [Workers -> WorkerRecord] /\ Busy' /\ GateHeld' /\ SingleFlight'
BY DEF BudgetInv, TypeOK, Busy, GateHeld, SingleFlight, WorkerRecord

(* A worker that is done, or is to begin with no gate.                     *)
LEMMA MovedGateless ==
    ASSUME BudgetInv, NEW w \in Workers,
           \/ Rests(w)
           \/ \E c \in Credentials, x \in Chutes, pc \in {"admit", "renew"} : Does(w, pc, c, x, None),
           \A v \in Workers : worker[v].pc \in {"gate", "discover"} =>
                /\ worker[v].cred \in held'
                /\ worker[v].gate = budget'[worker[v].cred].gate
                /\ worker[v].gate # None
    PROVE  worker' \in [Workers -> WorkerRecord] /\ Busy' /\ GateHeld' /\ SingleFlight'
<1>1. PICK r : /\ r \in WorkerRecord /\ worker' = [worker EXCEPT ![w] = r]
               /\ r.pc # "rest" => r.cred \in Credentials /\ r.chute \in Chutes
               /\ r.pc \notin {"gate", "discover"}
  <2>1. CASE Rests(w)
    <3>1. Resting \in WorkerRecord /\ Resting.pc = "rest"
      BY DEF Resting, WorkerRecord
    <3> QED BY <2>1, <3>1 DEF Rests
  <2>2. ASSUME NEW c \in Credentials, NEW x \in Chutes, NEW pc \in {"admit", "renew"},
               Does(w, pc, c, x, None)
        PROVE  \E r : /\ r \in WorkerRecord /\ worker' = [worker EXCEPT ![w] = r]
                      /\ r.pc # "rest" => r.cred \in Credentials /\ r.chute \in Chutes
                      /\ r.pc \notin {"gate", "discover"}
    <3> DEFINE r == [pc |-> pc, cred |-> c, chute |-> x, gate |-> None]
    <3>1. /\ r \in WorkerRecord /\ r.pc = pc /\ r.cred = c /\ r.chute = x
      BY DEF WorkerRecord
    <3>2. worker' = [worker EXCEPT ![w] = r]
      BY <2>2 DEF Does
    <3> HIDE DEF r
    <3> QED BY <3>1, <3>2
  <2> QED BY <2>1, <2>2
<1> QED BY <1>1, Moved DEF WorkerRecord

(* The conjuncts put together.                                             *)
LEMMA Whole ==
    ASSUME Budgets', held' \subseteq Credentials, budget' \in [Credentials -> Budget],
           worker' \in [Workers -> WorkerRecord], Busy', GateHeld', SingleFlight',
           now' \in Nat, log' \in [Credentials -> Calls],
           quiet' \in [Credentials -> [Chutes -> Nat]]
    PROVE  BudgetInv'
BY DEF BudgetInv, TypeOK, WorkerRecord, Calls, Call

(* The types, from the invariant.                                          *)
LEMMA Kinds ==
    ASSUME BudgetInv
    PROVE  /\ now \in Nat /\ held \subseteq Credentials /\ budget \in [Credentials -> Budget]
           /\ worker \in [Workers -> WorkerRecord] /\ log \in [Credentials -> Calls]
           /\ quiet \in [Credentials -> [Chutes -> Nat]]
           /\ FreeGates \subseteq Gates
BY DEF BudgetInv, TypeOK, WorkerRecord, Calls, Call, FreeGates

(* The sweep with nothing added.                                           *)
LEMMA SweepStored ==
    ASSUME BudgetInv, NEW c \in Credentials, WithBudget(c, Same), UNCHANGED <<now, log, quiet>>
    PROVE  /\ Budgets' /\ held' \subseteq Credentials /\ budget' \in [Credentials -> Budget]
           /\ now' \in Nat /\ log' \in [Credentials -> Calls]
           /\ quiet' \in [Credentials -> [Chutes -> Nat]]
           /\ c \in held' /\ budget'[c].gate \in Gates
           /\ \A w \in Workers : worker[w].pc \in {"gate", "discover"} =>
                /\ worker[w].cred \in held'
                /\ worker[w].gate = budget'[worker[w].cred].gate
                /\ worker[w].gate # None
<1>1. PICK g \in FreeGates : /\ held' = Kept \cup {c}
                             /\ budget' = [Swept EXCEPT ![c] = Entry(Kept, Swept, c, g)]
  BY DEF WithBudget, Same
<1> DEFINE b == Entry(Kept, Swept, c, g)
<1>2. /\ g \in Gates
      /\ BudgetFit(b, log[c], quiet[c], now) /\ b.gate \in Gates
      /\ c \in Kept => b.gate = Swept[c].gate
  BY Kinds, SweptFit
<1> HIDE DEF b
<1>3. Base(Kept, Swept)
  BY SweptBase
<1>4. budget' = [Swept EXCEPT ![c] = b]
  BY <1>1 DEF b
<1> QED BY <1>1, <1>2, <1>3, <1>4, Kinds, Stored

(* claim keeps the invariant: the caller takes the gate of the stored      *)
(* budget.                                                                 *)
LEMMA ClaimInv ==
    ASSUME BudgetInv, NEW w \in Workers, NEW c \in Credentials, NEW x \in Chutes, Claim(w, c, x)
    PROVE  BudgetInv'
<1>1. WithBudget(c, Same) /\ UNCHANGED <<now, log, quiet>>
  BY DEF Claim
<1>2. CASE UNCHANGED worker
  BY <1>1, <1>2, SweepStored, Unmoved, Whole
<1>3. CASE Does(w, "gate", c, x, budget'[c].gate)
  <2> DEFINE r == [pc |-> "gate", cred |-> c, chute |-> x, gate |-> budget'[c].gate]
  <2>1. worker' = [worker EXCEPT ![w] = r]
    BY <1>3 DEF Does
  <2>2. c \in held' /\ budget'[c].gate \in Gates
    BY <1>1, SweepStored
  <2>3. /\ r \in WorkerRecord /\ r.pc = "gate" /\ r.cred = c /\ r.chute = x
        /\ r.gate = budget'[c].gate /\ r.gate # None
    BY <2>2, ConstantsAssumption DEF WorkerRecord
  <2> HIDE DEF r
  <2>4. \A v \in Workers : worker[v].pc \in {"gate", "discover"} =>
                /\ worker[v].cred \in held'
                /\ worker[v].gate = budget'[worker[v].cred].gate
                /\ worker[v].gate # None
    BY <1>1, SweepStored
  <2>5. worker' \in [Workers -> WorkerRecord] /\ Busy' /\ GateHeld' /\ SingleFlight'
    BY <2>1, <2>2, <2>3, <2>4, Moved DEF WorkerRecord
  <2> QED BY <1>1, <2>5, SweepStored, Whole
<1> QED BY <1>2, <1>3 DEF Claim

(* charge keeps it: the gate was free, so no other discovery is in flight. *)
LEMMA DiscoveryInv ==
    ASSUME BudgetInv, NEW w \in Workers, ChargeDiscovery(w)
    PROVE  BudgetInv'
<1> DEFINE c == worker[w].cred
           x == worker[w].chute
<1>1. /\ worker[w].pc = "gate" /\ GateFree(worker[w].gate) /\ UNCHANGED <<now, log, quiet>>
      /\ c \in Credentials /\ x \in Chutes
  BY DEF ChargeDiscovery, BudgetInv, Busy
<1>2. CASE WithBudget(c, Same) /\ Rests(w)
  BY <1>1, <1>2, SweepStored, MovedGateless, Whole
<1>3. ASSUME NEW g \in FreeGates, held' = Kept \cup {c},
             budget' = [Swept EXCEPT ![c] = [Entry(Kept, Swept, c, g) EXCEPT
                          !.recent = Append(Entry(Kept, Swept, c, g).recent, now)]],
             Does(w, "discover", c, x, worker[w].gate)
      PROVE  BudgetInv'
  <2> DEFINE b == Entry(Kept, Swept, c, g)
             d == [b EXCEPT !.recent = Append(b.recent, now)]
  <2>1. /\ g \in Gates /\ now \in Nat
        /\ BudgetFit(b, log[c], quiet[c], now) /\ b.gate \in Gates
        /\ c \in Kept => b.gate = Swept[c].gate
    BY <1>1, Kinds, SweptFit
  <2>2. budget' = [Swept EXCEPT ![c] = d]
    BY <1>3
  <2> HIDE DEF b
  <2>3. Append(b.recent, now) \in Seq(Nat)
    BY <2>1 DEF BudgetFit, Budget
  <2>4. d \in Budget /\ d.gate = b.gate /\ d.evidence = b.evidence
        /\ d.evidenceBackoff = b.evidenceBackoff
    BY <2>1, <2>3 DEF BudgetFit, Budget
  <2> HIDE DEF d
  <2>5. BudgetFit(d, log[c], quiet[c], now)
    BY <2>1, <2>4 DEF BudgetFit
  <2>6. /\ Budgets' /\ held' \subseteq Credentials /\ budget' \in [Credentials -> Budget]
        /\ \A v \in Workers : worker[v].pc \in {"gate", "discover"} =>
                /\ worker[v].cred \in held'
                /\ worker[v].gate = budget'[worker[v].cred].gate
                /\ worker[v].gate # None
    <3>1. Base(Kept, Swept)
      BY SweptBase
    <3>2. /\ c \in Kept => d.gate = Swept[c].gate
          /\ d.gate \in Gates /\ now' = now
          /\ BudgetFit(d, log'[c], quiet'[c], now)
          /\ \A e \in Credentials \ {c} : log'[e] = log[e] /\ quiet'[e] = quiet[e]
      BY <1>1, <2>1, <2>4, <2>5
    <3>3. c \in Credentials /\ held' = Kept \cup {c}
      BY <1>1, <1>3
    <3> HIDE DEF c
    <3> QED BY <2>2, <3>1, <3>2, <3>3, Stored
  <2> DEFINE r == [pc |-> "discover", cred |-> c, chute |-> x, gate |-> worker[w].gate]
  <2>7. worker' = [worker EXCEPT ![w] = r]
    BY <1>3 DEF Does
  <2>8. worker[w].gate \in Gates \cup {None}
    BY Kinds DEF WorkerRecord
  <2>9. /\ r \in WorkerRecord /\ r.pc = "discover" /\ r.cred = c /\ r.chute = x
        /\ r.gate = worker[w].gate
    BY <1>1, <2>8 DEF WorkerRecord
  <2> HIDE DEF r
  <2>10. ASSUME NEW v \in Workers \ {w}, worker[v].pc = "discover" PROVE worker[v].cred # c
    <3>1. ASSUME worker[v].cred = c PROVE FALSE
      <4>1. worker[v].gate = worker[w].gate
        BY <1>1, <2>10, <3>1 DEF BudgetInv, GateHeld
      <4>2. v \in GateUsers(worker[w].gate)
        BY <4>1 DEF GateUsers
      <4> QED BY <1>1, <2>10, <4>2 DEF GateFree
    <3> QED BY <3>1
  <2>11. worker' \in [Workers -> WorkerRecord] /\ Busy' /\ GateHeld' /\ SingleFlight'
    BY <1>1, <2>6, <2>7, <2>9, <2>10, Moved DEF WorkerRecord
  <2> QED BY <1>1, <2>6, <2>11, Kinds, Whole
<1>4. CASE ~(WithBudget(c, Same) /\ Rests(w))
  <2>1. \E g \in FreeGates :
          /\ held' = Kept \cup {c}
          /\ budget' = [Swept EXCEPT ![c] = [Entry(Kept, Swept, c, g) EXCEPT
                          !.recent = Append(Entry(Kept, Swept, c, g).recent, now)]]
    BY <1>4 DEF ChargeDiscovery, WithBudget
  <2>2. Does(w, "discover", c, x, worker[w].gate)
    BY <1>4 DEF ChargeDiscovery
  <2> QED BY <2>1, <2>2, <1>3
<1> QED BY <1>2, <1>4

(* An evidence call begins.                                                *)
LEMMA ChargeInv ==
    ASSUME BudgetInv, NEW w \in Workers, NEW c \in Credentials, NEW x \in Chutes,
           NEW pc \in {"admit", "renew"}, Charge(w, c, x, pc)
    PROVE  /\ BudgetInv'
           /\ quiet[c][x] <= now
           /\ log' = [log EXCEPT ![c] = Append(log[c], [at |-> now, chute |-> x])]
<1> DEFINE call == [at |-> now, chute |-> x]
<1>1. /\ ~EvidenceDenied(Swept[c], x) /\ Does(w, pc, c, x, None)
      /\ log' = [log EXCEPT ![c] = Append(log[c], call)]
      /\ now' = now /\ quiet' = quiet
  BY DEF Charge
<1>2. PICK g \in FreeGates :
          /\ held' = Kept \cup {c}
          /\ budget' = [Swept EXCEPT ![c] = [Entry(Kept, Swept, c, g) EXCEPT
                          !.evidence = Append(Entry(Kept, Swept, c, g).evidence, now)]]
  BY DEF Charge, WithBudget
<1>3. /\ now \in Nat /\ log[c] \in Calls /\ quiet[c] \in [Chutes -> Nat] /\ g \in Gates
      /\ call \in Call
  BY Kinds DEF Call
<1> DEFINE b == Entry(Kept, Swept, c, g)
           d == [b EXCEPT !.evidence = Append(b.evidence, now)]
<1>4. /\ BudgetFit(Swept[c], log[c], quiet[c], now)
      /\ BudgetFit(b, log[c], quiet[c], now) /\ b.gate \in Gates
      /\ c \in Kept => b.gate = Swept[c].gate
      /\ b.evidence = Swept[c].evidence
  <2>1. b.evidence = Swept[c].evidence
    <3>1. CASE c \in Kept
      BY <3>1 DEF Entry
    <3>2. CASE c \notin Kept
      <4>1. b = [EmptyBudget EXCEPT !.gate = g] /\ Swept[c] = EmptyBudget
        BY <3>2, SweptFit DEF Entry
      <4> QED BY <4>1, EmptyTyped DEF Budget
    <3> QED BY <3>1, <3>2
  <2> QED BY <1>3, <2>1, SweptFit
<1>5. /\ Len(b.evidence) < EvidenceLimit
      /\ ~ (Swept[c].evidenceBackoff[x].until > now)
  <2>1. ~ (Len(Swept[c].evidence) >= EvidenceLimit) /\ ~ (Swept[c].evidenceBackoff[x].until > now)
    BY <1>1 DEF EvidenceDenied, EvidenceBackingOff
  <2>2. Swept[c].evidence \in Seq(Nat) /\ EvidenceLimit \in Nat
    BY <1>4, ConstantsAssumption DEF BudgetFit, Budget
  <2> QED BY <1>4, <2>1, <2>2
<1> HIDE DEF b, call
<1>6. quiet[c][x] <= now
  <2>1. quiet[c][x] \in Nat /\ Swept[c].evidenceBackoff[x] \in Backoff
    BY <1>3, <1>4 DEF BudgetFit, Budget
  <2>2. Swept[c].evidenceBackoff[x].until \in Nat
    BY <2>1 DEF Backoff
  <2>3. quiet[c][x] > now => Swept[c].evidenceBackoff[x].until >= quiet[c][x]
    BY <1>4 DEF BudgetFit, Hushed
  <2> QED BY <1>3, <1>5, <2>1, <2>2, <2>3
<1>7. /\ log' \in [Credentials -> Calls] /\ log'[c] = Append(log[c], call)
      /\ \A e \in Credentials \ {c} : log'[e] = log[e]
  <2>1. Append(log[c], call) \in Calls
    BY <1>3 DEF Calls
  <2> QED BY <1>1, <2>1, Kinds
<1>8. b.evidence \in Seq(Nat) /\ Append(b.evidence, now) \in Seq(Nat)
  BY <1>3, <1>4 DEF BudgetFit, Budget
<1>9. /\ d \in Budget /\ d.gate = b.gate /\ d.evidence = Append(b.evidence, now)
      /\ d.evidenceBackoff = b.evidenceBackoff
  BY <1>4, <1>8 DEF BudgetFit, Budget
<1>10. budget' = [Swept EXCEPT ![c] = d]
  BY <1>2 DEF b
<1> HIDE DEF d
<1>11. QueueFit(Append(b.evidence, now), Append(log[c], call), now)
  BY <1>3, <1>4, <1>5, <1>8, TailCharged DEF BudgetFit, call
<1>12. BudgetFit(d, log'[c], quiet'[c], now)
  BY <1>1, <1>4, <1>7, <1>9, <1>11 DEF BudgetFit
<1>13. /\ Budgets' /\ held' \subseteq Credentials /\ budget' \in [Credentials -> Budget]
       /\ \A v \in Workers : worker[v].pc \in {"gate", "discover"} =>
                /\ worker[v].cred \in held'
                /\ worker[v].gate = budget'[worker[v].cred].gate
                /\ worker[v].gate # None
  <2>1. Base(Kept, Swept)
    BY SweptBase
  <2>2. /\ c \in Kept => d.gate = Swept[c].gate
        /\ d.gate \in Gates /\ now' = now
        /\ \A e \in Credentials \ {c} : log'[e] = log[e] /\ quiet'[e] = quiet[e]
    BY <1>1, <1>4, <1>7, <1>9
  <2> QED BY <1>2, <1>10, <1>12, <2>1, <2>2, Stored
<1>14. worker' \in [Workers -> WorkerRecord] /\ Busy' /\ GateHeld' /\ SingleFlight'
  BY <1>1, <1>13, MovedGateless
<1>15. BudgetInv'
  BY <1>1, <1>7, <1>13, <1>14, Kinds, Whole
<1> QED BY <1>1, <1>6, <1>15 DEF call

(* A refused evidence call only sweeps.                                    *)
LEMMA EvidenceRefusedInv ==
    ASSUME BudgetInv, NEW w \in Workers, NEW c \in Credentials, NEW x \in Chutes,
           EvidenceRefused(w, c, x)
    PROVE  BudgetInv'
<1>1. WithBudget(c, Same) /\ UNCHANGED <<now, log, quiet>> /\ worker' = worker
  BY DEF EvidenceRefused
<1> QED BY <1>1, SweepStored, Unmoved, Whole

(* The budget a failure is written to.                                     *)
LEMMA EntryFit ==
    ASSUME NEW H, NEW B, Base(H, B), NEW c \in Credentials, NEW g \in Gates
    PROVE  /\ BudgetFit(Entry(H, B, c, g), log[c], quiet[c], now)
           /\ Entry(H, B, c, g).gate \in Gates
           /\ c \in H => Entry(H, B, c, g).gate = B[c].gate
<1>1. CASE c \in H
  BY <1>1 DEF Base, Entry
<1>2. CASE c \notin H
  <2> DEFINE u == [EmptyBudget EXCEPT !.gate = g]
  <2>1. Entry(H, B, c, g) = u
    BY <1>2 DEF Entry
  <2>2. BudgetFit(EmptyBudget, log[c], quiet[c], now)
    BY <1>2 DEF Base
  <2>3. /\ u \in Budget /\ u.evidence = EmptyBudget.evidence /\ u.gate = g
        /\ u.evidenceBackoff = EmptyBudget.evidenceBackoff
    BY EmptyTyped DEF Budget
  <2> HIDE DEF u
  <2>4. BudgetFit(u, log[c], quiet[c], now)
    BY <2>2, <2>3 DEF BudgetFit
  <2> QED BY <1>2, <2>1, <2>3, <2>4
<1> QED BY <1>1, <1>2

(* A failure is written to the budget of c: to the evidence backoff, and   *)
(* to the request backoff when both is.                                    *)
LEMMA FailureStored ==
    ASSUME BudgetInv, NEW H, NEW B, Base(H, B), NEW c \in Credentials, NEW x \in Chutes,
           NEW error \in Errors, NEW spread \in 0 .. Jitter, NEW g \in Gates,
           NEW b, b = Entry(H, B, c, g),
           NEW f \in Backoffs, NEW h,
           h = [b.evidenceBackoff EXCEPT ![x] = BackOff(b.evidenceBackoff[x], error, spread)],
           held' = H \cup {c},
           \/ budget' = [B EXCEPT ![c] = [b EXCEPT !.evidenceBackoff = h]]
           \/ budget' = [B EXCEPT ![c] = [b EXCEPT !.backoff = f, !.evidenceBackoff = h]],
           Hush(c, x, error), now' = now, log' = log
    PROVE  /\ Budgets' /\ held' \subseteq Credentials /\ budget' \in [Credentials -> Budget]
           /\ now' \in Nat /\ log' \in [Credentials -> Calls]
           /\ quiet' \in [Credentials -> [Chutes -> Nat]]
           /\ \A w \in Workers : worker[w].pc \in {"gate", "discover"} =>
                /\ worker[w].cred \in held'
                /\ worker[w].gate = budget'[worker[w].cred].gate
                /\ worker[w].gate # None
<1> DEFINE n == IF Refusal(error)
                THEN Max2(quiet[c][x], now + BackoffWait(error, BackoffStart, 0))
                ELSE quiet[c][x]
           d == IF budget' = [B EXCEPT ![c] = [b EXCEPT !.evidenceBackoff = h]]
                THEN [b EXCEPT !.evidenceBackoff = h]
                ELSE [b EXCEPT !.backoff = f, !.evidenceBackoff = h]
           p == [quiet[c] EXCEPT ![x] = n]
<1>1. /\ now \in Nat /\ log \in [Credentials -> Calls]
      /\ quiet \in [Credentials -> [Chutes -> Nat]] /\ quiet[c] \in [Chutes -> Nat]
  BY Kinds
<1>2. /\ BudgetFit(b, log[c], quiet[c], now) /\ b.gate \in Gates
      /\ c \in H => b.gate = B[c].gate
  BY EntryFit
<1>3. /\ b \in Budget /\ b.evidenceBackoff \in Backoffs /\ Stepped(b.evidenceBackoff)
      /\ Hushed(b.evidenceBackoff, quiet[c], now) /\ QueueFit(b.evidence, log[c], now)
  BY <1>2 DEF BudgetFit, Budget, Backoffs
<1>4. h \in Backoffs /\ Stepped(h) /\ Hushed(h, p, now) /\ n \in Nat
  <2> DEFINE e == b.evidenceBackoff
             u == BackOff(e[x], error, spread)
             m == quiet[c][x]
  <2>1. /\ e[x] \in Backoff /\ m \in Nat /\ (m > now => e[x].until >= m)
        /\ e[x] = NoBackoff \/ e[x].step >= BackoffStart
    BY <1>1, <1>3 DEF Backoffs, Stepped, Hushed
  <2>2. u \in Backoff /\ u.step >= BackoffStart /\ n \in Nat /\ (n > now => u.until >= n)
    BY <1>1, <2>1, BackedOff
  <2>3. h = [e EXCEPT ![x] = u]
    OBVIOUS
  <2> HIDE DEF n, u
  <2>4. h \in Backoffs /\ \A y \in Chutes : h[y] = IF y = x THEN u ELSE e[y]
    BY <1>3, <2>2, <2>3 DEF Backoffs
  <2>5. \A y \in Chutes : p[y] = IF y = x THEN n ELSE quiet[c][y]
    BY <1>1
  <2>6. Stepped(h)
    BY <1>3, <2>2, <2>4 DEF Stepped
  <2>7. Hushed(h, p, now)
    BY <1>3, <2>2, <2>4, <2>5 DEF Hushed
  <2> QED BY <2>2, <2>4, <2>6, <2>7
<1>5. /\ quiet' \in [Credentials -> [Chutes -> Nat]]
      /\ quiet'[c] = p
      /\ \A e \in Credentials \ {c} : quiet'[e] = quiet[e]
  <2>1. quiet' = [quiet EXCEPT ![c] = p]
    BY Zenon DEF Hush
  <2>2. p \in [Chutes -> Nat]
    <3> HIDE DEF n
    <3> QED BY <1>1, <1>4
  <2> HIDE DEF p
  <2> QED BY <1>1, <2>1, <2>2
<1> HIDE DEF n, p
<1>6. d.gate = b.gate /\ d \in Budget /\ d.evidence = b.evidence /\ d.evidenceBackoff = h
  <2>1. /\ [b EXCEPT !.evidenceBackoff = h] \in Budget
        /\ [b EXCEPT !.evidenceBackoff = h].gate = b.gate
        /\ [b EXCEPT !.evidenceBackoff = h].evidence = b.evidence
        /\ [b EXCEPT !.evidenceBackoff = h].evidenceBackoff = h
    BY <1>3, <1>4 DEF Budget, Backoffs
  <2>2. /\ [b EXCEPT !.backoff = f, !.evidenceBackoff = h] \in Budget
        /\ [b EXCEPT !.backoff = f, !.evidenceBackoff = h].gate = b.gate
        /\ [b EXCEPT !.backoff = f, !.evidenceBackoff = h].evidence = b.evidence
        /\ [b EXCEPT !.backoff = f, !.evidenceBackoff = h].evidenceBackoff = h
    BY <1>3, <1>4 DEF Budget, Backoffs
  <2> QED BY <2>1, <2>2
<1>7. budget' = [B EXCEPT ![c] = d]
  OBVIOUS
<1> HIDE DEF d
<1>8. BudgetFit(d, log[c], p, now)
  BY <1>3, <1>4, <1>6 DEF BudgetFit
<1>9. /\ c \in H => d.gate = B[c].gate
      /\ d.gate \in Gates
      /\ BudgetFit(d, log'[c], quiet'[c], now)
      /\ \A e \in Credentials \ {c} : log'[e] = log[e] /\ quiet'[e] = quiet[e]
  BY <1>2, <1>5, <1>6, <1>8
<1> QED BY <1>1, <1>5, <1>7, <1>9, Stored

(* evidence_failed backs evidence calls off.                               *)
LEMMA EvidenceFailedStored ==
    ASSUME BudgetInv, NEW H, NEW B, Base(H, B), NEW c \in Credentials, NEW x \in Chutes,
           NEW error \in Errors, EvidenceFailed(H, B, c, x, error), Hush(c, x, error),
           now' = now, log' = log
    PROVE  /\ Budgets' /\ held' \subseteq Credentials /\ budget' \in [Credentials -> Budget]
           /\ now' \in Nat /\ log' \in [Credentials -> Calls]
           /\ quiet' \in [Credentials -> [Chutes -> Nat]]
           /\ \A w \in Workers : worker[w].pc \in {"gate", "discover"} =>
                /\ worker[w].cred \in held'
                /\ worker[w].gate = budget'[worker[w].cred].gate
                /\ worker[w].gate # None
<1>1. PICK g \in FreeGates, spread \in 0 .. Jitter :
        /\ held' = H \cup {c}
        /\ budget' = [B EXCEPT ![c] = [Entry(H, B, c, g) EXCEPT
              !.evidenceBackoff = [Entry(H, B, c, g).evidenceBackoff EXCEPT
                 ![x] = BackOff(Entry(H, B, c, g).evidenceBackoff[x], error, spread)]]]
  BY Zenon DEF EvidenceFailed
<1> DEFINE b == Entry(H, B, c, g)
           h == [b.evidenceBackoff EXCEPT ![x] = BackOff(b.evidenceBackoff[x], error, spread)]
<1>2. budget' = [B EXCEPT ![c] = [b EXCEPT !.evidenceBackoff = h]] /\ held' = H \cup {c}
  BY <1>1
<1>3. g \in Gates /\ b.backoff \in Backoffs
  BY Kinds, EntryFit DEF BudgetFit, Budget, Backoffs
<1> HIDE DEF b, h
<1>4. b = Entry(H, B, c, g)
      /\ h = [b.evidenceBackoff EXCEPT ![x] = BackOff(b.evidenceBackoff[x], error, spread)]
  BY DEF b, h
<1> QED BY <1>2, <1>3, <1>4, FailureStored

(* failed backs off both ways after a refusal, and otherwise the requests. *)
LEMMA FailedStored ==
    ASSUME BudgetInv, NEW c \in Credentials, NEW x \in Chutes, NEW error \in Errors,
           Failed(c, x, error), Hush(c, x, error), now' = now, log' = log
    PROVE  /\ Budgets' /\ held' \subseteq Credentials /\ budget' \in [Credentials -> Budget]
           /\ now' \in Nat /\ log' \in [Credentials -> Calls]
           /\ quiet' \in [Credentials -> [Chutes -> Nat]]
           /\ \A w \in Workers : worker[w].pc \in {"gate", "discover"} =>
                /\ worker[w].cred \in held'
                /\ worker[w].gate = budget'[worker[w].cred].gate
                /\ worker[w].gate # None
<1>1. PICK g \in FreeGates, spread \in 0 .. Jitter, spread2 \in 0 .. Jitter :
        /\ held' = held \cup {c}
        /\ budget' = [budget EXCEPT ![c] = [Entry(held, budget, c, g) EXCEPT
              !.backoff[x] = BackOff(@, error, spread),
              !.evidenceBackoff[x] = IF Refusal(error) THEN BackOff(@, error, spread2) ELSE @]]
  BY Zenon DEF Failed
<1> DEFINE b == Entry(held, budget, c, g)
           v == IF Refusal(error) THEN BackOff(b.evidenceBackoff[x], error, spread2)
                                  ELSE b.evidenceBackoff[x]
           f == [b.backoff EXCEPT ![x] = BackOff(b.backoff[x], error, spread)]
           h == [b.evidenceBackoff EXCEPT ![x] = v]
<1>2. Base(held, budget) /\ g \in Gates /\ now \in Nat
  BY HeldBase, Kinds
<1>3. b.backoff \in Backoffs /\ b.evidenceBackoff \in Backoffs /\ b \in Budget
  BY <1>2, EntryFit DEF BudgetFit, Budget, Backoffs
<1>4. budget' = [budget EXCEPT ![c] = [b EXCEPT !.backoff = f, !.evidenceBackoff = h]]
      /\ held' = held \cup {c}
  <2> DEFINE e == [b EXCEPT !.backoff[x] = BackOff(@, error, spread),
              !.evidenceBackoff[x] = IF Refusal(error) THEN BackOff(@, error, spread2) ELSE @]
  <2>1. budget' = [budget EXCEPT ![c] = e] /\ held' = held \cup {c}
    BY <1>1
  <2> HIDE DEF b
  <2>2. e = [b EXCEPT !.backoff = f, !.evidenceBackoff = h]
    BY <1>3 DEF Budget
  <2> HIDE DEF e, f, h
  <2> QED BY <2>1, <2>2
<1>5. f \in Backoffs
  <2>1. b.backoff[x] \in Backoff
    BY <1>3 DEF Backoffs
  <2>2. BackOff(b.backoff[x], error, spread) \in Backoff
    BY <1>2, <2>1, BackOffTyped
  <2> QED BY <1>3, <2>2 DEF Backoffs
<1> HIDE DEF f
<1>6. CASE Refusal(error)
  <2>1. h = [b.evidenceBackoff EXCEPT ![x] = BackOff(b.evidenceBackoff[x], error, spread2)]
    BY <1>6
  <2>2. b = Entry(held, budget, c, g)
    OBVIOUS
  <2> HIDE DEF b, h, v
  <2> QED BY <1>4, <1>2, <1>5, <2>1, <2>2, FailureStored
<1>7. CASE ~Refusal(error)
  <2>1. h = b.evidenceBackoff
    BY <1>3, <1>7 DEF Backoffs
  <2> DEFINE d == [b EXCEPT !.backoff = f]
  <2>2. /\ BudgetFit(b, log[c], quiet[c], now) /\ b.gate \in Gates
        /\ c \in held => b.gate = budget[c].gate
    BY <1>2, EntryFit
  <2>3. quiet' = quiet
    BY <1>7, Kinds DEF Hush
  <2> HIDE DEF b, h
  <2>4. b \in Budget
    BY <2>2 DEF BudgetFit
  <2>5. /\ d \in Budget /\ d.gate = b.gate /\ d.evidence = b.evidence
        /\ d.evidenceBackoff = b.evidenceBackoff
    BY <1>5, <2>4 DEF Budget, Backoffs
  <2>6. [b EXCEPT !.backoff = f, !.evidenceBackoff = h] = d
    BY <1>5, <2>1, <2>4 DEF Budget
  <2> HIDE DEF d
  <2>7. BudgetFit(d, log'[c], quiet'[c], now)
    BY <2>2, <2>3, <2>5 DEF BudgetFit
  <2>8. budget' = [budget EXCEPT ![c] = d] /\ held' = held \cup {c}
    BY <1>4, <2>6
  <2>9. /\ c \in held => d.gate = budget[c].gate
        /\ d.gate \in Gates
        /\ \A e \in Credentials \ {c} : log'[e] = log[e] /\ quiet'[e] = quiet[e]
    BY <2>2, <2>3, <2>5
  <2> QED BY <1>2, <2>3, <2>7, <2>8, <2>9, Stored, Kinds
<1> QED BY <1>6, <1>7

(* A renewal refused by its budget backs evidence calls off.               *)
LEMMA RenewalRefusedInv ==
    ASSUME BudgetInv, NEW w \in Workers, NEW c \in Credentials, NEW x \in Chutes,
           RenewalRefused(w, c, x)
    PROVE  BudgetInv'
<1>1. EvidenceFailed(Kept, Swept, c, x, "other") /\ UNCHANGED <<now, worker, log, quiet>>
  BY DEF RenewalRefused
<1>2. Hush(c, x, "other") /\ "other" \in Errors
  BY <1>1, Kinds DEF Hush, Refusal, Errors
<1>3. Base(Kept, Swept)
  BY SweptBase
<1>4. /\ Budgets' /\ held' \subseteq Credentials /\ budget' \in [Credentials -> Budget]
      /\ now' \in Nat /\ log' \in [Credentials -> Calls]
      /\ quiet' \in [Credentials -> [Chutes -> Nat]]
      /\ \A v \in Workers : worker[v].pc \in {"gate", "discover"} =>
           /\ worker[v].cred \in held'
           /\ worker[v].gate = budget'[worker[v].cred].gate
           /\ worker[v].gate # None
  BY <1>1, <1>2, <1>3, EvidenceFailedStored
<1>5. worker' \in [Workers -> WorkerRecord] /\ Busy' /\ GateHeld' /\ SingleFlight'
  BY <1>1, <1>4, Unmoved
<1> QED BY <1>4, <1>5, Whole

(* A call that fails writes its backoffs and lets go of the gate.          *)
LEMMA FailsInv ==
    ASSUME BudgetInv, NEW w \in Workers, CallFails(w) \/ RenewalFails(w)
    PROVE  BudgetInv'
<1> DEFINE c == worker[w].cred
           x == worker[w].chute
<1>1. c \in Credentials /\ x \in Chutes
  BY DEF CallFails, RenewalFails, BudgetInv, Busy
<1>2. Rests(w) /\ now' = now /\ log' = log
  BY DEF CallFails, RenewalFails
<1>3. PICK error \in Errors :
        /\ Hush(c, x, error)
        /\ Failed(c, x, error) \/ EvidenceFailed(held, budget, c, x, error)
  BY DEF CallFails, RenewalFails
<1> HIDE DEF c, x
<1>4. Base(held, budget)
  BY HeldBase
<1>5. /\ Budgets' /\ held' \subseteq Credentials /\ budget' \in [Credentials -> Budget]
      /\ now' \in Nat /\ log' \in [Credentials -> Calls]
      /\ quiet' \in [Credentials -> [Chutes -> Nat]]
      /\ \A v \in Workers : worker[v].pc \in {"gate", "discover"} =>
           /\ worker[v].cred \in held'
           /\ worker[v].gate = budget'[worker[v].cred].gate
           /\ worker[v].gate # None
  <2>1. CASE Failed(c, x, error)
    BY <1>1, <1>2, <1>3, <2>1, FailedStored
  <2>2. CASE EvidenceFailed(held, budget, c, x, error)
    BY <1>1, <1>2, <1>3, <1>4, <2>2, EvidenceFailedStored
  <2> QED BY <1>3, <2>1, <2>2
<1>6. worker' \in [Workers -> WorkerRecord] /\ Busy' /\ GateHeld' /\ SingleFlight'
  BY <1>2, <1>5, MovedGateless
<1> QED BY <1>5, <1>6, Whole

(* A call that answers lets go of the gate.                                *)
LEMMA CallReturnsInv ==
    ASSUME BudgetInv, NEW w \in Workers, CallReturns(w)
    PROVE  BudgetInv'
<1>1. Rests(w) /\ UNCHANGED <<now, held, budget, log, quiet>>
  BY DEF CallReturns
<1>2. /\ Budgets' /\ held' \subseteq Credentials /\ budget' \in [Credentials -> Budget]
      /\ now' \in Nat /\ log' \in [Credentials -> Calls]
      /\ quiet' \in [Credentials -> [Chutes -> Nat]]
  BY <1>1, Kinds DEF BudgetInv, Budgets
<1>3. \A v \in Workers : worker[v].pc \in {"gate", "discover"} =>
           /\ worker[v].cred \in held'
           /\ worker[v].gate = budget'[worker[v].cred].gate
           /\ worker[v].gate # None
  BY <1>1 DEF BudgetInv, GateHeld
<1>4. worker' \in [Workers -> WorkerRecord] /\ Busy' /\ GateHeld' /\ SingleFlight'
  BY <1>1, <1>3, MovedGateless
<1> QED BY <1>2, <1>4, Whole

(* A ticket clears the request backoff of its chute and nothing else.      *)
LEMMA ServedInv ==
    ASSUME BudgetInv, NEW w \in Workers, NEW c \in Credentials, NEW x \in Chutes, Served(w, c, x)
    PROVE  BudgetInv'
<1>1. /\ c \in held /\ UNCHANGED <<now, held, worker, log, quiet>>
      /\ budget' = [budget EXCEPT ![c] = [budget[c] EXCEPT
                       !.backoff = [budget[c].backoff EXCEPT ![x] = NoBackoff]]]
  BY Zenon DEF Served, Cleared
<1> DEFINE b == budget[c]
           f == [b.backoff EXCEPT ![x] = NoBackoff]
           d == [b EXCEPT !.backoff = f]
<1>2. Base(held, budget) /\ now \in Nat
  BY HeldBase, Kinds
<1>3. BudgetFit(b, log[c], quiet[c], now) /\ b.gate \in Gates /\ b \in Budget
  BY <1>1, <1>2 DEF Base, BudgetFit
<1>4. budget' = [budget EXCEPT ![c] = d]
  BY <1>1
<1> HIDE DEF b
<1>5. f \in Backoffs
  BY <1>3, NoBackoffTyped DEF Budget, Backoffs
<1> HIDE DEF f
<1>6. /\ d \in Budget /\ d.gate = b.gate /\ d.evidence = b.evidence
      /\ d.evidenceBackoff = b.evidenceBackoff
  BY <1>3, <1>5 DEF Budget, Backoffs
<1> HIDE DEF d
<1>7. BudgetFit(d, log'[c], quiet'[c], now)
  BY <1>1, <1>3, <1>6 DEF BudgetFit
<1>8. /\ c \in held => d.gate = budget[c].gate
      /\ d.gate \in Gates /\ now' = now
      /\ \A e \in Credentials \ {c} : log'[e] = log[e] /\ quiet'[e] = quiet[e]
      /\ held' = held \cup {c}
  BY <1>1, <1>3, <1>6 DEF b
<1>9. /\ Budgets' /\ held' \subseteq Credentials /\ budget' \in [Credentials -> Budget]
      /\ \A v \in Workers : worker[v].pc \in {"gate", "discover"} =>
           /\ worker[v].cred \in held'
           /\ worker[v].gate = budget'[worker[v].cred].gate
           /\ worker[v].gate # None
  BY <1>2, <1>4, <1>7, <1>8, Stored
<1>10. worker' \in [Workers -> WorkerRecord] /\ Busy' /\ GateHeld' /\ SingleFlight'
  BY <1>1, <1>9, Unmoved
<1> QED BY <1>1, <1>9, <1>10, Kinds, Whole

(* Time only lets calls leave the window and quiet end.                    *)
LEMMA FitLater ==
    ASSUME NEW b, NEW calls \in Calls, NEW q \in [Chutes -> Nat], NEW t \in Nat,
           BudgetFit(b, calls, q, t)
    PROVE  BudgetFit(b, calls, q, t + 1)
<1>1. /\ b \in Budget /\ QueueFit(b.evidence, calls, t) /\ Hushed(b.evidenceBackoff, q, t)
      /\ b.evidence \in Seq(Nat)
  BY DEF BudgetFit, Budget
<1>2. QueueFit(b.evidence, calls, t + 1)
  <2> DEFINE gone == Len(calls) - Len(b.evidence)
  <2>1. gone \in Nat /\ Len(calls) \in Nat /\ Len(b.evidence) \in Nat /\ Window \in Nat
    BY <1>1, Numbers DEF QueueFit, Calls
  <2>2. ASSUME NEW j \in 1 .. gone PROVE calls[j].at + Window <= t + 1
    <3>1. j \in 1 .. Len(calls)
      BY <2>1
    <3>2. calls[j] \in Call
      BY <3>1 DEF Calls
    <3>3. calls[j].at \in Nat /\ calls[j].at + Window <= t
      BY <1>1, <3>2 DEF QueueFit, Call
    <3> QED BY <2>1, <3>3
  <2> QED BY <1>1, <2>2 DEF QueueFit
<1>3. Hushed(b.evidenceBackoff, q, t + 1)
  BY <1>1 DEF Hushed
<1> QED BY <1>1, <1>2, <1>3 DEF BudgetFit

(* Time passes.                                                            *)
LEMMA TickInv ==
    ASSUME BudgetInv, Tick
    PROVE  BudgetInv'
<1>1. now' = now + 1 /\ UNCHANGED <<held, budget, worker, log, quiet>> /\ now \in Nat
  BY Kinds DEF Tick
<1>2. ASSUME NEW c \in Credentials PROVE BudgetFit(budget[c], log[c], quiet[c], now')
  BY <1>1, Kinds, FitLater DEF BudgetInv, Budgets
<1>3. Budgets'
  BY <1>1, <1>2 DEF BudgetInv, Budgets
<1>4. GateHeld' /\ Busy' /\ SingleFlight'
  BY <1>1 DEF BudgetInv, GateHeld, Busy, SingleFlight
<1> QED BY <1>1, <1>3, <1>4, Kinds, Whole

(* The first state: no budget held, nobody at a gate.                      *)
LEMMA BudgetInit == Init => BudgetInv
<1> SUFFICES ASSUME Init PROVE BudgetInv
  OBVIOUS
<1>1. /\ now = 0 /\ held = {} /\ budget = [c \in Credentials |-> EmptyBudget]
      /\ worker = [w \in Workers |-> Resting] /\ log = [c \in Credentials |-> <<>>]
      /\ quiet = [c \in Credentials |-> [x \in Chutes |-> 0]]
  BY DEF Init
<1>2. Resting \in WorkerRecord /\ Resting.pc = "rest"
  BY DEF Resting, WorkerRecord
<1>3. \A w \in Workers : worker[w] = Resting
  BY <1>1
<1>4. TypeOK
  <2>1. worker \in [Workers -> WorkerRecord]
    BY <1>1, <1>2
  <2>2. budget \in [Credentials -> Budget]
    BY <1>1, EmptyTyped
  <2> QED BY <1>1, <2>1, <2>2 DEF TypeOK, WorkerRecord
<1>5. Busy /\ GateHeld /\ SingleFlight
  BY <1>2, <1>3 DEF Busy, GateHeld, SingleFlight
<1>6. ASSUME NEW c \in Credentials
      PROVE  BudgetFit(budget[c], log[c], quiet[c], now) /\ budget[c] = EmptyBudget
  <2>1. budget[c] = EmptyBudget /\ log[c] = <<>> /\ quiet[c] = [x \in Chutes |-> 0]
    BY <1>1
  <2>2. QueueFit(EmptyBudget.evidence, log[c], now)
    BY <2>1, EmptyTyped, ConstantsAssumption DEF QueueFit
  <2>3. Stepped(EmptyBudget.evidenceBackoff)
    BY EmptyTyped DEF Stepped
  <2>4. Hushed(EmptyBudget.evidenceBackoff, quiet[c], now)
    BY <1>1, <2>1 DEF Hushed
  <2> QED BY <2>1, <2>2, <2>3, <2>4, EmptyTyped DEF BudgetFit
<1>7. Budgets
  BY <1>1, <1>6 DEF Budgets
<1> QED BY <1>4, <1>5, <1>7 DEF BudgetInv

(* Every step keeps the invariant, action by action.                       *)
LEMMA BudgetStep == BudgetInv /\ [Next]_vars => BudgetInv'
<1> SUFFICES ASSUME BudgetInv, [Next]_vars PROVE BudgetInv'
  OBVIOUS
<1>1. CASE Next
  <2>1. ASSUME NEW w \in Workers,
               ChargeDiscovery(w) \/ CallFails(w) \/ RenewalFails(w) \/ CallReturns(w)
        PROVE  BudgetInv'
    BY <2>1, DiscoveryInv, FailsInv, CallReturnsInv
  <2>2. ASSUME NEW w \in Workers, NEW c \in Credentials, NEW x \in Chutes,
               \/ Claim(w, c, x) \/ EvidenceRefused(w, c, x)
               \/ RenewalRefused(w, c, x) \/ Served(w, c, x)
        PROVE  BudgetInv'
    BY <2>2, ClaimInv, EvidenceRefusedInv, RenewalRefusedInv, ServedInv
  <2>3. ASSUME NEW w \in Workers, NEW c \in Credentials, NEW x \in Chutes,
               RequestEvidence(w, c, x) \/ RenewalEvidence(w, c, x)
        PROVE  BudgetInv'
    <3>1. Charge(w, c, x, "admit") \/ Charge(w, c, x, "renew")
      BY <2>3 DEF RequestEvidence, RenewalEvidence
    <3> QED BY <3>1, ChargeInv
  <2> QED BY <1>1, <2>1, <2>2, <2>3, TickInv DEF Next
<1>2. CASE UNCHANGED vars
  BY <1>2 DEF vars, BudgetInv, TypeOK, Busy, Budgets, GateHeld, SingleFlight
<1> QED BY <1>1, <1>2

(***************************************************************************)
(* The invariant: each queue is what the calls of its credential leave, a  *)
(* budget not held is empty, callers at a gate refer to a held budget's.   *)
(***************************************************************************)
THEOREM Invariance == Spec => []BudgetInv
BY BudgetInit, BudgetStep, PTL DEF Spec

(* Every variable keeps its type.                                          *)
THEOREM TypesKept == Spec => []TypeOK
<1>1. BudgetInv => TypeOK
  BY DEF BudgetInv
<1> QED BY <1>1, Invariance, PTL

(* A credential never has two discoveries in flight, however often its     *)
(* budget is dropped and made again (Budget::idle, in_flight).             *)
THEOREM OneFlight == Spec => []SingleFlight
<1>1. BudgetInv => SingleFlight
  BY DEF BudgetInv
<1> QED BY <1>1, Invariance, PTL

(* No window holds more evidence calls of a credential than the limit      *)
(* (charge_evidence, Budget::prune).                                       *)
THEOREM RateHeld == Spec => []EvidenceRate
<1>1. BudgetInv => EvidenceRate
  <2> SUFFICES ASSUME BudgetInv, NEW c \in Credentials
               PROVE  Cardinality({k \in DOMAIN log[c] : log[c][k].at + Window > now})
                        <= EvidenceLimit
    BY DEF EvidenceRate
  <2>1. /\ budget[c].evidence \in Seq(Nat) /\ log[c] \in Calls /\ now \in Nat
        /\ QueueFit(budget[c].evidence, log[c], now)
    BY Kinds DEF BudgetInv, Budgets, BudgetFit, Budget
  <2> QED BY <2>1, TailRate
<1> QED BY <1>1, Invariance, PTL

(* No call is logged but by Charge, for the chute it is for.               *)
LEMMA LoggedByCharge ==
    ASSUME BudgetInv, [Next]_vars, NEW c \in Credentials, NEW x \in Chutes,
           log'[c] = Append(log[c], [at |-> now, chute |-> x])
    PROVE  quiet[c][x] <= now
<1> DEFINE call == [at |-> now, chute |-> x]
<1>1. log[c] \in Seq(Call) /\ call \in Call
  BY Kinds DEF Calls, Call
<1> HIDE DEF call
<1>2. log'[c] # log[c]
  <2>1. Len(Append(log[c], call)) = Len(log[c]) + 1 /\ Len(log[c]) \in Nat
    BY <1>1
  <2> QED BY <2>1 DEF call
<1>3. log' # log
  BY <1>2
<1>4. PICK w \in Workers, d \in Credentials, y \in Chutes :
        RequestEvidence(w, d, y) \/ RenewalEvidence(w, d, y)
  BY <1>3 DEF Next, vars, ChargeDiscovery, CallFails, RenewalFails, CallReturns, Claim,
             EvidenceRefused, RenewalRefused, Served, Tick
<1>5. Charge(w, d, y, "admit") \/ Charge(w, d, y, "renew")
  BY <1>4 DEF RequestEvidence, RenewalEvidence
<1>6. /\ quiet[d][y] <= now
      /\ log' = [log EXCEPT ![d] = Append(log[d], [at |-> now, chute |-> y])]
  BY <1>5, ChargeInv
<1>7. d = c
  BY <1>2, <1>6, Kinds
<1>8. y = x
  <2> DEFINE other == [at |-> now, chute |-> y]
  <2>1. other \in Call
    BY Kinds DEF Call
  <2>2. Append(log[c], call) = Append(log[c], other)
    BY <1>6, <1>7, Kinds DEF call
  <2> HIDE DEF other
  <2>3. /\ Append(log[c], call)[Len(log[c]) + 1] = call
        /\ Append(log[c], other)[Len(log[c]) + 1] = other
    BY <1>1, <2>1
  <2>4. call = other
    BY <2>2, <2>3
  <2> QED BY <2>4 DEF call, other
<1> QED BY <1>6, <1>7, <1>8

(* While the wait Chutes asked for lasts, no evidence call for the chute   *)
(* begins (Discoveries::failed, charge_evidence).                          *)
THEOREM QuietKept == Spec => QuietAfterRefusal
<1>1. BudgetInv /\ [Next]_vars
        => [\A c \in Credentials, x \in Chutes :
              log'[c] = Append(log[c], [at |-> now, chute |-> x]) => quiet[c][x] <= now]_vars
  BY LoggedByCharge
<1> QED BY <1>1, Invariance, PTL DEF Spec, QuietAfterRefusal

=============================================================================
