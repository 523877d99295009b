-------------------------- MODULE CliTokensProofs --------------------------
(* Proofs about CliTokens: the lock serialises the saves, no login is left *)
(* spent in the file, and what another registry issues is not stored.      *)
EXTENDS CliTokens, TLAPS

(* A process record has its fields and never returns into the lock.        *)
Shaped(r) ==
    /\ r = [pc |-> r.pc, override |-> r.override, network |-> r.network,
            entry |-> r.entry, attempt |-> r.attempt, follows |-> r.follows,
            edit |-> r.edit, image |-> r.image, then |-> r.then]
    /\ r.then # "locked"

(* A record outside the lock.                                              *)
Outside(r) == Shaped(r) /\ r.pc # "locked"

ProcShape ==
    /\ proc = [p \in Procs |-> proc[p]]
    /\ \A p \in Procs : Shaped(proc[p])

(***************************************************************************)
(* Whoever is about to rename holds the lock, and what it is about to write*)
(* is its own change to the file as it still is.                           *)
(***************************************************************************)
ImageCurrent ==
    \A p \in Procs : proc[p].pc = "locked" =>
        /\ lock = p
        /\ proc[p].image = Edited(disk, proc[p].edit)

SaveInv == ProcShape /\ ImageCurrent

(* A field of a process record is updated and the others stay.             *)
LEMMA PcUpdate ==
    ASSUME NEW r, Shaped(r), NEW x
    PROVE  LET u == [r EXCEPT !.pc = x]
           IN  Shaped(u) /\ u.pc = x /\ u.edit = r.edit /\ u.image = r.image
BY DEF Shaped

(* Every other field: the place of the process stays.                      *)
LEMMA FieldUpdate ==
    ASSUME NEW r, Shaped(r), NEW x
    PROVE  /\ Shaped([r EXCEPT !.override = x]) /\ [r EXCEPT !.override = x].pc = r.pc
           /\ Shaped([r EXCEPT !.network = x]) /\ [r EXCEPT !.network = x].pc = r.pc
           /\ Shaped([r EXCEPT !.entry = x]) /\ [r EXCEPT !.entry = x].pc = r.pc
           /\ Shaped([r EXCEPT !.attempt = x]) /\ [r EXCEPT !.attempt = x].pc = r.pc
           /\ Shaped([r EXCEPT !.follows = x]) /\ [r EXCEPT !.follows = x].pc = r.pc
           /\ Shaped([r EXCEPT !.edit = x]) /\ [r EXCEPT !.edit = x].pc = r.pc
           /\ Shaped([r EXCEPT !.image = x]) /\ [r EXCEPT !.image = x].pc = r.pc
           /\ x # "locked" =>
                 Shaped([r EXCEPT !.then = x]) /\ [r EXCEPT !.then = x].pc = r.pc
<1>1. Shaped([r EXCEPT !.override = x]) /\ [r EXCEPT !.override = x].pc = r.pc
  BY DEF Shaped
<1>2. Shaped([r EXCEPT !.network = x]) /\ [r EXCEPT !.network = x].pc = r.pc
  BY DEF Shaped
<1>3. Shaped([r EXCEPT !.entry = x]) /\ [r EXCEPT !.entry = x].pc = r.pc
  BY DEF Shaped
<1>4. Shaped([r EXCEPT !.attempt = x]) /\ [r EXCEPT !.attempt = x].pc = r.pc
  BY DEF Shaped
<1>5. Shaped([r EXCEPT !.follows = x]) /\ [r EXCEPT !.follows = x].pc = r.pc
  BY DEF Shaped
<1>6. Shaped([r EXCEPT !.edit = x]) /\ [r EXCEPT !.edit = x].pc = r.pc
  BY DEF Shaped
<1>7. Shaped([r EXCEPT !.image = x]) /\ [r EXCEPT !.image = x].pc = r.pc
  BY DEF Shaped
<1>8. x # "locked" =>
        Shaped([r EXCEPT !.then = x]) /\ [r EXCEPT !.then = x].pc = r.pc
  BY DEF Shaped
<1> QED BY <1>1, <1>2, <1>3, <1>4, <1>5, <1>6, <1>7, <1>8

(* The same of the two fields that taking the lock sets.                   *)
LEMMA LockUpdate ==
    ASSUME NEW r, Shaped(r), NEW x
    PROVE  LET u == [r EXCEPT !.pc = "locked", !.image = x]
           IN  Shaped(u) /\ u.edit = r.edit /\ u.image = x
<1> DEFINE v == [r EXCEPT !.pc = "locked"]
           u == [v EXCEPT !.image = x]
<1>1. Shaped(v) /\ v.edit = r.edit
  BY PcUpdate
<1> HIDE DEF v
<1>2. Shaped(u) /\ u.edit = v.edit /\ u.image = x
  BY <1>1 DEF Shaped
<1>3. u = [r EXCEPT !.pc = "locked", !.image = x]
  BY DEF v
<1> QED BY <1>1, <1>2, <1>3

(* The record of Idle is outside the lock.                                 *)
LEMMA IdleOutside == Outside(Idle)
BY DEF Outside, Shaped, Idle

(* A step of one process that ends outside the lock and leaves the file    *)
(* alone, keeping the lock or giving up its own.                           *)
LEMMA OutsideInv ==
    ASSUME SaveInv, NEW p \in Procs, NEW r, Outside(r), Set(p, r),
           disk' = disk, lock' = lock \/ Released(p)
    PROVE  SaveInv'
<1>1. \A q \in Procs : proc'[q] = IF q = p THEN r ELSE proc[q]
  BY DEF SaveInv, ProcShape, Set
<1>2. ProcShape'
  <2>1. proc' = [q \in Procs |-> proc'[q]]
    BY DEF SaveInv, ProcShape, Set
  <2>2. \A q \in Procs : Shaped(proc'[q])
    BY <1>1 DEF SaveInv, ProcShape, Outside
  <2> QED BY <2>1, <2>2 DEF ProcShape, Shaped
<1>3. ImageCurrent'
  <2> SUFFICES ASSUME NEW q \in Procs, proc'[q].pc = "locked"
               PROVE  lock' = q /\ proc'[q].image = Edited(disk', proc'[q].edit)
    BY DEF ImageCurrent, Edited
  <2>1. q # p /\ proc'[q] = proc[q]
    BY <1>1 DEF Outside
  <2>2. lock = q /\ proc[q].image = Edited(disk, proc[q].edit)
    BY <2>1 DEF SaveInv, ImageCurrent
  <2>3. lock' = q
    BY <2>1, <2>2 DEF Released
  <2> QED BY <2>1, <2>2, <2>3
<1> QED BY <1>2, <1>3 DEF SaveInv

(* Taking the lock, with the file as it is loaded under it.                *)
LEMMA LockInv ==
    ASSUME SaveInv, NEW p \in Procs, Lock(p), LockFree
    PROVE  SaveInv'
<1> DEFINE r == [proc[p] EXCEPT !.pc = "locked", !.image = Edited(disk, proc[p].edit)]
<1>1. Set(p, r) /\ lock' = p /\ disk' = disk
  BY DEF Lock
<1>2. Shaped(r) /\ r.image = Edited(disk, proc[p].edit) /\ r.edit = proc[p].edit
  <2>1. Shaped(proc[p])
    BY DEF SaveInv, ProcShape
  <2> QED BY <2>1, LockUpdate
<1> HIDE DEF r
<1>3. \A q \in Procs : proc'[q] = IF q = p THEN r ELSE proc[q]
  BY <1>1 DEF SaveInv, ProcShape, Set
<1>4. ProcShape'
  <2>1. proc' = [q \in Procs |-> proc'[q]]
    BY <1>1 DEF SaveInv, ProcShape, Set
  <2>2. \A q \in Procs : Shaped(proc'[q])
    BY <1>2, <1>3 DEF SaveInv, ProcShape
  <2> QED BY <2>1, <2>2 DEF ProcShape, Shaped
<1>5. ImageCurrent'
  <2> SUFFICES ASSUME NEW q \in Procs, proc'[q].pc = "locked"
               PROVE  lock' = q /\ proc'[q].image = Edited(disk', proc'[q].edit)
    BY DEF ImageCurrent, Edited
  <2>1. CASE q = p
    BY <2>1, <1>1, <1>2, <1>3
  <2>2. CASE q # p
    <3>1. proc[q].pc = "locked"
      BY <2>2, <1>3
    <3>2. lock = q
      BY <3>1 DEF SaveInv, ImageCurrent
    <3> QED BY <3>2, CliAssumption DEF LockFree
  <2> QED BY <2>1, <2>2
<1> QED BY <1>4, <1>5 DEF SaveInv

(* Another attempt.                                                        *)
LEMMA RetryOutside ==
    ASSUME NEW r, Shaped(r), NEW x
    PROVE  Outside([r EXCEPT !.pc = "check", !.attempt = x])
<1> DEFINE u1 == [r EXCEPT !.pc = "check"]
           u2 == [u1 EXCEPT !.attempt = x]
<1>1. Shaped(u1) /\ u1.pc = "check"
  BY PcUpdate
<1> HIDE DEF u1
<1>2. Shaped(u2) /\ u2.pc = "check"
  BY <1>1, FieldUpdate
<1> HIDE DEF u2
<1>3. u2 = [r EXCEPT !.pc = "check", !.attempt = x]
  BY DEF u1, u2
<1> QED BY <1>2, <1>3 DEF Outside, Shaped

(* A place with a network.                                                 *)
LEMMA WorkOutside ==
    ASSUME NEW r, Shaped(r), NEW c, c # "locked", NEW n
    PROVE  Outside([r EXCEPT !.pc = c, !.network = n])
<1> DEFINE u1 == [r EXCEPT !.pc = c]
           u2 == [u1 EXCEPT !.network = n]
<1>1. Shaped(u1) /\ u1.pc = c
  BY PcUpdate
<1> HIDE DEF u1
<1>2. Shaped(u2) /\ u2.pc = c
  BY <1>1, FieldUpdate
<1> HIDE DEF u2
<1>3. u2 = [r EXCEPT !.pc = c, !.network = n]
  BY DEF u1, u2
<1> QED BY <1>2, <1>3 DEF Outside, Shaped

(* On the way to a save.                                                   *)
LEMMA SaveOutside ==
    ASSUME NEW r, Shaped(r), NEW t, t # "locked", NEW e
    PROVE  Outside([r EXCEPT !.pc = "save", !.then = t, !.edit = e])
<1> DEFINE u1 == [r EXCEPT !.pc = "save"]
           u2 == [u1 EXCEPT !.then = t]
           u3 == [u2 EXCEPT !.edit = e]
<1>1. Shaped(u1) /\ u1.pc = "save"
  BY PcUpdate
<1> HIDE DEF u1
<1>2. Shaped(u2) /\ u2.pc = "save"
  BY <1>1, FieldUpdate
<1> HIDE DEF u2
<1>3. Shaped(u3) /\ u3.pc = "save"
  BY <1>2, FieldUpdate
<1> HIDE DEF u3
<1>4. u3 = [r EXCEPT !.pc = "save", !.then = t, !.edit = e]
  BY DEF u1, u2, u3
<1> QED BY <1>3, <1>4 DEF Outside, Shaped

(* A token obtained.                                                       *)
LEMMA RunShaped ==
    ASSUME NEW r, Shaped(r), NEW x, NEW f
    PROVE  Shaped([r EXCEPT !.entry = x, !.follows = f])
<1> DEFINE u1 == [r EXCEPT !.entry = x]
           u2 == [u1 EXCEPT !.follows = f]
<1>1. Shaped(u1)
  BY FieldUpdate
<1> HIDE DEF u1
<1>2. Shaped(u2)
  BY <1>1, FieldUpdate
<1> HIDE DEF u2
<1>3. u2 = [r EXCEPT !.entry = x, !.follows = f]
  BY DEF u1, u2
<1> QED BY <1>2, <1>3

(* A save done.                                                            *)
LEMMA SavedOutside ==
    ASSUME NEW r, Shaped(r), NEW x, NEW y
    PROVE  Outside([r EXCEPT !.pc = r.then, !.edit = x, !.image = y])
<1> DEFINE u1 == [r EXCEPT !.pc = r.then]
           u2 == [u1 EXCEPT !.edit = x]
           u3 == [u2 EXCEPT !.image = y]
<1>1. Shaped(u1) /\ u1.pc = r.then
  BY PcUpdate
<1> HIDE DEF u1
<1>2. Shaped(u2) /\ u2.pc = r.then
  BY <1>1, FieldUpdate
<1> HIDE DEF u2
<1>3. Shaped(u3) /\ u3.pc = r.then
  BY <1>2, FieldUpdate
<1> HIDE DEF u3
<1>4. u3 = [r EXCEPT !.pc = r.then, !.edit = x, !.image = y]
  BY DEF u1, u2, u3
<1> QED BY <1>3, <1>4 DEF Outside, Shaped

(* A command begun.                                                        *)
LEMMA StartOutside ==
    ASSUME NEW r, Shaped(r), NEW o, NEW n, NEW x
    PROVE  Outside([r EXCEPT !.pc = "check", !.override = o, !.network = n, !.entry = x])
<1> DEFINE u1 == [r EXCEPT !.pc = "check"]
           u2 == [u1 EXCEPT !.override = o]
           u3 == [u2 EXCEPT !.network = n]
           u4 == [u3 EXCEPT !.entry = x]
<1>1. Shaped(u1) /\ u1.pc = "check"
  BY PcUpdate
<1> HIDE DEF u1
<1>2. Shaped(u2) /\ u2.pc = "check"
  BY <1>1, FieldUpdate
<1> HIDE DEF u2
<1>3. Shaped(u3) /\ u3.pc = "check"
  BY <1>2, FieldUpdate
<1> HIDE DEF u3
<1>4. Shaped(u4) /\ u4.pc = "check"
  BY <1>3, FieldUpdate
<1> HIDE DEF u4
<1>5. u4 = [r EXCEPT !.pc = "check", !.override = o, !.network = n, !.entry = x]
  BY DEF u1, u2, u3, u4
<1> QED BY <1>4, <1>5 DEF Outside, Shaped

(***************************************************************************)
(* Every step of a process but Lock and Save ends outside the lock.        *)
(***************************************************************************)
LEMMA StepInv ==
    ASSUME SaveInv, NEW p \in Procs,
           \/ Start(p) \/ Check(p) \/ AskFails(p) \/ Granted(p) \/ AnswerLost(p)
           \/ Rejected(p) \/ DeviceLogin(p) \/ DeviceFails(p) \/ After(p)
           \/ Work(p) \/ Done(p) \/ Login(p) \/ LoggedIn(p)
           \/ SaveFails(p) \/ Crash(p)
    PROVE  SaveInv'
<1>0. Shaped(proc[p])
  BY DEF SaveInv, ProcShape
<1>p. ASSUME Proceeds(p) PROVE \E r : Outside(r) /\ Set(p, r)
  BY <1>p, IdleOutside, WorkOutside DEF Proceeds, Outside
<1>s. ASSUME NEW x, NEW f, Persists(p, x, f) PROVE \E r : Outside(r) /\ Set(p, r)
  <2> DEFINE r == [proc[p] EXCEPT !.entry = x, !.follows = f]
             e == [NoEdit EXCEPT !.network = proc[p].network, !.entry = x]
             d == [e EXCEPT !.kind = IF proc[p].override THEN "rotated" ELSE "tokens"]
  <2>1. Shaped(r)
    BY <1>0, RunShaped
  <2>2. \/ Set(p, [r EXCEPT !.pc = "after"])
        \/ Set(p, [r EXCEPT !.pc = "save", !.then = "after", !.edit = d])
    BY <1>s DEF Persists
  <2> HIDE DEF r, d
  <2>3. Outside([r EXCEPT !.pc = "after"])
    BY <2>1, PcUpdate DEF Outside
  <2>4. Outside([r EXCEPT !.pc = "save", !.then = "after", !.edit = d])
    BY <2>1, SaveOutside
  <2> QED BY <2>2, <2>3, <2>4
<1>1. \E r : Outside(r) /\ Set(p, r)
  <2>1. CASE Start(p)
    <3>1. PICK override \in BOOLEAN, explicit \in Maybe(Networks) :
            LET n == IF explicit = None THEN disk.active ELSE explicit
                r == [Idle EXCEPT !.pc = "check", !.override = override, !.network = n,
                                  !.entry = disk.tokens[n]]
            IN  Set(p, IF n = disk.active THEN r
                       ELSE [r EXCEPT !.pc = "save", !.then = "check",
                               !.edit = [NoEdit EXCEPT !.kind = "network", !.network = n]])
      BY <2>1 DEF Start
    <3> DEFINE n == IF explicit = None THEN disk.active ELSE explicit
               r == [Idle EXCEPT !.pc = "check", !.override = override, !.network = n,
                                 !.entry = disk.tokens[n]]
               e == [NoEdit EXCEPT !.kind = "network", !.network = n]
    <3>2. Outside(r)
      BY IdleOutside, StartOutside DEF Outside
    <3>3. \/ Set(p, r)
          \/ Set(p, [r EXCEPT !.pc = "save", !.then = "check", !.edit = e])
      BY <3>1
    <3> HIDE DEF r, e
    <3>4. Outside([r EXCEPT !.pc = "save", !.then = "check", !.edit = e])
      BY <3>2, SaveOutside DEF Outside
    <3> QED BY <3>2, <3>3, <3>4
  <2>2. CASE Check(p)
    <3>1. Outside([proc[p] EXCEPT !.pc = "ask"])
      BY <1>0, PcUpdate DEF Outside
    <3>2. Set(p, [proc[p] EXCEPT !.pc = "ask"]) \/ Proceeds(p)
      BY <2>2 DEF Check
    <3> QED BY <3>1, <3>2, <1>p
  <2>3. CASE AskFails(p) \/ AnswerLost(p) \/ DeviceFails(p) \/ Done(p) \/ SaveFails(p) \/ Crash(p)
    BY <2>3, IdleOutside DEF AskFails, AnswerLost, DeviceFails, Done, SaveFails, Crash
  <2>4. CASE Granted(p) \/ DeviceLogin(p)
    BY <2>4, <1>s DEF Granted, DeviceLogin
  <2>5. CASE Rejected(p)
    <3>1. Outside([proc[p] EXCEPT !.pc = "device"])
      BY <1>0, PcUpdate DEF Outside
    <3>2. Set(p, [proc[p] EXCEPT !.pc = "device"]) \/ Set(p, Idle)
      BY <2>5 DEF Rejected
    <3> QED BY <3>1, <3>2, IdleOutside
  <2>6. CASE After(p)
    BY <2>6, <1>0, <1>p, RetryOutside, IdleOutside DEF After
  <2>7. CASE Work(p)
    BY <2>7, <1>0, SaveOutside DEF Work
  <2>8. CASE Login(p)
    BY <2>8, IdleOutside, WorkOutside DEF Login, Outside
  <2>9. CASE LoggedIn(p)
    BY <2>9, <1>0, SaveOutside DEF LoggedIn
  <2> QED BY <2>1, <2>2, <2>3, <2>4, <2>5, <2>6, <2>7, <2>8, <2>9
<1>2. disk' = disk /\ (lock' = lock \/ Released(p))
  BY DEF Start, Check, AskFails, Granted, AnswerLost, Rejected, DeviceLogin, DeviceFails,
         After, Work, Done, Login, LoggedIn, SaveFails, Crash
<1> QED BY <1>1, <1>2, OutsideInv

(***************************************************************************)
(* A save: the process that renames is alone in the lock, writes its own   *)
(* change to the file as it is, and leaves nobody with an older image.     *)
(***************************************************************************)
LEMMA SaveStep ==
    ASSUME SaveInv, NEW p \in Procs, Save(p)
    PROVE  SaveInv' /\ disk' = Edited(disk, proc[p].edit)
<1> DEFINE r == [proc[p] EXCEPT !.pc = proc[p].then, !.edit = NoEdit, !.image = None]
<1>1. Set(p, r) /\ disk' = proc[p].image /\ proc[p].pc = "locked"
  BY DEF Save
<1>2. Outside(r)
  BY SavedOutside DEF SaveInv, ProcShape
<1> HIDE DEF r
<1>3. lock = p /\ proc[p].image = Edited(disk, proc[p].edit)
  BY <1>1 DEF SaveInv, ImageCurrent
<1>4. \A q \in Procs : proc'[q] = IF q = p THEN r ELSE proc[q]
  BY <1>1 DEF SaveInv, ProcShape, Set
<1>5. ProcShape'
  <2>1. proc' = [q \in Procs |-> proc'[q]]
    BY <1>1 DEF SaveInv, ProcShape, Set
  <2>2. \A q \in Procs : Shaped(proc'[q])
    BY <1>2, <1>4 DEF SaveInv, ProcShape, Outside
  <2> QED BY <2>1, <2>2 DEF ProcShape, Shaped
<1>6. \A q \in Procs : proc'[q].pc # "locked"
  BY <1>2, <1>3, <1>4 DEF SaveInv, ImageCurrent, Outside
<1>7. ImageCurrent'
  BY <1>6 DEF ImageCurrent
<1> QED BY <1>1, <1>3, <1>5, <1>7 DEF SaveInv

(* The initial states have nobody in the lock.                             *)
LEMMA SaveInit == Init => SaveInv
<1> SUFFICES ASSUME Init PROVE SaveInv
  OBVIOUS
<1>1. proc = [p \in Procs |-> Idle]
  BY DEF Init
<1>2. \A p \in Procs : proc[p] = Idle
  BY <1>1
<1> QED BY <1>1, <1>2, IdleOutside DEF SaveInv, ProcShape, ImageCurrent, Outside

(* One step, by its action.                                                *)
LEMMA SaveNext ==
    ASSUME SaveInv, [Next]_vars
    PROVE  SaveInv' /\ (disk' # disk => \E p \in Procs : /\ proc[p].pc = "locked"
                                                          /\ disk' = Edited(disk, proc[p].edit))
<1>1. CASE \E p \in Procs :
             \/ Start(p) \/ Check(p) \/ AskFails(p) \/ Granted(p) \/ AnswerLost(p)
             \/ Rejected(p) \/ DeviceLogin(p) \/ DeviceFails(p) \/ After(p)
             \/ Work(p) \/ Done(p) \/ Login(p) \/ LoggedIn(p)
             \/ SaveFails(p) \/ Crash(p)
  <2>1. SaveInv'
    BY <1>1, StepInv
  <2>2. disk' = disk
    BY <1>1 DEF Start, Check, AskFails, Granted, AnswerLost, Rejected, DeviceLogin,
                DeviceFails, After, Work, Done, Login, LoggedIn, SaveFails, Crash
  <2> QED BY <2>1, <2>2
<1>2. CASE \E p \in Procs : Lock(p)
  <2>1. PICK p \in Procs : Lock(p)
    BY <1>2
  <2>2. LockFree /\ disk' = disk
    BY <2>1 DEF Lock
  <2> QED BY <2>1, <2>2, LockInv
<1>3. CASE \E p \in Procs : Save(p)
  <2>1. PICK p \in Procs : Save(p)
    BY <1>3
  <2>2. proc[p].pc = "locked"
    BY <2>1 DEF Save
  <2> QED BY <2>1, <2>2, SaveStep
<1>4. CASE Age \/ UNCHANGED vars
  <2>1. proc' = proc /\ lock' = lock /\ disk' = disk
    BY <1>4 DEF Age, vars
  <2> QED BY <2>1 DEF SaveInv, ProcShape, ImageCurrent, Shaped, Edited
<1> QED BY <1>1, <1>2, <1>3, <1>4 DEF Next

(***************************************************************************)
(* However many processes, networks and workers there are: a save applies  *)
(* its own command's change to the file as it is at that moment, never to  *)
(* a copy that another save has overtaken (with_config_lock, the reload).  *)
(***************************************************************************)
THEOREM SavesSerial == Spec => SavesOnlyItsOwn
<1>1. SaveInv /\ [Next]_vars =>
        [disk' # disk => \E p \in Procs : /\ proc[p].pc = "locked"
                                          /\ disk' = Edited(disk, proc[p].edit)]_vars
  BY SaveNext
<1>2. SaveInv /\ [Next]_vars => SaveInv'
  BY SaveNext
<1> QED BY <1>1, <1>2, SaveInit, PTL DEF Spec, SavesOnlyItsOwn

-----------------------------------------------------------------------------
(* The stored login                                                        *)

(* An entry of token pairs the gateway has issued.                         *)
Known(e, T) == e \in [access : DOMAIN T, refresh : DOMAIN T]

Stored(D, n) == D.tokens[n] # None

(* Its refresh token descends from a login at the network's own registry;  *)
(* its access token was issued for it.                                     *)
HomeChain(e, T) == T[e.refresh].chain = "home"
HomeAccess(e, T) == T[e.access].at = "home"

(* The run's refresh token is of the stored login's chain, or will be its. *)
Own(r) == r.follows \/ ~r.override

Obtained == {"tokens", "rotated", "login"}

(* What a process is about to write, with the pairs of T issued, to D.     *)
EditFit(r, T, D) ==
    LET e == r.edit IN
    /\ e.kind # "none" /\ e.network = r.network
    /\ e.kind \in Obtained => Known(e.entry, T) /\ HomeChain(e.entry, T)
    /\ e.kind \in {"tokens", "login"} => HomeAccess(e.entry, T)
    /\ e.kind \in {"tokens", "rotated"} => r.entry = e.entry /\ Own(r)
    /\ e.kind = "login" => r.entry = None
    /\ e.kind = "rotated" => Stored(D, e.network)
    /\ e.kind \in {"worker", "remove"} => e.worker \in Workers

(* What holds of a process record.                                         *)
RunFit(r, T, D) ==
    /\ r \in Process
    /\ r.pc # "idle" => r.network \in Networks
    /\ r.pc = "ask" => r.entry # None
    /\ r.pc = "login" => r.entry = None /\ ~r.override
    /\ r.entry # None =>
          /\ r.network \in Networks /\ Known(r.entry, T)
          /\ r.follows => Stored(D, r.network)
          /\ ~r.override => HomeAccess(r.entry, T)
          /\ Own(r) => HomeChain(r.entry, T)
    /\ r.pc \in {"save", "locked"} => EditFit(r, T, D)

DiskFit(T, D) ==
    /\ D \in Config
    /\ \A n \in Networks : Stored(D, n) =>
          Known(D.tokens[n], T) /\ HomeChain(D.tokens[n], T) /\ HomeAccess(D.tokens[n], T)

TokensFit ==
    /\ tokens \in Seq(Pair) /\ Len(tokens) <= MaxTokens
    /\ live \subseteq DOMAIN tokens /\ fresh \subseteq DOMAIN tokens

Fits ==
    /\ TokensFit
    /\ lost \subseteq Networks
    /\ DiskFit(tokens, disk)
    /\ proc \in [Procs -> Process]
    /\ \A p \in Procs : RunFit(proc[p], tokens, disk)

(* Tokens the process has obtained and the file has not.                   *)
Pending(r) == r.pc \in {"save", "locked"} /\ r.edit.kind \in Obtained
Grant(r) == r.edit.entry.refresh

(* No network has another one's refresh token.                             *)
DiskApart(D) ==
    \A n, m \in Networks : n # m /\ Stored(D, n) /\ Stored(D, m) =>
        D.tokens[n].refresh # D.tokens[m].refresh

(* Who uses a network's refresh token will store what it gets for it.      *)
UserFit(r, D) ==
    \A n \in Networks : r.entry # None /\ Stored(D, n)
                        /\ r.entry.refresh = D.tokens[n].refresh =>
        r.network = n /\ Own(r)

(* What p of the processes P is yet to store is live, L being the live     *)
(* tokens, and known to nobody else.                                       *)
PendingFit(p, P, L, D) ==
    Pending(P[p]) =>
        /\ Grant(P[p]) \in L
        /\ \A n \in Networks : Stored(D, n) => D.tokens[n].refresh # Grant(P[p])
        /\ \A q \in Procs \ {p} :
              /\ Pending(P[q]) => Grant(P[q]) # Grant(P[p])
              /\ P[q].entry # None => P[q].entry.refresh # Grant(P[p])

Private(P, L, D) ==
    /\ DiskApart(D)
    /\ \A p \in Procs : UserFit(P[p], D)
    /\ \A p \in Procs : PendingFit(p, P, L, D)

(* Every refresh token in use is live.                                     *)
AllLive(P, L, D) ==
    /\ \A n \in Networks : Stored(D, n) => D.tokens[n].refresh \in L
    /\ \A p \in Procs : P[p].entry # None => P[p].entry.refresh \in L
    /\ \A p \in Procs : Pending(P[p]) => Grant(P[p]) \in L

(***************************************************************************)
(* A gateway that rotates spends a token with its first use, so that the   *)
(* chain must not be forked; one that does not spends none.                *)
(***************************************************************************)
Spending(P, L, D) ==
    /\ Rotates => Private(P, L, D)
    /\ ~Rotates => AllLive(P, L, D)

TokenInv == SaveInv /\ Fits /\ Spending(proc, live, disk) /\ StoredTokenLive

(* Some of the process records.                                            *)
LEMMA NoEditTyped == NoEdit \in Edit /\ NoEdit.kind = "none"
BY DEF NoEdit, Edit, Maybe

(* Another attempt, within the bound.                                      *)
LEMMA RetryForm ==
    ASSUME NEW r \in Process, r.attempt + 1 < MaxAttempts
    PROVE  LET u == [r EXCEPT !.pc = "check", !.attempt = @ + 1]
           IN  /\ u \in Process /\ u.pc = "check" /\ u.override = r.override
               /\ u.network = r.network /\ u.entry = r.entry /\ u.follows = r.follows
<1>1. r.attempt + 1 \in 0 .. MaxAttempts - 1
  BY DEF Process, MaxAttempts
<1> DEFINE x == r.attempt + 1
<1>2. [r EXCEPT !.pc = "check", !.attempt = @ + 1] = [r EXCEPT !.pc = "check", !.attempt = x]
  BY Zenon
<1> HIDE DEF x
<1>3. LET u == [r EXCEPT !.pc = "check", !.attempt = x]
      IN  /\ u \in Process /\ u.pc = "check" /\ u.override = r.override
          /\ u.network = r.network /\ u.entry = r.entry /\ u.follows = r.follows
  BY <1>1 DEF Process, x
<1> QED BY <1>2, <1>3

(* A process that runs no command.                                         *)
LEMMA IdleForm ==
    Idle \in Process /\ Idle.pc = "idle" /\ Idle.entry = None /\ ~Idle.override /\ Idle.follows
BY NoEditTyped DEF Idle, Process, Maybe, MaxAttempts

-----------------------------------------------------------------------------
(* What a save changes                                                     *)

(* An entry of issued pairs is an entry of the bounded type.               *)
LEMMA EntryKnown ==
    ASSUME NEW T \in Seq(Pair), Len(T) <= MaxTokens, NEW e, Known(e, T)
    PROVE  e \in Entry /\ e # None
<1>1. DOMAIN T \subseteq 1 .. MaxTokens /\ DOMAIN T \subseteq Nat
  BY CliAssumption
<1>2. e \in Entry
  BY <1>1 DEF Known, Entry
<1>3. e \in [access : Nat, refresh : Nat]
  BY <1>1 DEF Known
<1> QED BY <1>2, <1>3, CliAssumption

(* A process keeps what holds of it while pairs are issued and the file    *)
(* loses no entry.                                                         *)
LEMMA RunKept ==
    ASSUME NEW T, NEW U, NEW D, NEW E, NEW r, RunFit(r, T, D),
           DOMAIN T \subseteq DOMAIN U, \A i \in DOMAIN T : U[i] = T[i],
           \A n \in Networks : Stored(D, n) => Stored(E, n)
    PROVE  RunFit(r, U, E)
<1>1. ASSUME NEW e, Known(e, T)
      PROVE  /\ Known(e, U)
             /\ HomeChain(e, T) => HomeChain(e, U)
             /\ HomeAccess(e, T) => HomeAccess(e, U)
  <2>1. e.access \in DOMAIN T /\ e.refresh \in DOMAIN T
    BY <1>1 DEF Known
  <2>2. Known(e, U)
    BY <1>1 DEF Known
  <2> QED BY <2>1, <2>2 DEF HomeChain, HomeAccess
<1>2. r.pc \in {"save", "locked"} => EditFit(r, U, E)
  <2> SUFFICES ASSUME r.pc \in {"save", "locked"}
               PROVE  EditFit(r, U, E)
    OBVIOUS
  <2>1. EditFit(r, T, D) /\ r.network \in Networks
    BY DEF RunFit
  <2> QED BY <2>1, <1>1 DEF EditFit, Obtained
<1>3. r.entry # None =>
          /\ r.network \in Networks /\ Known(r.entry, U)
          /\ r.follows => Stored(E, r.network)
          /\ ~r.override => HomeAccess(r.entry, U)
          /\ Own(r) => HomeChain(r.entry, U)
  BY <1>1 DEF RunFit
<1> QED BY <1>2, <1>3 DEF RunFit

(* So does the file.                                                       *)
LEMMA DiskKept ==
    ASSUME NEW T, NEW U, NEW D, DiskFit(T, D),
           DOMAIN T \subseteq DOMAIN U, \A i \in DOMAIN T : U[i] = T[i]
    PROVE  DiskFit(U, D)
<1> SUFFICES ASSUME NEW n \in Networks, Stored(D, n)
             PROVE  /\ Known(D.tokens[n], U) /\ HomeChain(D.tokens[n], U)
                    /\ HomeAccess(D.tokens[n], U)
  BY DEF DiskFit
<1> DEFINE e == D.tokens[n]
<1>1. Known(e, T) /\ HomeChain(e, T) /\ HomeAccess(e, T)
  BY DEF DiskFit
<1>2. e.access \in DOMAIN T /\ e.refresh \in DOMAIN T
  BY <1>1 DEF Known
<1>3. Known(e, U)
  BY <1>1 DEF Known
<1> QED BY <1>1, <1>2, <1>3 DEF HomeChain, HomeAccess

(* Setting an entry, or its refresh token, in a configuration.             *)
LEMMA EntrySet ==
    ASSUME NEW d \in Config, NEW n \in Networks, NEW x \in Entry
    PROVE  LET u == [d EXCEPT !.tokens[n] = x]
           IN  /\ u \in Config /\ u.tokens[n] = x
               /\ \A m \in Networks \ {n} : u.tokens[m] = d.tokens[m]
BY DEF Config, Maybe

(* The selection alone.                                                    *)
LEMMA ActiveSet ==
    ASSUME NEW d \in Config, NEW n \in Networks
    PROVE  LET u == [d EXCEPT !.active = n]
           IN  u \in Config /\ u.tokens = d.tokens
BY DEF Config

(* The refresh token alone.                                                *)
LEMMA RefreshSet ==
    ASSUME NEW d \in Config, NEW n \in Networks, d.tokens[n] \in Entry, NEW x \in 1 .. MaxTokens
    PROVE  LET u == [d EXCEPT !.tokens[n].refresh = x]
           IN  /\ u \in Config /\ u.tokens[n] \in Entry
               /\ u.tokens[n].refresh = x /\ u.tokens[n].access = d.tokens[n].access
               /\ \A m \in Networks \ {n} : u.tokens[m] = d.tokens[m]
BY DEF Config, Maybe, Entry

(* The workers of a network.                                               *)
LEMMA WorkersSet ==
    ASSUME NEW d \in Config, NEW n \in Networks, NEW W \in SUBSET Workers
    PROVE  LET u == [d EXCEPT !.workers[n] = W, !.active = n]
           IN  u \in Config /\ u.tokens = d.tokens
BY DEF Config

(* What an edit leaves of the tokens.                                      *)
LEMMA EditedTokens ==
    ASSUME NEW T \in Seq(Pair), Len(T) <= MaxTokens, NEW D, DiskFit(T, D),
           NEW r, RunFit(r, T, D), r.pc \in {"save", "locked"}
    PROVE  LET E == Edited(D, r.edit)
               n == r.network
           IN  /\ DiskFit(T, E)
               /\ \A m \in Networks : Stored(D, m) => Stored(E, m)
               /\ ~Pending(r) => E.tokens = D.tokens
               /\ Pending(r) => /\ E.tokens[n].refresh = Grant(r)
                                /\ \A m \in Networks \ {n} : E.tokens[m] = D.tokens[m]
<1> DEFINE e == r.edit
           n == r.network
           E == Edited(D, r.edit)
<1>1. /\ n \in Networks /\ e.network = n /\ EditFit(r, T, D) /\ D \in Config /\ e \in Edit
  BY DEF RunFit, EditFit, DiskFit, Process
<1>2. CASE e.kind = "network"
  <2>1. E = [D EXCEPT !.active = n]
    BY <1>1, <1>2 DEF Edited
  <2>2. E \in Config /\ E.tokens = D.tokens
    BY <1>1, <2>1, ActiveSet
  <2> QED BY <2>2, <1>2 DEF DiskFit, Stored, Pending, Obtained
<1>3. CASE e.kind \in {"worker", "remove"}
  <2>1. \E W \in SUBSET Workers : E = [D EXCEPT !.workers[n] = W, !.active = n]
    <3>1. D.workers[n] \in SUBSET Workers
      BY <1>1 DEF Config
    <3>2. e.worker \in Workers
      BY <1>1, <1>3 DEF EditFit
    <3>3. CASE e.kind = "worker"
      <4>1. E = [D EXCEPT !.workers[n] = @ \cup {e.worker}, !.active = n]
        BY <1>1, <3>3 DEF Edited
      <4>2. E = [D EXCEPT !.workers[n] = D.workers[n] \cup {e.worker}, !.active = n]
        BY <4>1, Zenon
      <4> QED BY <3>1, <3>2, <4>2
    <3>4. CASE e.kind = "remove"
      <4>1. E = [D EXCEPT !.workers[n] = @ \ {e.worker}, !.active = n]
        BY <1>1, <3>4 DEF Edited
      <4>2. E = [D EXCEPT !.workers[n] = D.workers[n] \ {e.worker}, !.active = n]
        BY <4>1, Zenon
      <4> QED BY <3>1, <4>2
    <3> QED BY <1>3, <3>3, <3>4
  <2>2. E \in Config /\ E.tokens = D.tokens
    <3>1. PICK W \in SUBSET Workers : E = [D EXCEPT !.workers[n] = W, !.active = n]
      BY <2>1
    <3> DEFINE u == [D EXCEPT !.workers[n] = W, !.active = n]
    <3>2. u \in Config /\ u.tokens = D.tokens
      BY <1>1, WorkersSet
    <3> QED BY <3>1, <3>2
  <2> QED BY <2>2, <1>3 DEF DiskFit, Stored, Pending, Obtained
<1>4. CASE e.kind \in {"tokens", "login"}
  <2> DEFINE x == e.entry
  <2>1. Known(x, T) /\ HomeChain(x, T) /\ HomeAccess(x, T)
    BY <1>1, <1>4 DEF EditFit, Obtained
  <2>2. x \in Entry /\ x # None
    BY <2>1, EntryKnown
  <2>3. /\ E \in Config /\ E.tokens[n] = x
        /\ \A m \in Networks \ {n} : E.tokens[m] = D.tokens[m]
    <3> DEFINE u == [D EXCEPT !.tokens[n] = x]
    <3>1. /\ u \in Config /\ u.tokens[n] = x
          /\ \A m \in Networks \ {n} : u.tokens[m] = D.tokens[m]
      BY <1>1, <2>2, EntrySet
    <3>2. CASE e.kind = "tokens"
      <4>1. E = u
        BY <1>1, <3>2 DEF Edited
      <4> QED BY <3>1, <4>1
    <3>3. CASE e.kind = "login"
      <4>1. E = [u EXCEPT !.active = n]
        BY <1>1, <3>3 DEF Edited
      <4> HIDE DEF u
      <4>2. E \in Config /\ E.tokens = u.tokens
        BY <1>1, <3>1, <4>1, ActiveSet
      <4> QED BY <3>1, <4>2
    <3> QED BY <1>4, <3>2, <3>3
  <2> HIDE DEF x, E
  <2>4. DiskFit(T, E)
    BY <2>1, <2>3, <1>1 DEF DiskFit, Stored
  <2>5. \A m \in Networks : Stored(D, m) => Stored(E, m)
    BY <2>2, <2>3 DEF Stored
  <2>6. Pending(r) /\ x.refresh = Grant(r)
    BY <1>4 DEF Pending, Obtained, Grant, x
  <2> QED BY <2>3, <2>4, <2>5, <2>6 DEF E
<1>5. CASE e.kind = "rotated"
  <2> DEFINE x == e.entry.refresh
  <2>1. Known(e.entry, T) /\ HomeChain(e.entry, T) /\ Stored(D, n)
    BY <1>1, <1>5 DEF EditFit, Obtained
  <2>2. e.entry \in Entry /\ x \in 1 .. MaxTokens /\ x \in DOMAIN T
    BY <2>1, EntryKnown DEF Entry, Known
  <2>3. /\ Known(D.tokens[n], T) /\ HomeAccess(D.tokens[n], T)
    BY <1>1, <2>1 DEF DiskFit
  <2>4. D.tokens[n] \in Entry
    BY <2>3, EntryKnown
  <2>5. E = [D EXCEPT !.tokens[n].refresh = x]
    BY <1>1, <1>5 DEF Edited
  <2> HIDE DEF x, E
  <2>6. /\ E \in Config /\ E.tokens[n] \in Entry
        /\ E.tokens[n].refresh = x /\ E.tokens[n].access = D.tokens[n].access
        /\ \A m \in Networks \ {n} : E.tokens[m] = D.tokens[m]
    BY <1>1, <2>2, <2>4, <2>5, RefreshSet
  <2>7. Known(E.tokens[n], T) /\ HomeChain(E.tokens[n], T) /\ HomeAccess(E.tokens[n], T)
    <3>1. Known(E.tokens[n], T)
      <4>1. D.tokens[n].access \in DOMAIN T
        BY <2>3 DEF Known
      <4> QED BY <2>2, <2>6, <4>1 DEF Known, Entry
    <3> QED BY <2>1, <2>3, <2>6, <3>1 DEF HomeChain, HomeAccess, x
  <2>8. DiskFit(T, E)
    BY <2>6, <2>7, <1>1 DEF DiskFit, Stored
  <2>9. Stored(E, n)
    BY <2>7, EntryKnown DEF Stored
  <2>10. \A m \in Networks : Stored(D, m) => Stored(E, m)
    BY <2>6, <2>9 DEF Stored
  <2>11. Pending(r) /\ x = Grant(r)
    BY <1>5 DEF Pending, Obtained, Grant, x
  <2> QED BY <2>6, <2>8, <2>10, <2>11 DEF E
<1>6. e.kind \in {"network", "tokens", "rotated", "login", "worker", "remove"}
  BY <1>1 DEF EditFit, Edit
<1> QED BY <1>2, <1>3, <1>4, <1>5, <1>6

-----------------------------------------------------------------------------
(* Steps of one process                                                    *)

SameRun(r, s) == /\ r.entry = s.entry /\ r.network = s.network
                 /\ r.override = s.override /\ r.follows = s.follows

(* What a step of p that asks the gateway for nothing makes of its record. *)
LocalFit(p, r) ==
    /\ RunFit(r, tokens, disk)
    /\ r.entry # None => \/ SameRun(r, proc[p])
                         \/ (r.follows /\ r.entry = disk.tokens[r.network])
    /\ Pending(r) => Pending(proc[p]) /\ Grant(r) = Grant(proc[p])

(* One process changes its record.                                         *)
LEMMA Records ==
    ASSUME Fits, NEW p \in Procs, NEW r \in Process, Set(p, r)
    PROVE  /\ proc' \in [Procs -> Process]
           /\ \A q \in Procs : proc'[q] = IF q = p THEN r ELSE proc[q]
BY DEF Fits, Set

(* Such a step keeps the fit and the spending discipline.                  *)
LEMMA LocalStep ==
    ASSUME Fits, Spending(proc, live, disk), NEW p \in Procs, NEW r, LocalFit(p, r), Set(p, r),
           disk' = disk, tokens' = tokens, live' = live,
           fresh' \subseteq DOMAIN tokens, lost' \subseteq Networks
    PROVE  Fits' /\ Spending(proc', live', disk')
<1>1. r \in Process
  BY DEF LocalFit, RunFit
<1>2. /\ proc' \in [Procs -> Process]
      /\ \A q \in Procs : proc'[q] = IF q = p THEN r ELSE proc[q]
  BY <1>1, Records
<1>3. Fits'
  <2>1. \A q \in Procs : RunFit(proc'[q], tokens', disk')
    BY <1>2 DEF LocalFit, Fits
  <2>2. DiskFit(tokens', disk') /\ TokensFit'
    BY DEF Fits, TokensFit
  <2> QED BY <1>2, <2>1, <2>2 DEF Fits
<1>4. r.entry # None =>
         \/ SameRun(r, proc[p])
         \/ (/\ r.follows /\ r.network \in Networks /\ Stored(disk, r.network)
             /\ r.entry.refresh = disk.tokens[r.network].refresh)
  BY DEF LocalFit, RunFit, Stored
<1>5. ASSUME Rotates PROVE Spending(proc', live', disk')
  <2>1. /\ DiskApart(disk) /\ \A q \in Procs : UserFit(proc[q], disk)
        /\ \A q \in Procs : PendingFit(q, proc, live, disk)
    BY <1>5 DEF Spending, Private
  <2>2. DiskApart(disk')
    BY <2>1 DEF DiskApart, Stored
  <2>3. ASSUME NEW q \in Procs PROVE UserFit(proc'[q], disk')
    <3> SUFFICES ASSUME NEW n \in Networks, proc'[q].entry # None, Stored(disk, n),
                        proc'[q].entry.refresh = disk.tokens[n].refresh
                 PROVE  proc'[q].network = n /\ Own(proc'[q])
      BY DEF UserFit
    <3>1. CASE q # p \/ SameRun(r, proc[p])
      <4>1. SameRun(proc'[q], proc[q])
        BY <1>2, <3>1 DEF SameRun
      <4> QED BY <2>1, <4>1 DEF UserFit, SameRun, Own
    <3>2. CASE q = p /\ ~SameRun(r, proc[p])
      <4>1. /\ r.follows /\ r.network \in Networks /\ Stored(disk, r.network)
            /\ disk.tokens[n].refresh = disk.tokens[r.network].refresh
        BY <1>2, <1>4, <3>2
      <4>2. n = r.network
        BY <2>1, <4>1 DEF DiskApart
      <4> QED BY <1>2, <3>2, <4>1, <4>2 DEF Own
    <3> QED BY <3>1, <3>2
  <2>4. ASSUME NEW q \in Procs PROVE PendingFit(q, proc', live', disk')
    <3> SUFFICES ASSUME Pending(proc'[q])
                 PROVE  /\ Grant(proc'[q]) \in live
                        /\ \A n \in Networks : Stored(disk, n) =>
                              disk.tokens[n].refresh # Grant(proc'[q])
                        /\ \A o \in Procs \ {q} :
                              /\ Pending(proc'[o]) => Grant(proc'[o]) # Grant(proc'[q])
                              /\ proc'[o].entry # None =>
                                    proc'[o].entry.refresh # Grant(proc'[q])
      BY DEF PendingFit
    <3>1. \A o \in Procs : Pending(proc'[o]) => Pending(proc[o]) /\ Grant(proc'[o]) = Grant(proc[o])
      BY <1>2 DEF LocalFit
    <3>2. PendingFit(q, proc, live, disk) /\ Pending(proc[q]) /\ Grant(proc'[q]) = Grant(proc[q])
      BY <2>1, <3>1
    <3>3. \A n \in Networks : Stored(disk, n) => disk.tokens[n].refresh # Grant(proc[q])
      BY <3>2 DEF PendingFit
    <3>4. ASSUME NEW o \in Procs \ {q}, proc'[o].entry # None
          PROVE  proc'[o].entry.refresh # Grant(proc[q])
      <4>1. CASE o # p \/ SameRun(r, proc[p])
        <5>1. proc'[o].entry = proc[o].entry
          BY <1>2, <4>1 DEF SameRun
        <5> QED BY <3>2, <3>4, <5>1 DEF PendingFit
      <4>2. CASE o = p /\ ~SameRun(r, proc[p])
        BY <1>2, <1>4, <3>3, <3>4, <4>2
      <4> QED BY <4>1, <4>2
    <3>5. \A o \in Procs \ {q} : Pending(proc'[o]) => Grant(proc'[o]) # Grant(proc[q])
      BY <3>1, <3>2 DEF PendingFit
    <3>6. Grant(proc[q]) \in live
      BY <3>2 DEF PendingFit
    <3> QED BY <3>2, <3>3, <3>4, <3>5, <3>6
  <2> QED BY <1>5, <2>2, <2>3, <2>4 DEF Spending, Private
<1>6. ASSUME ~Rotates PROVE Spending(proc', live', disk')
  <2>1. AllLive(proc, live, disk)
    BY <1>6 DEF Spending
  <2>2. \A n \in Networks : Stored(disk', n) => disk'.tokens[n].refresh \in live'
    BY <2>1 DEF AllLive, Stored
  <2>3. ASSUME NEW q \in Procs, proc'[q].entry # None
        PROVE  proc'[q].entry.refresh \in live'
    <3>1. CASE q # p \/ SameRun(r, proc[p])
      <4>1. proc'[q].entry = proc[q].entry
        BY <1>2, <3>1 DEF SameRun
      <4> QED BY <2>1, <2>3, <4>1 DEF AllLive
    <3>2. CASE q = p /\ ~SameRun(r, proc[p])
      BY <1>2, <1>4, <2>1, <2>3, <3>2 DEF AllLive
    <3> QED BY <3>1, <3>2
  <2>4. \A q \in Procs : Pending(proc'[q]) => Grant(proc'[q]) \in live'
    BY <1>2, <2>1 DEF AllLive, LocalFit
  <2> QED BY <1>6, <2>2, <2>3, <2>4 DEF Spending, AllLive
<1> QED BY <1>3, <1>5, <1>6

(***************************************************************************)
(* The gateway issues pair number t to p, which spends the refresh token p *)
(* presented, if it rotates.                                               *)
(***************************************************************************)
LEMMA IssueStep ==
    ASSUME Fits, Spending(proc, live, disk), NEW p \in Procs, NEW r, NEW pair \in Pair, Issues(pair),
           RunFit(r, tokens', disk), Set(p, r), disk' = disk, lost' \subseteq Networks,
           ~Pending(proc[p]),
           \/ live' = live \cup {Len(tokens) + 1}
           \/ (~Rotates /\ live' = live)
           \/ /\ Rotates /\ proc[p].entry # None
              /\ live' = (live \ {proc[p].entry.refresh}) \cup {Len(tokens) + 1},
           r.entry # None =>
              \/ (r.entry.refresh = Len(tokens) + 1 /\ Len(tokens) + 1 \in live')
              \/ (~Rotates /\ r.entry.refresh \in live),
           Pending(r) =>
              \/ (Grant(r) = Len(tokens) + 1 /\ Len(tokens) + 1 \in live')
              \/ (~Rotates /\ Grant(r) \in live)
    PROVE  /\ Fits' /\ Spending(proc', live', disk')
           /\ DOMAIN tokens \subseteq DOMAIN tokens'
           /\ \A i \in DOMAIN tokens : tokens'[i] = tokens[i]
           /\ tokens'[Len(tokens) + 1] = pair
<1> DEFINE t == Len(tokens) + 1
<1>1. /\ tokens \in Seq(Pair) /\ tokens' = Append(tokens, pair) /\ Len(tokens) < MaxTokens
      /\ MaxTokens \in Nat
  BY CliAssumption DEF Fits, TokensFit, Issues
<1>2. /\ tokens' \in Seq(Pair) /\ Len(tokens') = t /\ DOMAIN tokens' = 1 .. t
      /\ DOMAIN tokens = 1 .. Len(tokens) /\ Len(tokens) \in Nat
      /\ \A i \in DOMAIN tokens : tokens'[i] = tokens[i]
      /\ tokens'[t] = pair
  BY <1>1
<1>3. /\ DOMAIN tokens \subseteq DOMAIN tokens' /\ t \notin DOMAIN tokens /\ t \in DOMAIN tokens'
      /\ t <= MaxTokens
  BY <1>1, <1>2
<1> HIDE DEF t
<1>4. TokensFit'
  <2>1. live' \subseteq DOMAIN tokens' /\ fresh' \subseteq DOMAIN tokens'
    BY <1>3 DEF Fits, TokensFit, Issues, t
  <2> QED BY <1>2, <1>3, <2>1 DEF TokensFit
<1>5. r \in Process
  BY DEF RunFit
<1>6. /\ proc' \in [Procs -> Process]
      /\ \A q \in Procs : proc'[q] = IF q = p THEN r ELSE proc[q]
  BY <1>5, Records
<1>7. Fits'
  <2>1. DiskFit(tokens', disk')
    BY <1>2, <1>3, DiskKept DEF Fits
  <2>2. ASSUME NEW q \in Procs PROVE RunFit(proc'[q], tokens', disk')
    <3>1. CASE q = p
      BY <1>6, <3>1
    <3>2. CASE q # p
      <4>1. RunFit(proc[q], tokens', disk)
        BY <1>2, <1>3, RunKept DEF Fits
      <4> QED BY <1>6, <3>2, <4>1
    <3> QED BY <3>1, <3>2
  <2> QED BY <1>4, <1>6, <2>1, <2>2 DEF Fits
<1>8. \A n \in Networks : Stored(disk, n) => disk.tokens[n].refresh \in DOMAIN tokens
  BY DEF Fits, DiskFit, Known
<1>9. \A q \in Procs : /\ proc[q].entry # None => proc[q].entry.refresh \in DOMAIN tokens
                       /\ Pending(proc[q]) => Grant(proc[q]) \in DOMAIN tokens
  BY DEF Fits, RunFit, EditFit, Known, Pending, Grant, Obtained
<1>10. ASSUME Rotates PROVE Spending(proc', live', disk')
  <2>1. /\ DiskApart(disk) /\ \A q \in Procs : UserFit(proc[q], disk)
        /\ \A q \in Procs : PendingFit(q, proc, live, disk)
    BY <1>10 DEF Spending, Private
  <2>2. (r.entry # None => r.entry.refresh = t) /\ (Pending(r) => Grant(r) = t /\ t \in live')
    BY <1>10 DEF t
  <2>3. DiskApart(disk')
    BY <2>1 DEF DiskApart, Stored
  <2>4. ASSUME NEW q \in Procs PROVE UserFit(proc'[q], disk')
    <3>1. CASE q = p
      BY <1>3, <1>6, <1>8, <2>2, <3>1 DEF UserFit, Stored
    <3>2. CASE q # p
      BY <1>6, <2>1, <3>2 DEF UserFit, Stored, Own
    <3> QED BY <3>1, <3>2
  <2>5. ASSUME NEW q \in Procs PROVE PendingFit(q, proc', live', disk')
    <3> SUFFICES ASSUME Pending(proc'[q])
                 PROVE  /\ Grant(proc'[q]) \in live'
                        /\ \A n \in Networks : Stored(disk, n) =>
                              disk.tokens[n].refresh # Grant(proc'[q])
                        /\ \A o \in Procs \ {q} :
                              /\ Pending(proc'[o]) => Grant(proc'[o]) # Grant(proc'[q])
                              /\ proc'[o].entry # None =>
                                    proc'[o].entry.refresh # Grant(proc'[q])
      BY DEF PendingFit
    <3>1. CASE q = p
      BY <1>3, <1>6, <1>8, <1>9, <2>2, <3>1
    <3>2. CASE q # p
      <4>1. proc'[q] = proc[q] /\ PendingFit(q, proc, live, disk) /\ Grant(proc[q]) \in DOMAIN tokens
        BY <1>6, <1>9, <2>1, <3>2
      <4>2. Grant(proc[q]) \in live'
        BY <3>2, <4>1, <1>10 DEF PendingFit
      <4>3. ASSUME NEW o \in Procs \ {q}
            PROVE  /\ Pending(proc'[o]) => Grant(proc'[o]) # Grant(proc[q])
                   /\ proc'[o].entry # None => proc'[o].entry.refresh # Grant(proc[q])
        <5>1. CASE o = p
          BY <1>3, <1>6, <2>2, <4>1, <5>1
        <5>2. CASE o # p
          BY <1>6, <4>1, <5>2 DEF PendingFit
        <5> QED BY <5>1, <5>2
      <4> QED BY <4>1, <4>2, <4>3 DEF PendingFit
    <3> QED BY <3>1, <3>2
  <2> QED BY <1>10, <2>3, <2>4, <2>5 DEF Spending, Private
<1>11. ASSUME ~Rotates PROVE Spending(proc', live', disk')
  <2>1. AllLive(proc, live, disk) /\ live \subseteq live'
    BY <1>11 DEF Spending
  <2>2. /\ r.entry # None => r.entry.refresh \in live'
        /\ Pending(r) => Grant(r) \in live'
    BY <2>1
  <2>3. \A n \in Networks : Stored(disk', n) => disk'.tokens[n].refresh \in live'
    BY <2>1 DEF AllLive, Stored
  <2>4. \A q \in Procs : /\ proc'[q].entry # None => proc'[q].entry.refresh \in live'
                         /\ Pending(proc'[q]) => Grant(proc'[q]) \in live'
    BY <1>6, <2>1, <2>2 DEF AllLive
  <2> QED BY <1>11, <2>3, <2>4 DEF Spending, AllLive
<1> QED BY <1>2, <1>3, <1>7, <1>10, <1>11 DEF t

(* The pairs issued before keep their numbers.                             *)
LEMMA IssuedTokens ==
    ASSUME Fits, NEW pair \in Pair, Issues(pair)
    PROVE  /\ tokens' \in Seq(Pair) /\ Len(tokens') <= MaxTokens
           /\ Len(tokens) + 1 \in DOMAIN tokens' /\ Len(tokens) + 1 \notin DOMAIN tokens
           /\ DOMAIN tokens \subseteq DOMAIN tokens'
           /\ \A i \in DOMAIN tokens : tokens'[i] = tokens[i]
           /\ tokens'[Len(tokens) + 1] = pair
<1>1. /\ tokens \in Seq(Pair) /\ tokens' = Append(tokens, pair) /\ Len(tokens) < MaxTokens
      /\ MaxTokens \in Nat
  BY CliAssumption DEF Fits, TokensFit, Issues
<1>2. /\ tokens' \in Seq(Pair) /\ Len(tokens') = Len(tokens) + 1
      /\ DOMAIN tokens' = 1 .. Len(tokens) + 1
      /\ DOMAIN tokens = 1 .. Len(tokens) /\ Len(tokens) \in Nat
      /\ \A i \in DOMAIN tokens : tokens'[i] = tokens[i]
      /\ tokens'[Len(tokens) + 1] = pair
  BY <1>1
<1> QED BY <1>1, <1>2

(* A process that ends or has ended.                                       *)
LEMMA IdleFit ==
    ASSUME NEW p \in Procs
    PROVE  LocalFit(p, Idle) /\ ~Pending(Idle)
BY IdleForm DEF LocalFit, RunFit, Pending

(* A process that moves on with what it has.                               *)
LEMMA MoveFit ==
    ASSUME Fits, NEW p \in Procs, proc[p].pc # "idle", NEW r \in Process,
           r.pc \in {"check", "ask", "device", "after"}, SameRun(r, proc[p]),
           r.pc = "ask" => r.entry # None
    PROVE  LocalFit(p, r) /\ ~Pending(r)
<1>1. RunFit(proc[p], tokens, disk)
  BY DEF Fits
<1>2. RunFit(r, tokens, disk)
  BY <1>1 DEF RunFit, SameRun, Own
<1> QED BY <1>2 DEF LocalFit, Pending, SameRun

(* A process with a network and no token.                                  *)
LEMMA AtFit ==
    ASSUME NEW p \in Procs, NEW n \in Networks, NEW c \in {"work", "login"}
    PROVE  LET r == [Idle EXCEPT !.pc = c, !.network = n]
           IN  LocalFit(p, r) /\ ~Pending(r)
<1> DEFINE r == [Idle EXCEPT !.pc = c, !.network = n]
<1>1. r \in Process /\ r.pc = c /\ r.network = n /\ r.entry = None /\ ~r.override
  BY IdleForm DEF Process, Maybe
<1> HIDE DEF r
<1>2. LocalFit(p, r) /\ ~Pending(r)
  BY <1>1 DEF LocalFit, RunFit, Pending
<1> QED BY <1>2 DEF r

(***************************************************************************)
(* The steps that ask the gateway for nothing, and write nothing.          *)
(***************************************************************************)
LEMMA LocalActions ==
    ASSUME SaveInv, Fits, NEW p \in Procs,
           \/ Start(p) \/ Check(p) \/ AskFails(p) \/ Rejected(p) \/ DeviceFails(p)
           \/ After(p) \/ Work(p) \/ Done(p) \/ Login(p) \/ Lock(p)
           \/ SaveFails(p) \/ Crash(p)
    PROVE  \E r : /\ LocalFit(p, r) /\ Set(p, r)
                  /\ Holding(p) => \/ (r.pc \in {"save", "locked"} /\ r.edit = proc[p].edit)
                                   \/ Loses(p)
<1> DEFINE Fine(r) == LocalFit(p, r) /\ Set(p, r)
<1>0. RunFit(proc[p], tokens, disk) /\ proc[p] \in Process
  BY DEF Fits, RunFit
<1>1. ASSUME proc[p].pc # "idle", Proceeds(p) PROVE \E r : Fine(r)
  <2>1. proc[p].network \in Networks
    BY <1>0, <1>1 DEF RunFit
  <2> QED BY <1>1, <2>1, AtFit DEF Proceeds
<1>2. ASSUME Set(p, Idle) PROVE \E r : Fine(r)
  BY <1>2, IdleFit
<1>3. ASSUME proc[p].pc # "idle", NEW c \in {"ask", "device"}, Set(p, [proc[p] EXCEPT !.pc = c]),
             c = "ask" => proc[p].entry # None
      PROVE  \E r : Fine(r)
  <2> DEFINE r == [proc[p] EXCEPT !.pc = c]
  <2>1. r \in Process /\ r.pc = c /\ SameRun(r, proc[p])
    BY <1>0 DEF SameRun, Process
  <2>2. Set(p, r)
    BY <1>3
  <2> HIDE DEF r
  <2>3. LocalFit(p, r)
    BY <1>3, <2>1, MoveFit DEF SameRun
  <2> QED BY <2>2, <2>3
<1>4. CASE Start(p)
  <2>1. PICK override \in BOOLEAN, explicit \in Maybe(Networks) :
          LET n == IF explicit = None THEN disk.active ELSE explicit
              r == [Idle EXCEPT !.pc = "check", !.override = override, !.network = n,
                                !.entry = disk.tokens[n]]
          IN  Set(p, IF n = disk.active THEN r
                     ELSE [r EXCEPT !.pc = "save", !.then = "check",
                             !.edit = [NoEdit EXCEPT !.kind = "network", !.network = n]])
    BY <1>4 DEF Start
  <2> DEFINE n == IF explicit = None THEN disk.active ELSE explicit
             r == [Idle EXCEPT !.pc = "check", !.override = override, !.network = n,
                               !.entry = disk.tokens[n]]
             e == [NoEdit EXCEPT !.kind = "network", !.network = n]
             s == [r EXCEPT !.pc = "save", !.then = "check", !.edit = e]
  <2>2. /\ disk \in Config /\ n \in Networks /\ disk.tokens[n] \in Maybe(Entry)
        /\ Stored(disk, n) => /\ Known(disk.tokens[n], tokens)
                              /\ HomeChain(disk.tokens[n], tokens)
                              /\ HomeAccess(disk.tokens[n], tokens)
    BY DEF Fits, DiskFit, Config, Maybe
  <2>3. Set(p, r) \/ Set(p, s)
    BY <2>1
  <2>4. e \in Edit /\ e.kind = "network" /\ e.network = n
    BY <2>2 DEF NoEdit, Edit, Maybe
  <2> HIDE DEF n, e
  <2>5. /\ r \in Process /\ r.pc = "check" /\ r.network = n /\ r.entry = disk.tokens[n]
        /\ r.override = override /\ r.follows
    BY <2>2, IdleForm DEF Process, Maybe
  <2> HIDE DEF r
  <2>6. /\ s \in Process /\ s.pc = "save" /\ s.edit = e /\ s.override = r.override
        /\ s.network = r.network /\ s.entry = r.entry /\ s.follows = r.follows
    BY <2>4, <2>5 DEF Process
  <2> HIDE DEF s
  <2>7. RunFit(r, tokens, disk)
    BY <2>2, <2>5 DEF RunFit, Stored
  <2>8. RunFit(s, tokens, disk)
    BY <2>2, <2>4, <2>5, <2>6 DEF RunFit, EditFit, Stored, Obtained
  <2>9. LocalFit(p, r)
    BY <2>5, <2>7 DEF LocalFit, Pending
  <2>10. LocalFit(p, s)
    BY <2>4, <2>5, <2>6, <2>8 DEF LocalFit, Pending, Obtained, SameRun
  <2>11. ~Holding(p)
    BY <1>4 DEF Start, Holding
  <2> QED BY <2>3, <2>9, <2>10, <2>11
<1>5. CASE Check(p)
  <2>1. proc[p].pc = "check"
    BY <1>5 DEF Check
  <2>2. \E r : Fine(r)
    BY <1>5, <2>1, <1>1, <1>3 DEF Check, NeedsRefresh
  <2> QED BY <2>1, <2>2 DEF Holding
<1>6. CASE AskFails(p) \/ DeviceFails(p) \/ Done(p)
  BY <1>6, <1>2 DEF AskFails, DeviceFails, Done, Holding
<1>7. CASE SaveFails(p) \/ Crash(p)
  <2>1. Set(p, Idle) /\ Loses(p)
    BY <1>7 DEF SaveFails, Crash
  <2> QED BY <2>1, <1>2
<1>8. CASE Rejected(p)
  <2>1. proc[p].pc = "ask" /\ (Set(p, Idle) \/ Set(p, [proc[p] EXCEPT !.pc = "device"]))
    BY <1>8 DEF Rejected
  <2>2. \E r : Fine(r)
    BY <2>1, <1>2, <1>3
  <2> QED BY <2>1, <2>2 DEF Holding
<1>9. CASE After(p)
  <2>1. proc[p].pc = "after"
    BY <1>9 DEF After
  <2>2. ASSUME MayRetry(p), Set(p, [proc[p] EXCEPT !.pc = "check", !.attempt = @ + 1])
        PROVE  \E r : Fine(r)
    <3> DEFINE r == [proc[p] EXCEPT !.pc = "check", !.attempt = @ + 1]
    <3>1. r \in Process /\ r.pc = "check" /\ SameRun(r, proc[p])
      BY <1>0, <2>2, RetryForm DEF SameRun, MayRetry
    <3>2. Set(p, r)
      BY <2>2
    <3> HIDE DEF r
    <3>3. LocalFit(p, r)
      BY <2>1, <3>1, MoveFit
    <3> QED BY <3>2, <3>3
  <2>3. \E r : Fine(r)
    BY <1>9, <2>1, <2>2, <1>1, <1>2 DEF After
  <2> QED BY <2>1, <2>3 DEF Holding
<1>10. CASE Work(p)
  <2>1. proc[p].pc = "work" /\ proc[p].network \in Networks
    BY <1>0, <1>10 DEF Work, RunFit
  <2>2. PICK kind \in {"worker", "remove"}, w \in Workers :
          Set(p, [proc[p] EXCEPT !.pc = "save", !.then = "work",
                    !.edit = [NoEdit EXCEPT !.kind = kind, !.worker = w,
                                            !.network = proc[p].network]])
    BY <1>10 DEF Work
  <2> DEFINE e == [NoEdit EXCEPT !.kind = kind, !.worker = w, !.network = proc[p].network]
             s == [proc[p] EXCEPT !.pc = "save", !.then = "work", !.edit = e]
  <2>3. e \in Edit /\ e.kind = kind /\ e.network = proc[p].network /\ e.worker = w
    BY <2>1 DEF NoEdit, Edit, Maybe
  <2>4. Set(p, s)
    BY <2>2
  <2> HIDE DEF e
  <2>5. /\ s \in Process /\ s.pc = "save" /\ s.edit = e /\ SameRun(s, proc[p])
    BY <1>0, <2>3 DEF SameRun, Process
  <2> HIDE DEF s
  <2>6. RunFit(s, tokens, disk)
    BY <1>0, <2>1, <2>3, <2>5 DEF RunFit, EditFit, SameRun, Own, Obtained
  <2>7. LocalFit(p, s)
    BY <2>3, <2>5, <2>6 DEF LocalFit, Pending, Obtained, SameRun
  <2> QED BY <2>1, <2>4, <2>7 DEF Holding
<1>11. CASE Login(p)
  <2>1. PICK n \in Networks : Set(p, [Idle EXCEPT !.pc = "login", !.network = n])
    BY <1>11 DEF Login
  <2>2. LocalFit(p, [Idle EXCEPT !.pc = "login", !.network = n])
    BY AtFit
  <2>3. ~Holding(p)
    BY <1>11 DEF Login, Holding
  <2> QED BY <2>1, <2>2, <2>3
<1>12. CASE Lock(p)
  <2> DEFINE x == Edited(disk, proc[p].edit)
             s == [proc[p] EXCEPT !.pc = "locked", !.image = x]
  <2>1. proc[p].pc = "save" /\ Set(p, s)
    BY <1>12 DEF Lock
  <2>2. x \in Config
    BY <1>0, <2>1, EditedTokens DEF Fits, TokensFit, DiskFit
  <2> HIDE DEF x
  <2>3. /\ s \in Process /\ s.pc = "locked" /\ s.edit = proc[p].edit /\ SameRun(s, proc[p])
    BY <1>0, <2>2 DEF SameRun, Process, Maybe
  <2> HIDE DEF s
  <2>4. RunFit(s, tokens, disk)
    BY <1>0, <2>1, <2>3 DEF RunFit, EditFit, SameRun, Own
  <2>5. LocalFit(p, s)
    BY <2>1, <2>3, <2>4 DEF LocalFit, Pending, Grant, SameRun
  <2> QED BY <2>1, <2>3, <2>5
<1> QED BY <1>4, <1>5, <1>6, <1>7, <1>8, <1>9, <1>10, <1>11, <1>12

-----------------------------------------------------------------------------
(* The stored token stays live                                             *)

(***************************************************************************)
(* A step that spends no token and leaves the file alone: whoever has a    *)
(* grant to store keeps it, or the network counts as lost.                 *)
(***************************************************************************)
LEMMA LiveKept ==
    ASSUME Fits, StoredTokenLive, disk' = disk, live \subseteq live', lost \subseteq lost',
           \A i \in DOMAIN tokens : tokens'[i] = tokens[i],
           \A q \in Procs : Holding(q) =>
              \/ proc'[q].pc \in {"save", "locked"} /\ proc'[q].edit = proc[q].edit
              \/ proc[q].edit.network \in lost'
    PROVE  StoredTokenLive'
<1> SUFFICES ASSUME NEW n \in Networks \ lost', disk.tokens[n] # None
             PROVE  \/ disk.tokens[n].refresh \in live'
                    \/ \E q \in Procs : /\ Holding(q)' /\ proc'[q].edit.network = n
                                        /\ tokens'[proc'[q].edit.entry.refresh].parent
                                             = disk.tokens[n].refresh
  BY DEF StoredTokenLive
<1>1. CASE disk.tokens[n].refresh \in live
  BY <1>1
<1>2. CASE disk.tokens[n].refresh \notin live
  <2>1. PICK q \in Procs : /\ Holding(q) /\ proc[q].edit.network = n
                           /\ tokens[proc[q].edit.entry.refresh].parent
                                = disk.tokens[n].refresh
    BY <1>2 DEF StoredTokenLive
  <2>2. proc'[q].pc \in {"save", "locked"} /\ proc'[q].edit = proc[q].edit
    BY <2>1
  <2>3. proc[q].edit.entry.refresh \in DOMAIN tokens
    BY <2>1 DEF Holding, Fits, RunFit, EditFit, Obtained, Known
  <2>4. Holding(q)'
    BY <2>1, <2>2 DEF Holding
  <2> QED BY <2>1, <2>2, <2>3, <2>4
<1> QED BY <1>1, <1>2

(* Without rotation nothing is spent.                                      *)
LEMMA LiveUnspent ==
    ASSUME NEW P, NEW L, NEW D, Spending(P, L, D), ~Rotates
    PROVE  \A n \in Networks : D.tokens[n] # None => D.tokens[n].refresh \in L
BY DEF Spending, AllLive, Stored

(* A local step.                                                           *)
LEMMA LocalInv ==
    ASSUME TokenInv, NEW p \in Procs,
           \/ Start(p) \/ Check(p) \/ AskFails(p) \/ Rejected(p) \/ DeviceFails(p)
           \/ After(p) \/ Work(p) \/ Done(p) \/ Login(p) \/ Lock(p)
           \/ SaveFails(p) \/ Crash(p)
    PROVE  Fits' /\ Spending(proc', live', disk') /\ StoredTokenLive'
<1>1. PICK r : /\ LocalFit(p, r) /\ Set(p, r)
               /\ Holding(p) => \/ (r.pc \in {"save", "locked"} /\ r.edit = proc[p].edit)
                                \/ Loses(p)
  BY LocalActions DEF TokenInv
<1>2. /\ disk' = disk /\ tokens' = tokens /\ live' = live /\ fresh' = fresh
      /\ lost' = lost \/ Loses(p)
  BY DEF Start, Check, AskFails, Rejected, DeviceFails, After, Work, Done, Login, Lock,
         SaveFails, Crash, Gateway
<1>3. r \in Process
  BY <1>1 DEF LocalFit, RunFit
<1>4. \A q \in Procs : proc'[q] = IF q = p THEN r ELSE proc[q]
  BY <1>1, <1>3, Records DEF TokenInv
<1>5. lost \subseteq lost' /\ lost' \subseteq Networks
  <2>1. Holding(p) => proc[p].edit.network \in Networks
    BY DEF TokenInv, Fits, RunFit, EditFit, Holding
  <2>2. lost \subseteq Networks
    BY DEF TokenInv, Fits
  <2> QED BY <1>2, <2>1, <2>2 DEF Loses
<1>6. Fits' /\ Spending(proc', live', disk')
  BY <1>1, <1>2, <1>5, LocalStep DEF TokenInv, Fits, TokensFit
<1>7. \A q \in Procs : Holding(q) =>
              \/ proc'[q].pc \in {"save", "locked"} /\ proc'[q].edit = proc[q].edit
              \/ proc[q].edit.network \in lost'
  BY <1>1, <1>4 DEF Holding, Loses
<1> QED BY <1>2, <1>5, <1>6, <1>7, LiveKept DEF TokenInv

-----------------------------------------------------------------------------
(* Tokens obtained                                                         *)

(* What persist_refreshed_tokens is about to write.                        *)
LEMMA PersistsFit ==
    ASSUME Fits, NEW p \in Procs, proc[p].network \in Networks, NEW x, NEW f \in BOOLEAN,
           Persists(p, x, f), tokens' \in Seq(Pair), Len(tokens') <= MaxTokens, Known(x, tokens'),
           f => Stored(disk, proc[p].network),
           ~proc[p].override => HomeAccess(x, tokens'),
           f \/ ~proc[p].override => HomeChain(x, tokens')
    PROVE  \E r : /\ RunFit(r, tokens', disk) /\ Set(p, r) /\ r.entry = x
                  /\ Pending(r) => Grant(r) = x.refresh
                  /\ f \/ ~proc[p].override =>
                        /\ r.pc = "save" /\ r.edit.kind \in {"tokens", "rotated"}
                        /\ r.edit.network = proc[p].network /\ r.edit.entry = x
<1> DEFINE k == IF proc[p].override THEN "rotated" ELSE "tokens"
           s == [proc[p] EXCEPT !.entry = x, !.follows = f]
           e == [NoEdit EXCEPT !.network = proc[p].network, !.entry = x]
           d == [e EXCEPT !.kind = k]
           a == [s EXCEPT !.pc = "after"]
           w == [s EXCEPT !.pc = "save", !.then = "after", !.edit = d]
<1>1. x \in Entry /\ x # None /\ proc[p] \in Process
  BY EntryKnown DEF Fits, RunFit
<1>2. IF proc[p].override /\ ~f THEN Set(p, a) ELSE Set(p, w)
  BY DEF Persists
<1>3. /\ s \in Process /\ s.override = proc[p].override /\ s.network = proc[p].network
      /\ s.entry = x /\ s.follows = f
  BY <1>1 DEF Process, Maybe
<1>4. d \in Edit /\ d.kind = k /\ d.network = proc[p].network /\ d.entry = x
  BY <1>1 DEF NoEdit, Edit, Maybe
<1> HIDE DEF s, d
<1>5. a \in Process /\ a.pc = "after" /\ SameRun(a, s)
  BY <1>3 DEF Process, SameRun
<1>6. w \in Process /\ w.pc = "save" /\ w.edit = d /\ SameRun(w, s)
  BY <1>3, <1>4 DEF Process, SameRun
<1> HIDE DEF a, w
<1>7. CASE proc[p].override /\ ~f
  <2>1. RunFit(a, tokens', disk)
    BY <1>3, <1>5, <1>7 DEF RunFit, SameRun, Own
  <2>2. ~Pending(a) /\ a.entry = x
    BY <1>3, <1>5 DEF Pending, SameRun
  <2> QED BY <1>2, <1>7, <2>1, <2>2
<1>8. CASE f \/ ~proc[p].override
  <2>1. EditFit(w, tokens', disk)
    BY <1>3, <1>4, <1>6, <1>8 DEF EditFit, SameRun, Own, Obtained
  <2>2. RunFit(w, tokens', disk)
    BY <1>3, <1>6, <1>8, <2>1 DEF RunFit, SameRun, Own
  <2>3. w.entry = x /\ Grant(w) = x.refresh
    BY <1>3, <1>4, <1>6 DEF Grant, SameRun
  <2>4. w.edit.kind \in {"tokens", "rotated"}
    BY <1>4, <1>6
  <2> QED BY <1>2, <1>4, <1>6, <1>8, <2>2, <2>3, <2>4
<1> QED BY <1>7, <1>8

(***************************************************************************)
(* The gateway carries out a refresh grant.  A gateway that rotates spends *)
(* the presented token: if that is the stored one, its network is p's and  *)
(* p now has the successor to store, or the answer is lost.                *)
(***************************************************************************)
LEMMA GrantInv ==
    ASSUME TokenInv, NEW p \in Procs, Granted(p) \/ AnswerLost(p)
    PROVE  Fits' /\ Spending(proc', live', disk') /\ StoredTokenLive'
<1> DEFINE t == Len(tokens) + 1
           o == proc[p].entry.refresh
           pair == [chain |-> tokens[o].chain, at |-> Registry(p), parent |-> o]
           x == [access |-> t, refresh |-> IF Rotates THEN t ELSE o]
<1>0. /\ Fits /\ Spending(proc, live, disk) /\ StoredTokenLive
      /\ RunFit(proc[p], tokens, disk)
  BY DEF TokenInv, Fits
<1>1. /\ proc[p].pc = "ask" /\ o \in live /\ Issues(pair)
      /\ live' = IF Rotates THEN (live \ {o}) \cup {t} ELSE live
      /\ disk' = disk
  BY DEF Granted, AnswerLost, Grants
<1>2. /\ proc[p].entry # None /\ proc[p].network \in Networks
      /\ Known(proc[p].entry, tokens) /\ proc[p].override \in BOOLEAN
      /\ proc[p].follows \in BOOLEAN
  BY <1>0, <1>1 DEF RunFit, Process
<1>3. o \in DOMAIN tokens /\ tokens[o].chain \in {"home", "override"}
  <2>1. o \in DOMAIN tokens /\ tokens \in Seq(Pair)
    BY <1>0, <1>2 DEF Known, Fits, TokensFit
  <2>2. tokens[o] \in Pair
    BY <2>1
  <2> QED BY <2>1, <2>2 DEF Pair
<1>4. pair \in Pair
  <2>1. o \in 1 .. MaxTokens
    BY <1>0, <1>3, CliAssumption DEF Fits, TokensFit
  <2> QED BY <1>3, <2>1 DEF Pair, Maybe, Registry
<1>5. pair.chain = tokens[o].chain /\ pair.at = Registry(p) /\ pair.parent = o
  OBVIOUS
<1> HIDE DEF pair
<1>6. /\ tokens' \in Seq(Pair) /\ Len(tokens') <= MaxTokens
      /\ t \in DOMAIN tokens' /\ t \notin DOMAIN tokens
      /\ DOMAIN tokens \subseteq DOMAIN tokens'
      /\ \A i \in DOMAIN tokens : tokens'[i] = tokens[i]
      /\ tokens'[t] = pair
  BY <1>0, <1>1, <1>4, IssuedTokens
<1>7. x.access = t /\ x.refresh = (IF Rotates THEN t ELSE o) /\ Known(x, tokens')
  BY <1>3, <1>6 DEF Known
<1> HIDE DEF x
<1>8. /\ ~proc[p].override => HomeAccess(x, tokens')
      /\ Own(proc[p]) => HomeChain(x, tokens')
  BY <1>0, <1>2, <1>3, <1>5, <1>6, <1>7 DEF HomeAccess, HomeChain, Registry, RunFit
<1>9. PICK r : /\ RunFit(r, tokens', disk) /\ Set(p, r)
               /\ r = Idle \/ r.entry = x
               /\ Pending(r) => Grant(r) = x.refresh
               /\ \/ proc[p].network \in lost'
                  \/ Own(proc[p]) =>
                        /\ r.pc = "save" /\ r.edit.kind \in {"tokens", "rotated"}
                        /\ r.edit.network = proc[p].network /\ r.edit.entry = x
  <2>1. CASE Granted(p)
    <3>1. Persists(p, x, proc[p].follows)
      <4>1. StillFollows(p, TRUE) = proc[p].follows
        BY <1>2 DEF StillFollows
      <4>2. Persists(p, x, StillFollows(p, TRUE))
        BY <2>1 DEF Granted, x
      <4> QED BY <4>1, <4>2
    <3>2. proc[p].follows => Stored(disk, proc[p].network)
      BY <1>0, <1>2 DEF RunFit
    <3>3. proc[p].follows \/ ~proc[p].override => HomeChain(x, tokens')
      BY <1>8 DEF Own
    <3>4. \E r : /\ RunFit(r, tokens', disk) /\ Set(p, r) /\ r.entry = x
                 /\ Pending(r) => Grant(r) = x.refresh
                 /\ proc[p].follows \/ ~proc[p].override =>
                       /\ r.pc = "save" /\ r.edit.kind \in {"tokens", "rotated"}
                       /\ r.edit.network = proc[p].network /\ r.edit.entry = x
      BY <1>0, <1>2, <1>6, <1>7, <1>8, <3>1, <3>2, <3>3, PersistsFit
    <3> QED BY <3>4 DEF Own
  <2>2. CASE AnswerLost(p)
    <3>1. Set(p, Idle) /\ proc[p].network \in lost'
      BY <2>2 DEF AnswerLost
    <3>2. RunFit(Idle, tokens', disk) /\ ~Pending(Idle)
      BY IdleForm DEF RunFit, Pending
    <3> QED BY <3>1, <3>2
  <2> QED BY <2>1, <2>2
<1>10. lost \subseteq lost' /\ lost' \subseteq Networks
  BY <1>0, <1>2 DEF Granted, AnswerLost, Fits
<1>11. r.entry # None => r.entry = x
  BY <1>9, IdleForm
<1>12. Fits' /\ Spending(proc', live', disk')
  <2>1. ~Pending(proc[p])
    BY <1>1 DEF Pending
  <2>2. /\ \/ live' = live \cup {t}
           \/ (~Rotates /\ live' = live)
           \/ /\ Rotates /\ proc[p].entry # None
              /\ live' = (live \ {o}) \cup {t}
        /\ r.entry # None => \/ (r.entry.refresh = t /\ t \in live')
                             \/ (~Rotates /\ r.entry.refresh \in live)
        /\ Pending(r) => \/ (Grant(r) = t /\ t \in live')
                         \/ (~Rotates /\ Grant(r) \in live)
    BY <1>1, <1>2, <1>7, <1>9, <1>11
  <2> QED BY <1>0, <1>1, <1>4, <1>9, <1>10, <2>1, <2>2, IssueStep
<1>13. r \in Process
  BY <1>9 DEF RunFit
<1>14. \A q \in Procs : proc'[q] = IF q = p THEN r ELSE proc[q]
  BY <1>0, <1>9, <1>13, Records
<1>15. StoredTokenLive'
  <2> SUFFICES ASSUME NEW n \in Networks \ lost', disk.tokens[n] # None
               PROVE  \/ disk.tokens[n].refresh \in live'
                      \/ \E q \in Procs : /\ Holding(q)' /\ proc'[q].edit.network = n
                                          /\ tokens'[proc'[q].edit.entry.refresh].parent
                                               = disk.tokens[n].refresh
    BY <1>1 DEF StoredTokenLive
  <2>1. CASE ~Rotates
    BY <1>1, <1>12, <2>1, LiveUnspent
  <2>2. CASE Rotates /\ disk.tokens[n].refresh = o
    <3>1. proc[p].network = n /\ Own(proc[p])
      BY <1>0, <1>2, <2>2 DEF Spending, Private, UserFit, Stored
    <3>2. /\ r.pc = "save" /\ r.edit.kind \in {"tokens", "rotated"}
          /\ r.edit.network = n /\ r.edit.entry = x
      BY <1>9, <3>1
    <3>3. Holding(p)' /\ proc'[p].edit = r.edit
      BY <1>14, <3>2 DEF Holding
    <3> QED BY <1>5, <1>6, <1>7, <2>2, <3>2, <3>3
  <2>3. CASE disk.tokens[n].refresh \in live /\ disk.tokens[n].refresh # o
    BY <1>1, <2>3
  <2>4. CASE disk.tokens[n].refresh \notin live
    <3>1. PICK q \in Procs : /\ Holding(q) /\ proc[q].edit.network = n
                             /\ tokens[proc[q].edit.entry.refresh].parent
                                  = disk.tokens[n].refresh
      BY <1>0, <1>10, <2>4 DEF StoredTokenLive
    <3>2. q # p
      BY <1>1, <3>1 DEF Holding
    <3>3. proc'[q] = proc[q] /\ Holding(q)'
      BY <1>14, <3>1, <3>2 DEF Holding
    <3>4. proc[q].edit.entry.refresh \in DOMAIN tokens
      BY <1>0, <3>1 DEF Holding, Fits, RunFit, EditFit, Obtained, Known
    <3> QED BY <1>6, <3>1, <3>3, <3>4
  <2> QED BY <2>1, <2>2, <2>3, <2>4
<1> QED BY <1>12, <1>15

(***************************************************************************)
(* A device login: a chain of its own, at the registry it is for.          *)
(***************************************************************************)
LEMMA LoginInv ==
    ASSUME TokenInv, NEW p \in Procs, DeviceLogin(p) \/ LoggedIn(p)
    PROVE  Fits' /\ Spending(proc', live', disk') /\ StoredTokenLive'
<1> DEFINE t == Len(tokens) + 1
           pair == [chain |-> Registry(p), at |-> Registry(p), parent |-> None]
<1>0. /\ Fits /\ Spending(proc, live, disk) /\ StoredTokenLive
      /\ RunFit(proc[p], tokens, disk)
  BY DEF TokenInv, Fits
<1>1. /\ proc[p].pc \in {"device", "login"} /\ Issues(pair)
      /\ live' = live \cup {t} /\ disk' = disk /\ lost' = lost
  BY DEF DeviceLogin, LoggedIn, NewLogin
<1>2. /\ proc[p].network \in Networks /\ proc[p] \in Process
      /\ proc[p].override \in BOOLEAN /\ proc[p].follows \in BOOLEAN
  BY <1>0, <1>1 DEF RunFit, Process
<1>3. pair \in Pair /\ pair.chain = Registry(p) /\ pair.at = Registry(p)
  BY DEF Pair, Maybe, Registry
<1> HIDE DEF pair
<1>4. /\ tokens' \in Seq(Pair) /\ Len(tokens') <= MaxTokens
      /\ t \in DOMAIN tokens' /\ t \notin DOMAIN tokens
      /\ DOMAIN tokens \subseteq DOMAIN tokens'
      /\ \A i \in DOMAIN tokens : tokens'[i] = tokens[i]
      /\ tokens'[t] = pair
  BY <1>0, <1>1, <1>3, IssuedTokens
<1>5. NewEntry.access = t /\ NewEntry.refresh = t /\ Known(NewEntry, tokens')
  BY <1>4 DEF NewEntry, Known
<1>6. ~proc[p].override => HomeAccess(NewEntry, tokens') /\ HomeChain(NewEntry, tokens')
  BY <1>3, <1>4, <1>5 DEF HomeAccess, HomeChain, Registry
<1>7. NewEntry \in Entry /\ NewEntry # None
  BY <1>4, <1>5, EntryKnown
<1>8. \E r : /\ RunFit(r, tokens', disk) /\ Set(p, r)
             /\ r.entry # None => r.entry = NewEntry
             /\ Pending(r) => Grant(r) = t
  <2>1. CASE DeviceLogin(p)
    <3> DEFINE f == StillFollows(p, FALSE)
    <3>1. f \in BOOLEAN /\ ~f /\ Persists(p, NewEntry, f)
      BY <2>1 DEF StillFollows, DeviceLogin
    <3> HIDE DEF f
    <3>2. f \/ ~proc[p].override => HomeChain(NewEntry, tokens')
      BY <1>6, <3>1
    <3>3. \E r : /\ RunFit(r, tokens', disk) /\ Set(p, r) /\ r.entry = NewEntry
                 /\ Pending(r) => Grant(r) = NewEntry.refresh
                 /\ f \/ ~proc[p].override =>
                       /\ r.pc = "save" /\ r.edit.kind \in {"tokens", "rotated"}
                       /\ r.edit.network = proc[p].network /\ r.edit.entry = NewEntry
      BY <1>0, <1>2, <1>4, <1>5, <1>6, <3>1, <3>2, PersistsFit
    <3> QED BY <1>5, <3>3
  <2>2. CASE LoggedIn(p)
    <3> DEFINE e == [NoEdit EXCEPT !.kind = "login", !.network = proc[p].network,
                                   !.entry = NewEntry]
               r == [proc[p] EXCEPT !.pc = "save", !.then = "idle", !.edit = e]
    <3>1. Set(p, r) /\ proc[p].pc = "login"
      BY <2>2 DEF LoggedIn
    <3>2. e \in Edit /\ e.kind = "login" /\ e.network = proc[p].network /\ e.entry = NewEntry
      BY <1>2, <1>7 DEF NoEdit, Edit, Maybe
    <3> HIDE DEF e
    <3>3. r \in Process /\ r.pc = "save" /\ r.edit = e /\ SameRun(r, proc[p])
      BY <1>2, <3>2 DEF Process, SameRun
    <3> HIDE DEF r
    <3>4. proc[p].entry = None /\ ~proc[p].override
      BY <1>0, <3>1 DEF RunFit
    <3>5. EditFit(r, tokens', disk)
      BY <1>5, <1>6, <3>2, <3>3, <3>4 DEF EditFit, SameRun, Obtained
    <3>6. RunFit(r, tokens', disk) /\ r.entry = None
      BY <1>2, <3>3, <3>4, <3>5 DEF RunFit, SameRun
    <3>7. Grant(r) = t
      BY <1>5, <3>2, <3>3 DEF Grant
    <3> QED BY <3>1, <3>6, <3>7
  <2> QED BY <2>1, <2>2
<1>9. PICK r : /\ RunFit(r, tokens', disk) /\ Set(p, r)
               /\ r.entry # None => r.entry = NewEntry
               /\ Pending(r) => Grant(r) = t
  BY <1>8
<1>10. ~Pending(proc[p]) /\ ~Holding(p)
  BY <1>1 DEF Pending, Holding
<1>11. Fits' /\ Spending(proc', live', disk')
  <2>1. lost' \subseteq Networks
    BY <1>0, <1>1 DEF Fits
  <2>2. /\ r.entry # None => \/ (r.entry.refresh = t /\ t \in live')
                             \/ (~Rotates /\ r.entry.refresh \in live)
        /\ Pending(r) => \/ (Grant(r) = t /\ t \in live')
                         \/ (~Rotates /\ Grant(r) \in live)
    BY <1>1, <1>5, <1>9
  <2> QED BY <1>0, <1>1, <1>3, <1>9, <1>10, <2>1, <2>2, IssueStep
<1>12. r \in Process
  BY <1>9 DEF RunFit
<1>13. \A q \in Procs : proc'[q] = IF q = p THEN r ELSE proc[q]
  BY <1>0, <1>9, <1>12, Records
<1>14. \A q \in Procs : Holding(q) => proc'[q] = proc[q]
  BY <1>10, <1>13
<1>15. StoredTokenLive'
  <2>1. \A q \in Procs : Holding(q) =>
              \/ proc'[q].pc \in {"save", "locked"} /\ proc'[q].edit = proc[q].edit
              \/ proc[q].edit.network \in lost'
    BY <1>14 DEF Holding
  <2> QED BY <1>0, <1>1, <1>4, <2>1, LiveKept
<1> QED BY <1>11, <1>15

(***************************************************************************)
(* A save: what was pending is now the stored token, and live.             *)
(***************************************************************************)
LEMMA SaveTokens ==
    ASSUME TokenInv, NEW p \in Procs, Save(p)
    PROVE  Fits' /\ Spending(proc', live', disk') /\ StoredTokenLive'
<1> DEFINE r == [proc[p] EXCEPT !.pc = proc[p].then, !.edit = NoEdit, !.image = None]
           n == proc[p].network
<1>0. /\ Fits /\ Spending(proc, live, disk) /\ StoredTokenLive
      /\ RunFit(proc[p], tokens, disk) /\ proc[p] \in Process
      /\ tokens \in Seq(Pair) /\ Len(tokens) <= MaxTokens /\ DiskFit(tokens, disk)
  BY DEF TokenInv, Fits, RunFit, TokensFit
<1>1. /\ proc[p].pc = "locked" /\ Set(p, r) /\ tokens' = tokens /\ live' = live
      /\ fresh' = fresh /\ lost' = lost
  BY DEF Save, Gateway
<1>2. disk' = Edited(disk, proc[p].edit)
  BY SaveStep DEF TokenInv
<1>3. /\ r \in Process /\ r.pc \in {"idle", "check", "after", "work"} /\ SameRun(r, proc[p])
  <2>1. None \in Maybe(Config)
    BY DEF Maybe
  <2> QED BY <1>0, <2>1, NoEditTyped DEF Process, SameRun
<1> HIDE DEF r
<1>4. ~Pending(r)
  BY <1>3 DEF Pending
<1>5. \A q \in Procs : proc'[q] = IF q = p THEN r ELSE proc[q]
  BY <1>0, <1>1, <1>3, Records
<1>6. /\ DiskFit(tokens, disk')
      /\ \A m \in Networks : Stored(disk, m) => Stored(disk', m)
      /\ ~Pending(proc[p]) => disk'.tokens = disk.tokens
      /\ Pending(proc[p]) => /\ disk'.tokens[n].refresh = Grant(proc[p])
                             /\ \A m \in Networks \ {n} : disk'.tokens[m] = disk.tokens[m]
  BY <1>0, <1>1, <1>2, EditedTokens
<1>7. n \in Networks /\ EditFit(proc[p], tokens, disk)
  BY <1>0, <1>1 DEF RunFit
<1>8. Fits'
  <2>1. ASSUME NEW q \in Procs PROVE RunFit(proc[q], tokens, disk')
    BY <1>6, RunKept DEF Fits, TokenInv
  <2>2. RunFit(r, tokens, disk')
    BY <2>1, <1>0, <1>1, <1>3, <1>7 DEF RunFit, SameRun, Own
  <2>3. \A q \in Procs : RunFit(proc'[q], tokens', disk')
    BY <1>1, <1>5, <2>1, <2>2
  <2>4. proc' \in [Procs -> Process] /\ TokensFit'
    BY <1>0, <1>1, <1>3, Records DEF Fits, TokensFit
  <2>5. lost' \subseteq Networks /\ DiskFit(tokens', disk')
    BY <1>0, <1>1, <1>6 DEF Fits
  <2> QED BY <2>3, <2>4, <2>5 DEF Fits
<1>9. ASSUME Rotates PROVE Private(proc', live', disk')
  <2>0. /\ DiskApart(disk) /\ \A q \in Procs : UserFit(proc[q], disk)
        /\ \A q \in Procs : PendingFit(q, proc, live, disk)
    BY <1>0, <1>9 DEF Spending, Private
  <2>1. DiskApart(disk')
    <3>1. CASE ~Pending(proc[p])
      BY <1>6, <2>0, <3>1 DEF DiskApart, Stored
    <3>2. CASE Pending(proc[p])
      <4>1. \A m \in Networks : Stored(disk, m) => disk.tokens[m].refresh # Grant(proc[p])
        BY <2>0, <3>2 DEF PendingFit
      <4> QED BY <1>6, <2>0, <3>2, <4>1 DEF DiskApart, Stored
    <3> QED BY <3>1, <3>2
  <2>2. ASSUME NEW q \in Procs PROVE UserFit(proc'[q], disk')
    <3>1. SameRun(proc'[q], proc[q])
      BY <1>3, <1>5 DEF SameRun
    <3>2. UserFit(proc[q], disk')
      <4>1. CASE ~Pending(proc[p])
        BY <1>6, <2>0, <4>1 DEF UserFit, Stored
      <4>2. CASE Pending(proc[p]) /\ q # p
        <5>1. proc[q].entry # None => proc[q].entry.refresh # Grant(proc[p])
          BY <2>0, <4>2 DEF PendingFit
        <5> QED BY <1>6, <2>0, <4>2, <5>1 DEF UserFit, Stored
      <4>3. CASE Pending(proc[p]) /\ q = p
        <5>1. proc[p].entry # None => Own(proc[p])
          BY <1>7, <4>3 DEF EditFit, Pending, Obtained
        <5> QED BY <1>6, <2>0, <4>3, <5>1 DEF UserFit, Stored
      <4> QED BY <4>1, <4>2, <4>3
    <3> QED BY <3>1, <3>2 DEF UserFit, SameRun, Own
  <2>3. ASSUME NEW q \in Procs PROVE PendingFit(q, proc', live', disk')
    <3> SUFFICES ASSUME Pending(proc'[q])
                 PROVE  /\ Grant(proc'[q]) \in live'
                        /\ \A m \in Networks : Stored(disk', m) =>
                              disk'.tokens[m].refresh # Grant(proc'[q])
                        /\ \A o \in Procs \ {q} :
                              /\ Pending(proc'[o]) => Grant(proc'[o]) # Grant(proc'[q])
                              /\ proc'[o].entry # None =>
                                    proc'[o].entry.refresh # Grant(proc'[q])
      BY DEF PendingFit
    <3>1. q # p /\ proc'[q] = proc[q] /\ PendingFit(q, proc, live, disk)
      BY <1>4, <1>5, <2>0
    <3>2. /\ Grant(proc[q]) \in live
          /\ \A m \in Networks : Stored(disk, m) => disk.tokens[m].refresh # Grant(proc[q])
          /\ \A o \in Procs \ {q} :
                /\ Pending(proc[o]) => Grant(proc[o]) # Grant(proc[q])
                /\ proc[o].entry # None => proc[o].entry.refresh # Grant(proc[q])
      BY <3>1 DEF PendingFit
    <3>3. \A m \in Networks : Stored(disk', m) => disk'.tokens[m].refresh # Grant(proc[q])
      <4>1. CASE ~Pending(proc[p])
        BY <1>6, <3>2, <4>1 DEF Stored
      <4>2. CASE Pending(proc[p])
        <5>1. Grant(proc[p]) # Grant(proc[q])
          BY <3>1, <3>2, <4>2
        <5> QED BY <1>6, <3>2, <4>2, <5>1 DEF Stored
      <4> QED BY <4>1, <4>2
    <3>4. ASSUME NEW o \in Procs \ {q}
          PROVE  /\ Pending(proc'[o]) => Grant(proc'[o]) # Grant(proc[q])
                 /\ proc'[o].entry # None => proc'[o].entry.refresh # Grant(proc[q])
      <4>1. CASE o = p
        BY <1>3, <1>4, <1>5, <3>2, <4>1 DEF SameRun
      <4>2. CASE o # p
        BY <1>5, <3>2, <4>2
      <4> QED BY <4>1, <4>2
    <3> QED BY <1>1, <3>1, <3>2, <3>3, <3>4
  <2> QED BY <2>1, <2>2, <2>3 DEF Private
<1>10. ASSUME ~Rotates PROVE AllLive(proc', live', disk')
  <2>0. AllLive(proc, live, disk)
    BY <1>0, <1>10 DEF Spending
  <2>1. \A m \in Networks : Stored(disk', m) => disk'.tokens[m].refresh \in live
    <3>1. CASE ~Pending(proc[p])
      BY <1>6, <2>0, <3>1 DEF AllLive, Stored
    <3>2. CASE Pending(proc[p])
      BY <1>6, <2>0, <3>2 DEF AllLive, Stored
    <3> QED BY <3>1, <3>2
  <2>2. ASSUME NEW q \in Procs
        PROVE  /\ proc'[q].entry # None => proc'[q].entry.refresh \in live
               /\ Pending(proc'[q]) => Grant(proc'[q]) \in live
    <3>1. CASE q = p
      BY <1>3, <1>4, <1>5, <2>0, <3>1 DEF AllLive, SameRun
    <3>2. CASE q # p
      BY <1>5, <2>0, <3>2 DEF AllLive
    <3> QED BY <3>1, <3>2
  <2> QED BY <1>1, <2>1, <2>2 DEF AllLive
<1>11. Spending(proc', live', disk')
  BY <1>9, <1>10 DEF Spending
<1>12. StoredTokenLive'
  <2> SUFFICES ASSUME NEW m \in Networks \ lost', disk'.tokens[m] # None
               PROVE  \/ disk'.tokens[m].refresh \in live'
                      \/ \E q \in Procs : /\ Holding(q)' /\ proc'[q].edit.network = m
                                          /\ tokens'[proc'[q].edit.entry.refresh].parent
                                               = disk'.tokens[m].refresh
    BY DEF StoredTokenLive
  <2>1. CASE ~Rotates
    BY <1>11, <2>1, LiveUnspent
  <2>2. CASE Rotates /\ Pending(proc[p]) /\ m = n
    <3>1. Grant(proc[p]) \in live
      BY <1>0, <2>2 DEF Spending, Private, PendingFit
    <3> QED BY <1>1, <1>6, <2>2, <3>1
  <2>3. CASE ~Pending(proc[p]) \/ m # n
    <3>1. disk'.tokens[m] = disk.tokens[m]
      BY <1>6, <2>3
    <3>2. CASE disk.tokens[m].refresh \in live
      BY <1>1, <3>1, <3>2
    <3>3. CASE disk.tokens[m].refresh \notin live
      <4>1. PICK q \in Procs : /\ Holding(q) /\ proc[q].edit.network = m
                               /\ tokens[proc[q].edit.entry.refresh].parent
                                    = disk.tokens[m].refresh
        BY <1>0, <1>1, <3>1, <3>3 DEF StoredTokenLive
      <4>2. q # p
        <5>1. Holding(p) => Pending(proc[p]) /\ proc[p].edit.network = n
          BY <1>7 DEF Holding, Pending, Obtained, EditFit
        <5> QED BY <2>3, <4>1, <5>1
      <4>3. proc'[q] = proc[q] /\ Holding(q)'
        BY <1>5, <4>1, <4>2 DEF Holding
      <4> QED BY <1>1, <3>1, <4>1, <4>3
    <3> QED BY <3>2, <3>3
  <2> QED BY <2>1, <2>2, <2>3
<1> QED BY <1>8, <1>11, <1>12

(* One step, by its action.                                                *)
LEMMA TokenNext ==
    ASSUME TokenInv, [Next]_vars
    PROVE  TokenInv'
<1>0. SaveInv'
  BY SaveNext DEF TokenInv
<1>1. CASE \E p \in Procs :
             \/ Start(p) \/ Check(p) \/ AskFails(p) \/ Rejected(p) \/ DeviceFails(p)
             \/ After(p) \/ Work(p) \/ Done(p) \/ Login(p) \/ Lock(p)
             \/ SaveFails(p) \/ Crash(p)
  BY <1>0, <1>1, LocalInv DEF TokenInv
<1>2. CASE \E p \in Procs : Granted(p) \/ AnswerLost(p)
  BY <1>0, <1>2, GrantInv DEF TokenInv
<1>3. CASE \E p \in Procs : DeviceLogin(p) \/ LoggedIn(p)
  BY <1>0, <1>3, LoginInv DEF TokenInv
<1>4. CASE \E p \in Procs : Save(p)
  BY <1>0, <1>4, SaveTokens DEF TokenInv
<1>5. CASE Age \/ UNCHANGED vars
  <2>1. /\ disk' = disk /\ proc' = proc /\ tokens' = tokens /\ live' = live /\ lost' = lost
        /\ fresh' \subseteq fresh
    BY <1>5 DEF Age, Gateway, vars
  <2>2. Fits'
    BY <2>1 DEF TokenInv, Fits, TokensFit
  <2>3. StoredTokenLive'
    BY <2>1 DEF TokenInv, StoredTokenLive, Holding
  <2>4. Spending(proc', live', disk')
    BY <2>1 DEF TokenInv
  <2> QED BY <1>0, <2>2, <2>3, <2>4 DEF TokenInv
<1> QED BY <1>1, <1>2, <1>3, <1>4, <1>5 DEF Next

(* One login, live and stored.                                             *)
LEMMA TokenInit ==
    ASSUME Init
    PROVE  TokenInv
<1>1. PICK n \in Networks :
        disk = [active |-> n, workers |-> [m \in Networks |-> {}],
                tokens |-> [m \in Networks |->
                              IF m = n THEN [access |-> 1, refresh |-> 1] ELSE None]]
  BY DEF Init
<1>2. /\ tokens = <<[chain |-> "home", at |-> "home", parent |-> None]>>
      /\ live = {1} /\ fresh = {1} /\ lost = {} /\ proc = [p \in Procs |-> Idle]
  BY DEF Init
<1>3. tokens \in Seq(Pair) /\ Len(tokens) = 1 /\ DOMAIN tokens = {1}
      /\ tokens[1].chain = "home" /\ tokens[1].at = "home"
  BY <1>2 DEF Pair, Maybe
<1>4. 1 \in 1 .. MaxTokens /\ 1 <= MaxTokens
  BY CliAssumption
<1>5. TokensFit
  BY <1>2, <1>3, <1>4 DEF TokensFit
<1>6. disk \in Config /\ \A m \in Networks : Stored(disk, m) => disk.tokens[m] = [access |-> 1, refresh |-> 1]
  BY <1>1, <1>4 DEF Config, Maybe, Entry, Stored
<1>7. DiskFit(tokens, disk)
  BY <1>3, <1>6 DEF DiskFit, Known, HomeChain, HomeAccess
<1>8. proc \in [Procs -> Process] /\ \A p \in Procs : proc[p] = Idle
  BY <1>2, IdleForm
<1>9. \A p \in Procs : RunFit(proc[p], tokens, disk) /\ ~Pending(proc[p])
  BY <1>8, IdleForm DEF RunFit, Pending
<1>10. Fits
  BY <1>2, <1>5, <1>7, <1>8, <1>9 DEF Fits
<1>11. \A m \in Networks : Stored(disk, m) => m = n
  BY <1>1 DEF Stored
<1>12. Private(proc, live, disk)
  BY <1>8, <1>9, <1>11, IdleForm DEF Private, DiskApart, UserFit, PendingFit
<1>13. AllLive(proc, live, disk)
  BY <1>2, <1>6, <1>8, <1>9, IdleForm DEF AllLive
<1>14. StoredTokenLive
  BY <1>2, <1>6 DEF StoredTokenLive, Stored
<1> QED BY <1>10, <1>12, <1>13, <1>14, SaveInit DEF TokenInv, Spending

(* The inductive invariant holds throughout.                               *)
LEMMA Invariance == Spec => []TokenInv
BY TokenInit, TokenNext, PTL DEF Spec

(***************************************************************************)
(* However many processes refresh, log in, fail and crash side by side,    *)
(* and whether the gateway rotates or not: no command leaves a spent       *)
(* refresh token in the file for good (persist_refreshed_tokens).          *)
(***************************************************************************)
THEOREM StoredLive == Spec => []StoredTokenLive
<1>1. TokenInv => StoredTokenLive
  BY DEF TokenInv
<1> QED BY <1>1, Invariance, PTL

(***************************************************************************)
(* Nothing a run with --api-url obtains from the other registry is stored. *)
(***************************************************************************)
THEOREM OverrideApart == Spec => []OverrideIsolated
<1>1. TokenInv => OverrideIsolated
  BY DEF TokenInv, Fits, DiskFit, Stored, HomeChain, HomeAccess, OverrideIsolated
<1> QED BY <1>1, Invariance, PTL


(***************************************************************************)
(* Every variable has its type: no file, process or answer ever names a    *)
(* token pair the gateway has not issued, and the lock's holder is one of  *)
(* the processes.                                                          *)
(***************************************************************************)
THEOREM TypesKept == Spec => []TypeOK
<1> DEFINE Holder == lock \in Maybe(Procs)
<1>1. Init => Holder
  BY DEF Init, Maybe
<1>2. Holder /\ [Next]_vars => Holder'
  BY DEF Maybe, Next, vars, Start, Check, AskFails, Granted, AnswerLost, Rejected,
         DeviceLogin, DeviceFails, After, Work, Done, Login, LoggedIn, Lock, Save,
         SaveFails, Crash, Age, Released
<1>3. TokenInv /\ Holder => TypeOK
  BY DEF TokenInv, Fits, TokensFit, DiskFit, TypeOK
<1> QED BY <1>1, <1>2, <1>3, Invariance, PTL DEF Spec
=============================================================================
