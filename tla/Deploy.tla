------------------------------- MODULE Deploy -------------------------------
(***************************************************************************)
(* gmcli's worker commands (cli/src/commands/deploy.rs): deploy, worker    *)
(* add, register-image and worker remove.  Each of them works for minutes  *)
(* over three stores that no transaction joins: the worker records in the  *)
(* shared configuration file, the CVMs of the operator's Phala account and *)
(* the rows of the registry.  Several commands may run at once, and each   *)
(* step may fail, crash or lose its answer.                                *)
(*                                                                         *)
(* App ids, worker ids and node secrets are numbers (0 stands for "none    *)
(* yet", secret 1 is the legacy one).  An app id or a secret that nothing  *)
(* refers to any more is as good as one never used, and is handed out      *)
(* again.  The provider keys are a version number: a worker's slots are    *)
(* derived from the keys it was deployed with.  Saving the file is one     *)
(* step here: what its lock is for is the subject of CliTokens.            *)
(***************************************************************************)
EXTENDS Naturals, Sequences, FiniteSetsExt

CONSTANTS Procs,        \* gmcli processes
          Guided,       \* those whose operator does what the messages say
          Names,        \* CVM names (--app-name)
          First,        \* the name a guided operator deploys as worker #1
          MaxCvms,      \* bound: app ids in use at a time
          MaxRows,      \* bound: rows ever created
          MaxCommands,  \* bound: commands of the unguided processes
          MaxFaults,    \* bound: failures, crashes and lost answers
          MaxKeys,      \* bound: versions of the provider keys
          MaxDrops,     \* bound: workers the registry drops by itself
          None

ASSUME DeployAssumption ==
    /\ Guided \subseteq Procs /\ First \in Names
    /\ {MaxCvms, MaxRows, MaxCommands, MaxFaults, MaxKeys, MaxDrops} \subseteq Nat
    /\ IsFiniteSet(Procs) /\ IsFiniteSet(Names)
    /\ None \notin Names

Legacy == 1
AppIds == 1 .. MaxCvms

\* The fields of WorkerRecord: worker_id, app_id, node_secret, the keys its
\* provider_slots were derived from, and provisional_secondary.
WorkerRecords == [worker : Nat, app : Nat, secret : Nat, slots : Nat, secondary : BOOLEAN]

\* A CVM has its name, the secret it enforces and the keys it holds.
Cvms == [name : Names, secret : Nat, keys : Nat]

NoCvms == [a \in AppIds |-> None]

\* A row of the registry: its CVM, the node secret and whether one was sent,
\* the slots advertised, and whether the row is live.
Rows == [cvm : Nat, secret : Nat, sent : BOOLEAN, slots : Nat, live : BOOLEAN]

ASSUME NoneAssumption == None \notin WorkerRecords \cup Cvms

VARIABLES recs,     \* name -> WorkerRecord or None
          legacy,   \* the network-level secret of an old config, or 0
          cvms,     \* app id -> CVM
          rows,     \* worker id -> registry row; ids ascend with age
          keys,     \* version of the provider keys in the config
          proc,     \* the gmcli processes
          released, \* history: secrets of workers removed or taken over
          used      \* how much of the bounds is used

vars == <<recs, legacy, cvms, rows, keys, proc, released, used>>

-----------------------------------------------------------------------------
(* What the three stores hold.                                             *)

WorkerRecord(worker, app, secret, slots, secondary) ==
    [worker |-> worker, app |-> app, secret |-> secret, slots |-> slots,
     secondary |-> secondary]

Tracked(n) == recs[n] # None

\* NetworkEntry::upsert_worker: the record takes the place of the one with its
\* name and of the one with its worker id; the legacy secret is cleared.
Upserted(n, r) ==
    [m \in Names |-> IF m = n THEN r
                     ELSE IF r.worker # 0 /\ recs[m] # None /\ recs[m].worker = r.worker THEN None
                     ELSE recs[m]]

Live == {w \in DOMAIN rows : rows[w].live}

\* first_live_worker_id: the oldest live row.
FirstLive == IF Live = {} THEN 0 ELSE Min(Live)

\* A dropped worker's record taken for a secondary one.
IsSecondaryByPosition(r) ==
    IF r.worker = 0 THEN r.secondary ELSE r.worker # FirstLive

\* is_secondary_live.
IsSecondary(r) ==
    IF r.worker = 0 THEN r.secondary
    ELSE r.worker \in Live /\ r.worker # FirstLive

\* find_phala_cvm_app_id_by_name.
Up == {a \in AppIds : cvms[a] # None}
NamedCvms(n) == {a \in Up : cvms[a].name = n}

-----------------------------------------------------------------------------
(* The processes.                                                          *)

\* A command is at pc, works on name, and knows the record it saw and the one
\* it writes.
Sessions ==
    [pc : {"idle", "guard", "name", "prepare", "launch", "boot", "app", "register", "save",
           "image", "post", "imagesave", "drop", "delete", "forget"},
     name : Names \cup {None}, add : BOOLEAN, seen : WorkerRecords \cup {None},
     legacy : {0, Legacy}, keys : Nat, rec : WorkerRecords \cup {None}, app : Nat, id : Nat]

Idle == [pc |-> "idle", name |-> None, add |-> FALSE, seen |-> None, legacy |-> 0,
         keys |-> 0, rec |-> None, app |-> 0, id |-> 0]

\* legacy_node_secret: only while no worker is tracked.
LegacySecret == IF \E n \in Names : Tracked(n) THEN 0 ELSE legacy

\* A command works with the configuration it loaded when it started.
Loaded(n, r) == [Idle EXCEPT !.name = n, !.seen = r, !.legacy = LegacySecret]

Goes(p, to) == proc' = [proc EXCEPT ![p] = to]
Ends(p) == Goes(p, Idle)

At(p, pc) == proc[p].pc = pc

\* An operator does not work on one CVM name with two commands at once, worker
\* remove aside, and tears down no CVM a running command is working on.
Busy(n) == \E p \in Procs : proc[p].name = n /\ proc[p].pc \notin {"drop", "delete", "forget"}

Init ==
    /\ recs = [n \in Names |-> None]
    /\ \/ legacy = 0 /\ cvms = NoCvms /\ rows = <<>>
       \/ /\ legacy = Legacy
          /\ cvms = [NoCvms EXCEPT ![1] = [name |-> First, secret |-> Legacy, keys |-> 1]]
          /\ rows = <<[cvm |-> 1, secret |-> Legacy, sent |-> TRUE, slots |-> 0, live |-> TRUE]>>
    /\ keys = 1 /\ released = {}
    /\ proc = [p \in Procs |-> Idle]
    /\ used = [commands |-> 0, faults |-> 0, drops |-> 0]

\* The worker a name stands for is registered, live and running.
Serving(n) == /\ Tracked(n) /\ recs[n].worker \in Live
              /\ rows[recs[n].worker].cvm \in NamedCvms(n)

\* What the error messages tell an operator who wants the worker First served:
\* remove a record that is in the way, tear down a CVM that holds the name, and
\* repeat the deploy.
Advice(n) ==
    IF n # First \/ Serving(n) THEN {}
    ELSE IF Tracked(n) /\ IsSecondary(recs[n]) THEN {"remove"}
    ELSE IF NamedCvms(n) # {} THEN {"teardown"}
    ELSE {"deploy"}

MayStart(p, n, what) ==
    /\ At(p, "idle")
    /\ IF p \in Guided THEN what \in Advice(n) ELSE used.commands < MaxCommands

Counts(p) == used' = IF p \in Guided THEN used ELSE [used EXCEPT !.commands = @ + 1]

-----------------------------------------------------------------------------
(* deploy and worker add                                                   *)

\* cmd_deploy_subcommand.
StartDeploy(p, n) ==
    /\ MayStart(p, n, "deploy") /\ ~Busy(n)
    /\ Goes(p, [Loaded(n, recs[n]) EXCEPT !.pc = "guard", !.keys = keys])
    /\ Counts(p)
    /\ UNCHANGED <<recs, legacy, cvms, rows, keys, released>>

\* A registered name accepted again.
MayAddAgain(n) ==
    /\ \E m \in Names : Tracked(m)
    /\ rows # <<>>

\* cmd_worker_add: worker #1 is tracked, the name is free or belongs to a
\* worker add that has launched nothing, and the hotkey is registered.
MayAdd(n) ==
    /\ \E m \in Names : Tracked(m)
    /\ Tracked(n) => recs[n].worker = 0 /\ recs[n].app = 0 /\ recs[n].secondary
    /\ rows # <<>>

StartAdd(p, n) ==
    /\ MayStart(p, n, "add") /\ ~Busy(n) /\ MayAdd(n)
    /\ Goes(p, [Loaded(n, recs[n]) EXCEPT !.pc = "guard", !.keys = keys, !.add = TRUE])
    /\ Counts(p)
    /\ UNCHANGED <<recs, legacy, cvms, rows, keys, released>>

\* reject_secondary_worker_deploy: deploy is for worker #1 only, as the
\* registry's live rows define it.
Guard(p) ==
    /\ At(p, "guard")
    /\ IF ~proc[p].add /\ proc[p].seen # None /\ IsSecondary(proc[p].seen)
       THEN Ends(p)
       ELSE Goes(p, [proc[p] EXCEPT !.pc = "name"])
    /\ UNCHANGED <<recs, legacy, cvms, rows, keys, used, released>>

\* preflight_cvm_name.
CheckName(p) ==
    /\ At(p, "name")
    /\ IF NamedCvms(proc[p].name) # {} THEN Ends(p)
       ELSE Goes(p, [proc[p] EXCEPT !.pc = "prepare"])
    /\ UNCHANGED <<recs, legacy, cvms, rows, keys, used, released>>

\* The secrets and app ids something still refers to.
SecretsInUse ==
    {recs[n].secret : n \in {n \in Names : Tracked(n)}} \cup {cvms[a].secret : a \in Up}
      \cup {rows[w].secret : w \in Live} \cup {legacy, Legacy}
      \cup {proc[p].rec.secret : p \in {p \in Procs : proc[p].rec # None}}
      \cup {proc[p].seen.secret : p \in {p \in Procs : proc[p].seen # None}}

AppsInUse ==
    {recs[n].app : n \in {n \in Names : Tracked(n)}} \cup Up \cup {rows[w].cvm : w \in Live}
      \cup {proc[p].rec.app : p \in {p \in Procs : proc[p].rec # None}}
      \cup {proc[p].app : p \in Procs}

\* node_secret::generate.
Fresh == Min((1 .. Cardinality(SecretsInUse) + 1) \ SecretsInUse)

\* node_secret::for_worker: the secret of the record, else (deploy only) the
\* legacy one, else a fresh one.
KnownSecret(s) ==
    IF s.seen # None THEN s.seen.secret ELSE IF s.add THEN 0 ELSE s.legacy

\* Saving a record may take over the record of the worker with its id: the
\* secret of that record is let go.
TakesOver(n, r) ==
    {recs[m].secret : m \in {m \in Names \ {n} : /\ Tracked(m) /\ r.worker # 0
                                                 /\ recs[m].worker = r.worker}}

\* persist_worker_record.
Persist(n, r) ==
    /\ recs' = Upserted(n, r) /\ legacy' = 0
    /\ released' = released \cup TakesOver(n, r)

\* The same for a fresh secret, which nobody has let go of yet.
PersistFresh(n, r) ==
    /\ recs' = Upserted(n, r) /\ legacy' = 0
    /\ released' = (released \cup TakesOver(n, r)) \ {r.secret}

\* The fresh secret kept in memory until the worker is registered.
PrepareUnsaved(p) ==
    LET s == proc[p]
        fresh == KnownSecret(s) = 0
        r == WorkerRecord(IF s.seen = None THEN 0 ELSE s.seen.worker, 0,
                          IF fresh THEN Fresh ELSE KnownSecret(s), s.keys, s.add)
    IN /\ At(p, "prepare")
       /\ UNCHANGED <<recs, legacy, released>>
       /\ Goes(p, [Idle EXCEPT !.pc = "launch", !.name = s.name, !.add = s.add, !.rec = r,
                               !.keys = s.keys])
       /\ UNCHANGED <<cvms, rows, keys, used>>

\* The slots of the old record kept over a redeploy with other keys.
PrepareStaleSlots(p) ==
    LET s == proc[p]
        fresh == KnownSecret(s) = 0
        r == WorkerRecord(IF s.seen = None THEN 0 ELSE s.seen.worker, 0,
                          IF fresh THEN Fresh ELSE KnownSecret(s),
                          IF s.seen = None THEN s.keys ELSE s.seen.slots, s.add)
    IN /\ At(p, "prepare")
       /\ IF fresh THEN PersistFresh(s.name, r) ELSE UNCHANGED <<recs, legacy, released>>
       /\ Goes(p, [Idle EXCEPT !.pc = "launch", !.name = s.name, !.add = s.add, !.rec = r,
                               !.keys = s.keys])
       /\ UNCHANGED <<cvms, rows, keys, used>>

\* prepare_worker_record: a fresh secret is on disk before any CVM depends on
\* it; a known one is there already.
Prepare(p) ==
    LET s == proc[p]
        fresh == KnownSecret(s) = 0
        r == WorkerRecord(IF s.seen = None THEN 0 ELSE s.seen.worker, 0,
                          IF fresh THEN Fresh ELSE KnownSecret(s), s.keys, s.add)
    IN /\ At(p, "prepare")
       /\ IF fresh THEN PersistFresh(s.name, r) ELSE UNCHANGED <<recs, legacy, released>>
       /\ Goes(p, [Idle EXCEPT !.pc = "launch", !.name = s.name, !.add = s.add, !.rec = r,
                               !.keys = s.keys])
       /\ UNCHANGED <<cvms, rows, keys, used>>

\* phala deploy: Phala refuses a name that is taken.
Launch(p) ==
    LET s == proc[p]
    IN /\ At(p, "launch")
       /\ IF NamedCvms(s.name) # {} THEN Ends(p) /\ UNCHANGED cvms
          ELSE /\ AppIds \ AppsInUse # {}
               /\ cvms' = [cvms EXCEPT ![Min(AppIds \ AppsInUse)] =
                              [name |-> s.name, secret |-> s.rec.secret, keys |-> s.keys]]
               /\ Goes(p, [s EXCEPT !.pc = "boot", !.keys = 0])
       /\ UNCHANGED <<recs, legacy, rows, keys, used, released>>

\* read_phala_cvm_outcome: the hashes, the endpoint and the app id of the CVM
\* with this name, once it reports them all.
Outcomes(n) == NamedCvms(n)

\* poll_phala_cvm_outcome looks the CVM up by its name.
Boot(p) ==
    /\ At(p, "boot")
    /\ \E a \in Outcomes(proc[p].name) :
         Goes(p, [proc[p] EXCEPT !.pc = "app", !.rec.app = a])
    /\ UNCHANGED <<recs, legacy, cvms, rows, keys, used, released>>

\* The app id is saved before anything that can still fail.
SaveApp(p) ==
    /\ At(p, "app")
    /\ Persist(proc[p].name, proc[p].rec)
    /\ Goes(p, [proc[p] EXCEPT !.pc = "register"])
    /\ UNCHANGED <<cvms, rows, keys, used>>

\* The registry's answer to POST /miners/register: the oldest live row is
\* rewritten, or the first one created.  A secret that is not sent stays.
Registered(app, secret, slots) ==
    LET w == FirstLive
        row == [cvm |-> app, sent |-> secret # 0, slots |-> slots, live |-> TRUE,
                secret |-> IF secret # 0 \/ w = 0 THEN secret ELSE rows[w].secret]
    IN /\ w = 0 => Len(rows) < MaxRows
       /\ rows' = IF w = 0 THEN Append(rows, row) ELSE [rows EXCEPT ![w] = row]

RegisteredId == IF FirstLive = 0 THEN Len(rows) + 1 ELSE FirstLive

\* post_add_worker: a row of its own.
Attached(row) == Len(rows) < MaxRows /\ rows' = Append(rows, row)

\* register_worker, after verify_hashes: the hashes and the terms go with it.
Register(p) ==
    LET s == proc[p]
        row == [cvm |-> s.rec.app, sent |-> TRUE, slots |-> s.rec.slots, live |-> TRUE,
                secret |-> s.rec.secret]
    IN /\ At(p, "register")
       /\ IF s.add THEN Attached(row)
          ELSE Registered(s.rec.app, s.rec.secret, s.rec.slots)
       /\ Goes(p, [s EXCEPT !.pc = "save", !.rec.secondary = FALSE,
                            !.rec.worker = IF s.add THEN Len(rows) + 1 ELSE RegisteredId])
       /\ UNCHANGED <<recs, legacy, cvms, keys, used, released>>

SaveWorker(p) ==
    /\ At(p, "save")
    /\ Persist(proc[p].name, proc[p].rec)
    /\ Ends(p)
    /\ UNCHANGED <<cvms, rows, keys, used>>

-----------------------------------------------------------------------------
(* register-image                                                          *)

\* worker_by_app_id, and the name the record will be saved under.
ImageName(a) == IF \E n \in Names : Tracked(n) /\ recs[n].app = a
                THEN CHOOSE n \in Names : Tracked(n) /\ recs[n].app = a
                ELSE cvms[a].name

ImageRecord(a) == IF \E n \in Names : Tracked(n) /\ recs[n].app = a
                  THEN recs[ImageName(a)] ELSE None

StartImage(p, a) ==
    /\ MayStart(p, First, "image") /\ ~Busy(ImageName(a))
    /\ Goes(p, [Loaded(ImageName(a), ImageRecord(a)) EXCEPT !.pc = "image", !.app = a])
    /\ Counts(p)
    /\ UNCHANGED <<recs, legacy, cvms, rows, keys, released>>

\* register_image_context.
ImageGuard(p) ==
    /\ At(p, "image")
    /\ IF proc[p].seen # None /\ IsSecondary(proc[p].seen) THEN Ends(p)
       ELSE Goes(p, [proc[p] EXCEPT !.pc = "post"])
    /\ UNCHANGED <<recs, legacy, cvms, rows, keys, used, released>>

\* The slots of the current keys advertised for a CVM that holds older ones.
ImagePostCurrent(p) ==
    LET s == proc[p]
        secret == IF s.seen # None THEN s.seen.secret ELSE s.legacy
        slots == keys
    IN /\ At(p, "post")
       /\ Registered(s.app, secret, slots)
       /\ Goes(p, [Idle EXCEPT !.pc = "imagesave", !.name = s.name,
                               !.rec = WorkerRecord(RegisteredId, s.app, secret, slots, FALSE)])
       /\ UNCHANGED <<recs, legacy, cvms, keys, used, released>>

\* The recorded secret and slots are sent again, never the current keys'; an
\* untracked CVM sends the legacy secret or none, and no slots.
ImagePost(p) ==
    LET s == proc[p]
        secret == IF s.seen # None THEN s.seen.secret ELSE s.legacy
        slots == IF s.seen # None THEN s.seen.slots ELSE 0
    IN /\ At(p, "post")
       /\ Registered(s.app, secret, slots)
       /\ Goes(p, [Idle EXCEPT !.pc = "imagesave", !.name = s.name,
                               !.rec = WorkerRecord(RegisteredId, s.app, secret, slots, FALSE)])
       /\ UNCHANGED <<recs, legacy, cvms, keys, used, released>>

ImageSave(p) ==
    /\ At(p, "imagesave")
    /\ IF proc[p].rec.secret # 0 THEN Persist(proc[p].name, proc[p].rec)
       ELSE UNCHANGED <<recs, legacy, released>>
    /\ Ends(p)
    /\ UNCHANGED <<cvms, rows, keys, used>>

-----------------------------------------------------------------------------
(* worker remove                                                           *)

\* cmd_worker_remove: a record without a worker id is only local.
StartRemove(p, n) ==
    /\ MayStart(p, n, "remove") /\ Tracked(n)
    /\ Goes(p, [Idle EXCEPT !.pc = IF recs[n].worker = 0 THEN "drop" ELSE "delete",
                            !.name = n, !.id = recs[n].worker])
    /\ Counts(p)
    /\ UNCHANGED <<recs, legacy, cvms, rows, keys, released>>

\* remove_provisional_worker, on the file as it is under the lock.
Drop(p) ==
    LET n == proc[p].name
        matches == Tracked(n) /\ recs[n].worker = 0
    IN /\ At(p, "drop")
       /\ recs' = IF matches THEN [recs EXCEPT ![n] = None] ELSE recs
       /\ released' = IF matches THEN released \cup {recs[n].secret} ELSE released
       /\ Ends(p)
       /\ UNCHANGED <<legacy, cvms, rows, keys, used>>

\* DELETE /miners/{hotkey}/workers/{worker_id}; a row that is gone is refused.
Delete(p) ==
    LET w == proc[p].id
    IN /\ At(p, "delete")
       /\ IF w \in Live
          THEN rows' = [rows EXCEPT ![w].live = FALSE] /\ Goes(p, [proc[p] EXCEPT !.pc = "forget"])
          ELSE Ends(p) /\ UNCHANGED rows
       /\ UNCHANGED <<recs, legacy, cvms, keys, used, released>>

\* remove_worker_by_id.
Forget(p) ==
    LET gone == {n \in Names : Tracked(n) /\ recs[n].worker = proc[p].id}
    IN /\ At(p, "forget")
       /\ recs' = [n \in Names |-> IF n \in gone THEN None ELSE recs[n]]
       /\ released' = released \cup {recs[n].secret : n \in gone}
       /\ Ends(p)
       /\ UNCHANGED <<legacy, cvms, rows, keys, used>>

-----------------------------------------------------------------------------
(* Faults and the world outside                                            *)

\* Any step may fail, time out, lose its answer or be cut off by a crash: the
\* command ends where it is.
Fail(p) ==
    /\ ~At(p, "idle") /\ used.faults < MaxFaults
    /\ used' = [used EXCEPT !.faults = @ + 1]
    /\ Ends(p)
    /\ UNCHANGED <<recs, legacy, cvms, rows, keys, released>>

\* phala cvms delete, by the operator.
TearDown(p, a) ==
    /\ MayStart(p, cvms[a].name, "teardown") /\ ~Busy(cvms[a].name)
    /\ cvms' = [cvms EXCEPT ![a] = None]
    /\ Counts(p)
    /\ UNCHANGED <<recs, legacy, rows, keys, proc, released>>

\* The registry drops a worker it cannot reach any more.
Deregister(w) ==
    /\ w \in Live /\ used.drops < MaxDrops
    /\ rows' = [rows EXCEPT ![w].live = FALSE]
    /\ used' = [used EXCEPT !.drops = @ + 1]
    /\ UNCHANGED <<recs, legacy, cvms, keys, proc, released>>

\* gmcli set-api-keys: the keys a later deploy takes with it.
SetKeys(p) ==
    /\ MayStart(p, First, "set-api-keys") /\ keys < MaxKeys
    /\ keys' = keys + 1
    /\ Counts(p)
    /\ UNCHANGED <<recs, legacy, cvms, rows, proc, released>>

Steps(p) ==
    \/ Guard(p) \/ CheckName(p) \/ Prepare(p) \/ Launch(p) \/ Boot(p) \/ SaveApp(p)
    \/ Register(p) \/ SaveWorker(p) \/ ImageGuard(p) \/ ImagePost(p) \/ ImageSave(p)
    \/ Drop(p) \/ Delete(p) \/ Forget(p)

Starts(p) ==
    \/ \E n \in Names : StartDeploy(p, n) \/ StartAdd(p, n) \/ StartRemove(p, n)
    \/ \E a \in Up : StartImage(p, a) \/ TearDown(p, a)
    \/ SetKeys(p)

Next ==
    \/ \E p \in Procs : Steps(p) \/ Starts(p) \/ Fail(p)
    \/ \E w \in DOMAIN rows : Deregister(w)

Spec == Init /\ [][Next]_vars

\* A started command runs on, and a guided operator goes on with what the
\* messages say.
FairSpec == Spec /\ \A p \in Procs : /\ WF_vars(Steps(p))
                                     /\ p \in Guided => WF_vars(Starts(p))

-----------------------------------------------------------------------------
(* Properties                                                              *)

\* Every variable has its type.
TypeOK ==
    /\ recs \in [Names -> WorkerRecords \cup {None}]
    /\ legacy \in {0, Legacy}
    /\ cvms \in [AppIds -> Cvms \cup {None}]
    /\ rows \in Seq(Rows)
    /\ keys \in Nat
    /\ proc \in [Procs -> Sessions]
    /\ released \subseteq Nat
    /\ used \in [commands : Nat, faults : Nat, drops : Nat]

\* A worker record names the secret and the keys of the very CVM it names: what
\* a recovery sends again is what that CVM enforces and holds.
RecordsTrue ==
    \A n \in Names : Tracked(n) /\ recs[n].app \in Up =>
        LET c == cvms[recs[n].app]
        IN recs[n].secret = c.secret /\ recs[n].slots \in {0, c.keys}

\* What a command sent to the registry for an endpoint is true of the CVM behind
\* it: its node secret, and the provider slots it holds.
RowsTrue ==
    \A w \in {w \in Live : rows[w].cvm \in Up} :
                    /\ rows[w].sent => rows[w].secret = cvms[rows[w].cvm].secret
                    /\ rows[w].slots \in {0, cvms[rows[w].cvm].keys}

\* Two live workers never share a node secret.
RowsApart == \A v, w \in Live : v # w => rows[v].secret # rows[w].secret \/ rows[v].secret = 0

\* The secret a running CVM enforces is on record until its operator removes the
\* worker or another CVM takes over its row, whatever fails after the launch.
SecretKept ==
    \A a \in Up : \/ cvms[a].secret \in released \cup {legacy}
                 \/ \E n \in Names : Tracked(n) /\ recs[n].secret = cvms[a].secret

\* An operator who does what the messages say gets the worker served, however
\* often a command failed half way, whatever the registry dropped and whatever
\* another session did in between: no half-finished deploy leaves a dead end.
Recovers == <>[]Serving(First)
=============================================================================
