----------------------------- MODULE CliTokens -----------------------------
(***************************************************************************)
(* Several gmcli processes that share one configuration file and, in it,   *)
(* one login per network whose refresh token the auth gateway rotates      *)
(* (cli: config.rs, auth.rs, commands/persist.rs).                         *)
(*                                                                         *)
(* A process loads the file without the lock, refreshes its token over the *)
(* network, and writes what it changed under the lock, after loading the   *)
(* file again.  It may crash anywhere, and so may an answer be lost.       *)
(***************************************************************************)
EXTENDS Naturals, Sequences

CONSTANTS
    Procs,          \* gmcli processes
    Networks,       \* mainnet, testnet
    Workers,        \* app names of workers
    Rotates,        \* whether the gateway rotates refresh tokens
    MaxTokens,      \* bound on the token pairs the gateway issues
    None

MaxAttempts == 2

ASSUME CliAssumption ==
    /\ MaxTokens \in Nat \ {0}
    /\ None \notin Networks /\ None \notin Nat /\ None \notin Workers
    /\ None \notin Procs /\ None \notin [access : Nat, refresh : Nat]
    /\ Rotates \in BOOLEAN

VARIABLES
    disk,       \* config.json
    lock,       \* who holds the lock file, or None
    proc,       \* the processes
    tokens,     \* every token pair issued, in order; a pair is named by its index
    live,       \* the refresh tokens the gateway accepts
    fresh,      \* the access tokens outside the expiry margin
    lost        \* history: networks a grant of whose login never reached the file

vars == <<disk, lock, proc, tokens, live, fresh, lost>>

-----------------------------------------------------------------------------
(* Records                                                                 *)

(* TokenEntry: the pairs its access and its refresh token come from.       *)
Entry == [access : 1 .. MaxTokens, refresh : 1 .. MaxTokens]

Maybe(S) == S \cup {None}

(* A token pair: whose login it descends from, the registry it was issued  *)
(* for, and the refresh token it was traded for.                           *)
Pair == [chain : {"home", "override"}, at : {"home", "override"},
         parent : Maybe(1 .. MaxTokens)]

NoEdit == [kind |-> "none", network |-> None, entry |-> None, worker |-> None]

Idle ==
    [pc |-> "idle", override |-> FALSE, network |-> None,
     entry |-> None, attempt |-> 0, follows |-> TRUE, edit |-> NoEdit,
     image |-> None, then |-> "idle"]

Init ==
    \E n \in Networks :
    /\ disk = [active |-> n, workers |-> [m \in Networks |-> {}],
               tokens |-> [m \in Networks |->
                             IF m = n THEN [access |-> 1, refresh |-> 1] ELSE None]]
    /\ lock = None
    /\ proc = [p \in Procs |-> Idle]
    /\ tokens = <<[chain |-> "home", at |-> "home", parent |-> None]>>
    /\ live = {1}
    /\ fresh = {1}
    /\ lost = {}

Set(p, r) == proc' = [proc EXCEPT ![p] = r]

Gateway == <<tokens, live>>

-----------------------------------------------------------------------------
(* The file: with_config_lock(load, change, save)                          *)

(***************************************************************************)
(* What each persist function changes in the file it has just loaded:      *)
(* persist_active_network, persist_active_tokens,                          *)
(* persist_rotated_refresh_token, persist_login, persist_worker_record,    *)
(* remove_provisional_worker and cmd_worker_remove.  The settings (keys,   *)
(* hotkey, terms, Phala key) are written the same way, each a field of its *)
(* own, and are left out.  A network's entry, once there, is never removed.*)
(***************************************************************************)
Edited(d, e) ==
    CASE e.kind = "network" -> [d EXCEPT !.active = e.network]
      [] e.kind = "tokens"  -> [d EXCEPT !.tokens[e.network] = e.entry]
      [] e.kind = "rotated" -> [d EXCEPT !.tokens[e.network].refresh = e.entry.refresh]
      [] e.kind = "login"   -> [d EXCEPT !.tokens[e.network] = e.entry,
                                         !.active = e.network]
      [] e.kind = "worker"  -> [d EXCEPT !.workers[e.network] = @ \cup {e.worker},
                                         !.active = e.network]
      [] e.kind = "remove"  -> [d EXCEPT !.workers[e.network] = @ \ {e.worker},
                                         !.active = e.network]

(* Mutant: the file is read and written without the lock.                  *)
LockIgnored == TRUE

LockFree == lock = None

(* The lock is taken and the file loaded again.                            *)
Lock(p) ==
    /\ proc[p].pc = "save"
    /\ LockFree
    /\ lock' = p
    /\ Set(p, [proc[p] EXCEPT !.pc = "locked", !.image = Edited(disk, proc[p].edit)])
    /\ UNCHANGED <<disk, fresh, lost>> /\ UNCHANGED Gateway

(* The temporary file is renamed over the configuration.                   *)
Save(p) ==
    /\ proc[p].pc = "locked"
    /\ disk' = proc[p].image
    /\ lock' = None
    /\ Set(p, [proc[p] EXCEPT !.pc = proc[p].then, !.edit = NoEdit, !.image = None])
    /\ UNCHANGED <<fresh, lost>> /\ UNCHANGED Gateway

Released(p) == lock' = IF lock = p THEN None ELSE lock

(* A grant on the stored login that p has and the file has not.            *)
Holding(p) ==
    /\ proc[p].pc \in {"save", "locked"}
    /\ proc[p].edit.kind \in {"tokens", "rotated"}

Loses(p) == lost' = IF Holding(p) THEN lost \cup {proc[p].edit.network} ELSE lost

(* The lock or the write fails and the command ends.  doctor only warns,   *)
(* and then has nothing more to write either.                              *)
SaveFails(p) ==
    /\ proc[p].pc \in {"save", "locked"}
    /\ Released(p) /\ Loses(p)
    /\ Set(p, Idle)
    /\ UNCHANGED <<disk, fresh>> /\ UNCHANGED Gateway

(* The process is killed; the system drops its lock.                       *)
Crash(p) ==
    /\ proc[p].pc # "idle"
    /\ Released(p) /\ Loses(p)
    /\ Set(p, Idle)
    /\ UNCHANGED <<disk, fresh>> /\ UNCHANGED Gateway

-----------------------------------------------------------------------------
(* A command: load_config, then ensure_fresh_token or try_refresh_token    *)

(***************************************************************************)
(* The file is loaded without the lock.  A network named on the command    *)
(* line is saved as the selection first; --api-url is for this run only.   *)
(***************************************************************************)
Start(p) ==
    /\ proc[p].pc = "idle"
    /\ \E override \in BOOLEAN, explicit \in Maybe(Networks) :
          LET n == IF explicit = None THEN disk.active ELSE explicit
              r == [Idle EXCEPT !.pc = "check", !.override = override, !.network = n,
                                !.entry = disk.tokens[n]]
          IN  Set(p, IF n = disk.active THEN r
                     ELSE [r EXCEPT !.pc = "save", !.then = "check",
                             !.edit = [NoEdit EXCEPT !.kind = "network", !.network = n]])
    /\ UNCHANGED <<disk, lock, fresh, lost>> /\ UNCHANGED Gateway

(* The command goes on with the network it was started with and has no more*)
(* use for its token's history.                                            *)
Proceeds(p) == Set(p, [Idle EXCEPT !.pc = "work", !.network = proc[p].network])

(* is_expired_or_near of the token in memory                               *)
NeedsRefresh(p) == proc[p].entry # None /\ proc[p].entry.access \notin fresh

(* The token is fetched again only if it is near its expiry.               *)
Check(p) ==
    /\ proc[p].pc = "check"
    /\ IF NeedsRefresh(p) THEN Set(p, [proc[p] EXCEPT !.pc = "ask"]) ELSE Proceeds(p)
    /\ UNCHANGED <<disk, lock, fresh, lost>> /\ UNCHANGED Gateway

(***************************************************************************)
(* /auth/config or the token endpoint cannot be reached, or every attempt  *)
(* was answered 429: nothing has changed at the gateway.                   *)
(***************************************************************************)
AskFails(p) ==
    /\ proc[p].pc = "ask"
    /\ Set(p, Idle)
    /\ UNCHANGED <<disk, lock, fresh, lost>> /\ UNCHANGED Gateway

(* The gateway issues a pair, which may already be near its expiry.        *)
Issues(pair) ==
    /\ Len(tokens) < MaxTokens
    /\ tokens' = Append(tokens, pair)
    /\ fresh' \in {fresh, fresh \cup {Len(tokens) + 1}}

Registry(p) == IF proc[p].override THEN "override" ELSE "home"

(* The refresh grant, as the gateway carries it out.                       *)
Grants(p) ==
    LET r == proc[p].entry.refresh IN
    /\ proc[p].pc = "ask"
    /\ r \in live
    /\ Issues([chain |-> tokens[r].chain, at |-> Registry(p), parent |-> r])
    /\ live' = IF Rotates THEN (live \ {r}) \cup {Len(tokens) + 1} ELSE live

(* Mutant: only the last attempt counts.                                   *)
FollowsLast(p, grant) == grant

(* follows_stored_refresh: no device login so far in this run.             *)
StillFollows(p, grant) == proc[p].follows /\ grant

(* Mutant: a run with --api-url stores nothing of what it obtains.         *)
PersistsNoRotation(p, entry, follows) ==
    LET r == [proc[p] EXCEPT !.entry = entry, !.follows = follows]
        e == [NoEdit EXCEPT !.network = proc[p].network, !.entry = entry]
    IN
    Set(p, IF proc[p].override THEN [r EXCEPT !.pc = "after"]
           ELSE [r EXCEPT !.pc = "save", !.then = "after",
                   !.edit = [e EXCEPT !.kind = "tokens"]])

(***************************************************************************)
(* persist_refreshed_tokens: with --api-url, only a refresh token of the   *)
(* stored login's own chain is written, and nothing else of the entry.     *)
(***************************************************************************)
Persists(p, entry, follows) ==
    LET r == [proc[p] EXCEPT !.entry = entry, !.follows = follows]
        e == [NoEdit EXCEPT !.network = proc[p].network, !.entry = entry]
    IN
    Set(p, IF proc[p].override /\ ~follows THEN [r EXCEPT !.pc = "after"]
           ELSE [r EXCEPT !.pc = "save", !.then = "after",
                   !.edit = [e EXCEPT !.kind = IF proc[p].override THEN "rotated"
                                                                   ELSE "tokens"]])

(* The answer arrives; without rotation the old refresh token is kept.     *)
Granted(p) ==
    LET t == Len(tokens) + 1 IN
    /\ Grants(p)
    /\ Persists(p, [access |-> t,
                    refresh |-> IF Rotates THEN t ELSE proc[p].entry.refresh],
                StillFollows(p, TRUE))
    /\ UNCHANGED <<disk, lock, lost>>

(* The grant is carried out and its answer lost.                           *)
AnswerLost(p) ==
    /\ Grants(p)
    /\ Set(p, Idle)
    /\ lost' = lost \cup {proc[p].network}
    /\ UNCHANGED <<disk, lock>>

(***************************************************************************)
(* The gateway declines: the token is not its own or no longer live, or it *)
(* answers 5xx.  A command falls back to the device login; doctor ends.    *)
(***************************************************************************)
Rejected(p) ==
    /\ proc[p].pc = "ask"
    /\ Set(p, Idle) \/ Set(p, [proc[p] EXCEPT !.pc = "device"])
    /\ UNCHANGED <<disk, lock, fresh, lost>> /\ UNCHANGED Gateway

(* A device login starts a chain of its own at the registry it is for.     *)
NewLogin(p) ==
    /\ Issues([chain |-> Registry(p), at |-> Registry(p), parent |-> None])
    /\ live' = live \cup {Len(tokens) + 1}

NewEntry == [access |-> Len(tokens) + 1, refresh |-> Len(tokens) + 1]

DeviceLogin(p) ==
    /\ proc[p].pc = "device"
    /\ NewLogin(p)
    /\ Persists(p, NewEntry, StillFollows(p, FALSE))
    /\ UNCHANGED <<disk, lock, lost>>

(* The code expires, is denied, or the endpoint fails.                     *)
DeviceFails(p) ==
    /\ proc[p].pc \in {"device", "login"}
    /\ Set(p, Idle)
    /\ UNCHANGED <<disk, lock, fresh, lost>> /\ UNCHANGED Gateway

MayRetry(p) == proc[p].attempt + 1 < MaxAttempts

(***************************************************************************)
(* A token issued near an epoch's end is still near its expiry: once, wait *)
(* for the next epoch and refresh again.                                   *)
(***************************************************************************)
After(p) ==
    /\ proc[p].pc = "after"
    /\ \/ /\ ~NeedsRefresh(p)
          /\ Proceeds(p)
       \/ /\ NeedsRefresh(p)
          /\ IF MayRetry(p)
             THEN Set(p, [proc[p] EXCEPT !.pc = "check", !.attempt = @ + 1])
             ELSE Set(p, Idle)
    /\ UNCHANGED <<disk, lock, fresh, lost>> /\ UNCHANGED Gateway

-----------------------------------------------------------------------------
(* What commands then write                                                *)

(* deploy and worker commands on the network they were started with; a     *)
(* deploy comes back here between its records.  What the registry says of  *)
(* the command is left open.                                               *)
Work(p) ==
    /\ proc[p].pc = "work"
    /\ \E kind \in {"worker", "remove"}, w \in Workers :
          Set(p, [proc[p] EXCEPT !.pc = "save", !.then = "work",
                    !.edit = [NoEdit EXCEPT !.kind = kind, !.worker = w,
                                            !.network = proc[p].network]])
    /\ UNCHANGED <<disk, lock, fresh, lost>> /\ UNCHANGED Gateway

Done(p) ==
    /\ proc[p].pc = "work"
    /\ Set(p, Idle)
    /\ UNCHANGED <<disk, lock, fresh, lost>> /\ UNCHANGED Gateway

(* cmd_login: the named network or the selection, and a device login.      *)
Login(p) ==
    /\ proc[p].pc = "idle"
    /\ \E n \in Networks : Set(p, [Idle EXCEPT !.pc = "login", !.network = n])
    /\ UNCHANGED <<disk, lock, fresh, lost>> /\ UNCHANGED Gateway

LoggedIn(p) ==
    /\ proc[p].pc = "login"
    /\ NewLogin(p)
    /\ Set(p, [proc[p] EXCEPT !.pc = "save", !.then = "idle",
                 !.edit = [NoEdit EXCEPT !.kind = "login", !.network = proc[p].network,
                                         !.entry = NewEntry]])
    /\ UNCHANGED <<disk, lock, lost>>

(* An access token comes within the margin of its expiry.                  *)
Age ==
    /\ \E t \in fresh : fresh' = fresh \ {t}
    /\ UNCHANGED <<disk, lock, proc, lost>> /\ UNCHANGED Gateway

Next ==
    \/ \E p \in Procs :
          \/ Start(p) \/ Check(p) \/ AskFails(p) \/ Granted(p) \/ AnswerLost(p)
          \/ Rejected(p) \/ DeviceLogin(p) \/ DeviceFails(p) \/ After(p)
          \/ Work(p) \/ Done(p) \/ Login(p) \/ LoggedIn(p)
          \/ Lock(p) \/ Save(p) \/ SaveFails(p) \/ Crash(p)
    \/ Age

Spec == Init /\ [][Next]_vars

-----------------------------------------------------------------------------
(* Properties                                                              *)

Edit == [kind : {"none", "network", "tokens", "rotated", "login", "worker", "remove"},
         network : Maybe(Networks), entry : Maybe(Entry), worker : Maybe(Workers)]

Config == [active : Networks, workers : [Networks -> SUBSET Workers],
           tokens : [Networks -> Maybe(Entry)]]

Process ==
    [pc : {"idle", "check", "ask", "device", "login", "save", "locked", "after", "work"},
     override : BOOLEAN, network : Maybe(Networks),
     entry : Maybe(Entry), attempt : 0 .. MaxAttempts - 1, follows : BOOLEAN,
     edit : Edit, image : Maybe(Config), then : {"idle", "check", "after", "work"}]

(* Every variable has its type.                                            *)
TypeOK ==
    /\ disk \in Config
    /\ lock \in Maybe(Procs)
    /\ proc \in [Procs -> Process]
    /\ tokens \in Seq(Pair) /\ Len(tokens) <= MaxTokens
    /\ live \subseteq DOMAIN tokens
    /\ fresh \subseteq DOMAIN tokens
    /\ lost \subseteq Networks

(***************************************************************************)
(* Processes that refresh, log in, wait out an epoch and run against other *)
(* registries side by side never leave a spent refresh token in the file   *)
(* for good: the stored one is live, or the process that traded it is on   *)
(* its way to store the successor, unless that answer or process was lost  *)
(* (ensure_fresh_token, try_refresh_token, persist_refreshed_tokens).      *)
(***************************************************************************)
StoredTokenLive ==
    \A n \in Networks \ lost :
        disk.tokens[n] # None =>
            \/ disk.tokens[n].refresh \in live
            \/ \E p \in Procs : /\ Holding(p) /\ proc[p].edit.network = n
                                /\ tokens[proc[p].edit.entry.refresh].parent
                                     = disk.tokens[n].refresh

(***************************************************************************)
(* What a run with --api-url obtains from the other registry is never      *)
(* stored: the file's access token was issued for the network's own        *)
(* registry and its refresh token descends from a login there.             *)
(***************************************************************************)
OverrideIsolated ==
    \A n \in Networks : disk.tokens[n] # None =>
        /\ tokens[disk.tokens[n].access].at = "home"
        /\ tokens[disk.tokens[n].refresh].chain = "home"

(***************************************************************************)
(* Saves are serial: each applies its own command's change (Edited) to the *)
(* file as it is at that moment, whatever was saved since the command      *)
(* loaded it, so nothing is ever written from a stale copy of the file     *)
(* (with_config_lock and the reload in every persist function).  It does   *)
(* not say that the change is right by then: saving or removing a worker   *)
(* includes the selection the command was started with, and a late save    *)
(* brings a removed record back.                                           *)
(***************************************************************************)
SavesOnlyItsOwn ==
    [][disk' # disk => \E p \in Procs : /\ proc[p].pc = "locked"
                                        /\ disk' = Edited(disk, proc[p].edit)]_vars

(***************************************************************************)
(* "An explicit choice is persisted so later commands target it": the      *)
(* stored selection changes only when a command names a network.           *)
(***************************************************************************)
SelectionSticks ==
    [][disk'.active # disk.active =>
         \E p \in Procs : /\ proc[p].pc = "locked"
                          /\ proc[p].edit.kind \in {"network", "login"}]_vars
=============================================================================
