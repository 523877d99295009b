----------------------------- MODULE Onboarding -----------------------------
(***************************************************************************)
(* gmcli init walks an operator from nothing to declared products, one     *)
(* command at a time (cli/src/commands/wizard.rs, hotkey.rs, doctor.rs,    *)
(* dependency.rs, phala.rs, btcli.rs), while other sessions of gmcli share *)
(* the configuration, the token expires and the chain and the tools change *)
(* under it.  What it says at the end, what it stored on the way and what  *)
(* gmcli doctor says meanwhile must be true.                               *)
(*                                                                         *)
(* The commands themselves are the subjects of CliTokens, MinerKeys,       *)
(* Deploy, Release and Market; here each is its gates and its outcome.     *)
(***************************************************************************)
EXTENDS Naturals, FiniteSets, Option

CONSTANTS Hotkeys,      \* ss58 addresses
          PhalaKeys,    \* Phala Cloud API keys
          Funded,       \* those of accounts with a balance
          MaxSessions,  \* bound: commands of other sessions
          MaxInits      \* bound: runs of the wizard

ASSUME OnboardingAssumption == Funded \subseteq PhalaKeys /\ None \notin Hotkeys \cup PhalaKeys

VARIABLES config,   \* the configuration on disk
          chain,    \* hotkeys registered on the subnet
          tools,    \* what is installed on the operator's machine
          ledger,   \* history: what was ever on the chain, served and declared
          wiz,      \* the wizard that is running, or None
          closing,  \* what the last wizard said when it ended
          sessions, \* commands of other sessions so far
          inits     \* runs of the wizard so far

onboardingVars == <<config, chain, tools, ledger, wiz, closing, sessions, inits>>

-----------------------------------------------------------------------------
(* Prompts: `who` says whether --yes was given and whether stdin is a       *)
(* terminal                                                                 *)

Silent(who) == who.yes \/ ~who.tty

\* confirm.
Confirm(default, who, answer) == IF Silent(who) THEN who.yes \/ default ELSE answer

\* prompt_line.
PromptLine(who, answer) == IF Silent(who) THEN None ELSE answer

\* ask_step and parse_choice.
AskStep(who, choice) == IF Silent(who) THEN "run" ELSE choice

-----------------------------------------------------------------------------
(* External tools                                                          *)

\* dependency_availability: btcli has no version floor, phala has one.
Available(tool, state) == state = "ok" \/ (tool = "btcli" /\ state = "old")

\* The tool an installer needs: pipx for btcli, npm for phala.
Prerequisite(tool) == IF tool = "btcli" THEN "pipx" ELSE "npm"

\* ensure_dependency: the states the tool may be left in.  The installer may
\* succeed and the tool still be missing or too old on this PATH.
Ensured(tool, who, answer) ==
    IF Available(tool, tools[tool]) THEN {tools[tool]}
    ELSE IF Confirm(FALSE, who, answer) /\ tools[Prerequisite(tool)] = "ok"
    THEN {"ok", tools[tool]}
    ELSE {tools[tool]}

-----------------------------------------------------------------------------
(* Logins and the checks the wizard skips steps by                         *)

Token(h, fresh, refresh) == [hotkey |-> h, fresh |-> fresh, refresh |-> refresh]

\* has_valid_login, is_expired_or_near.
has_valid_login(c) == c.token # None /\ c.token.fresh

\* hotkey_step_done.
hotkey_step_done(c) == c.hotkey # None \/ has_valid_login(c)

\* Mutant: the record a failed deploy left behind counts.
AnyWorkerRecord(c) == c.worker # "none"

\* has_deployed_worker.
has_deployed_worker(c) == c.worker = "registered"

\* ProviderKeys::any_set: stored keys of a provider that is not selected do not
\* count; an upstream that is selected and incomplete does, until it is
\* validated.
provider_keys_done(c) == c.keys \in {"usable", "invalid"}

-----------------------------------------------------------------------------
(* The Phala credential                                                    *)

\* pick_key_source: flag, environment, stored.
pick_key_source(flag, env, c) ==
    IF flag # None THEN flag ELSE IF env # None THEN env ELSE c.phala

\* phala_cli_logged_in: a session is of use only if the CLI runs.
phala_cli_logged_in == tools.session = "ok" /\ tools.phala # "missing"

\* credential_source.
credential_source(env, c) ==
    env # None \/ c.phala # None \/ phala_cli_logged_in

\* prompt_for_key.
PastedKey(who, answer) == PromptLine(who, answer)

\* Mutant: the pasted key is saved and then validated.
SavedUnvalidated(flag, env, c, who, answer) ==
    LET key == pick_key_source(flag, env, c)
    IN IF key # None THEN [ok |-> key \in Funded, phala |-> c.phala]
       ELSE IF phala_cli_logged_in THEN [ok |-> TRUE, phala |-> c.phala]
       ELSE LET pasted == PastedKey(who, answer)
            IN [ok |-> pasted \in Funded, phala |-> IF pasted # None THEN pasted ELSE c.phala]

\* resolve_key and persist_key: whether a credential was found that
\* validate_key accepts, and the stored key afterwards.  Only a key that was
\* pasted is saved, and only when it was accepted.
resolve_key(flag, env, c, who, answer) ==
    LET key == pick_key_source(flag, env, c)
    IN IF key # None THEN [ok |-> key \in Funded, phala |-> c.phala]
       ELSE IF phala_cli_logged_in THEN [ok |-> TRUE, phala |-> c.phala]
       ELSE LET pasted == PastedKey(who, answer)
            IN [ok |-> pasted \in Funded,
                phala |-> IF pasted \in Funded THEN pasted ELSE c.phala]

-----------------------------------------------------------------------------
(* register-hotkey                                                         *)

\* register_hotkey_byo and record_byo: an address the chain does not list is
\* refused.
register_hotkey_byo(h, c) ==
    IF h \in chain THEN [ok |-> TRUE, hotkey |-> h] ELSE [ok |-> FALSE, hotkey |-> c.hotkey]

\* register_hotkey_assisted once btcli is there: `name` is whether the hotkey
\* was named, `local` its address in the wallet store.  A hotkey that is local
\* and not registered ends the command with instructions, and without an error.
register_hotkey_assisted(name, local, pasted, c) ==
    IF ~name THEN [ok |-> FALSE, hotkey |-> c.hotkey]
    ELSE IF local = None
    THEN IF pasted = None THEN [ok |-> FALSE, hotkey |-> c.hotkey]
         ELSE register_hotkey_byo(pasted, c)
    ELSE [ok |-> TRUE, hotkey |-> IF local \in chain THEN local ELSE c.hotkey]

-----------------------------------------------------------------------------
(* The wizard                                                              *)

\* cmd_init.
Start(yes, tty) ==
    /\ wiz = None /\ inits < MaxInits
    /\ wiz' = [step |-> "hotkey", who |-> [yes |-> yes, tty |-> tty], outstanding |-> FALSE,
               cfg |-> config]
    /\ inits' = inits + 1 /\ closing' = "none"
    /\ UNCHANGED <<config, chain, tools, ledger, sessions>>

AtStep(s) == wiz # None /\ wiz.step = s

\* closing_lines.
Closing(outstanding) == IF outstanding THEN "unfinished" ELSE "all set"

\* record, and the reload of the configuration before the next step; an error
\* ends the wizard without a summary.
Record(outcome, next, c) ==
    CASE outcome \in {"done", "outstanding"} /\ next = "end" ->
             /\ closing' = Closing(wiz.outstanding \/ outcome = "outstanding")
             /\ wiz' = None
      [] outcome \in {"done", "outstanding"} /\ next # "end" ->
             /\ wiz' = [wiz EXCEPT !.step = next, !.cfg = c,
                                   !.outstanding = @ \/ outcome = "outstanding"]
             /\ UNCHANGED closing
      [] outcome = "stop" -> wiz' = None /\ closing' = "stopped"
      [] outcome = "error" -> wiz' = None /\ UNCHANGED closing

\* run_wizard_step.
Choice(choice, ok) ==
    CASE choice = "run" -> IF ok THEN "done" ELSE "error"
      [] choice = "skip" -> "outstanding"
      [] choice = "stop" -> "stop"

Others == <<sessions, inits>>

\* wizard_register_hotkey: the configuration is the one of the start.
HotkeySkip ==
    /\ AtStep("hotkey") /\ hotkey_step_done(wiz.cfg)
    /\ Record("done", "login", config)
    /\ UNCHANGED <<config, chain, tools, ledger>> /\ UNCHANGED Others

HotkeyByo(elsewhere, ss58, choice) ==
    LET r == register_hotkey_byo(PromptLine(wiz.who, ss58), config)
        run == AskStep(wiz.who, choice) = "run"
    IN /\ AtStep("hotkey") /\ ~hotkey_step_done(wiz.cfg)
       /\ Confirm(FALSE, wiz.who, elsewhere)
       /\ IF PromptLine(wiz.who, ss58) = None
          THEN Record("outstanding", "login", config) /\ UNCHANGED config
          ELSE /\ config' = IF run THEN [config EXCEPT !.hotkey = r.hotkey] ELSE config
               /\ Record(Choice(AskStep(wiz.who, choice), r.ok), "login", config')
       /\ UNCHANGED <<chain, tools, ledger>> /\ UNCHANGED Others

HotkeyAssisted(wallet, choice) ==
    /\ AtStep("hotkey") /\ ~hotkey_step_done(wiz.cfg)
    /\ ~Confirm(FALSE, wiz.who, FALSE)
    /\ IF PromptLine(wiz.who, wallet) = None
       THEN Record("outstanding", "login", config) /\ UNCHANGED <<config, tools>>
       ELSE IF AskStep(wiz.who, choice) # "run"
       THEN Record(Choice(choice, TRUE), "login", config) /\ UNCHANGED <<config, tools>>
       ELSE \E name, install \in BOOLEAN, local, pasted \in Hotkeys \cup {None} :
            \E b \in IF name THEN Ensured("btcli", wiz.who, install) ELSE {tools.btcli} :
              LET r == register_hotkey_assisted(name, local, pasted, config)
              IN /\ tools' = [tools EXCEPT !.btcli = b]
                 /\ IF Available("btcli", b)
                    THEN /\ config' = [config EXCEPT !.hotkey = r.hotkey]
                         /\ Record(Choice("run", r.ok), "login", config')
                    ELSE Record("error", "login", config) /\ UNCHANGED config
    /\ UNCHANGED <<chain, ledger>> /\ UNCHANGED Others

\* wizard_login: a login is a browser flow, and the gateway issues tokens to
\* registered hotkeys only.
LoginStep(choice, hs) ==
    LET outcome == IF has_valid_login(config) THEN "done"
                   ELSE IF wiz.who.yes THEN "outstanding"
                   ELSE Choice(AskStep(wiz.who, choice), hs \cap chain # {})
        issued == ~has_valid_login(config) /\ ~wiz.who.yes /\ outcome = "done"
    IN /\ AtStep("login")
       /\ \E h \in IF issued THEN hs \cap chain ELSE {None},
          refresh \in IF issued THEN BOOLEAN ELSE {TRUE} :
            config' = IF issued THEN [config EXCEPT !.token = Token(h, TRUE, refresh)] ELSE config
       /\ Record(outcome, "keys", config')
       /\ UNCHANGED <<chain, tools, ledger>> /\ UNCHANGED Others

\* merge_update of keys typed in: they complete a configuration, or add to one
\* whose selected upstream is still incomplete.
Merged(keys) == IF keys = "none" THEN {"usable"} ELSE {"usable", "invalid"}

\* wizard_provider_keys.
KeysStep(typed, choice) ==
    LET outcome == IF provider_keys_done(wiz.cfg) THEN "done"
                   ELSE IF PromptLine(wiz.who, typed) = None THEN "outstanding"
                   ELSE Choice(AskStep(wiz.who, choice), TRUE)
        set == ~provider_keys_done(wiz.cfg) /\ outcome = "done"
    IN /\ AtStep("keys")
       /\ \E k \in IF set THEN Merged(config.keys) ELSE {config.keys} :
            config' = [config EXCEPT !.keys = k]
       /\ Record(outcome, "deploy", config')
       /\ UNCHANGED <<chain, tools, ledger>> /\ UNCHANGED Others

\* wizard_deploy, up to the deploy.
DeploySkip(choice) ==
    LET asked == AskStep(wiz.who, choice)
        outcome == IF has_deployed_worker(wiz.cfg) THEN "done"
                   ELSE IF ~provider_keys_done(wiz.cfg) THEN "outstanding"
                   ELSE Choice(asked, TRUE)
    IN /\ AtStep("deploy")
       /\ has_deployed_worker(wiz.cfg) \/ ~provider_keys_done(wiz.cfg) \/ asked # "run"
       /\ Record(outcome, "declare", config)
       /\ UNCHANGED <<config, chain, tools, ledger>> /\ UNCHANGED Others

\* phala_preflight, then deploy_preflight: the token of the configuration the
\* step loaded, the terms (accepted by answer or by variable), usable keys.  The
\* wizard passes no flags but --yes.
DeployGates(env, install, paste, accepts) ==
    /\ AtStep("deploy") /\ ~has_deployed_worker(wiz.cfg) /\ provider_keys_done(wiz.cfg)
    /\ \E p \in Ensured("phala", wiz.who, install) :
         LET r == resolve_key(None, env, config, wiz.who, paste)
             passes == /\ Available("phala", p) /\ r.ok /\ has_valid_login(wiz.cfg)
                       /\ wiz.cfg.terms \/ accepts
                       /\ wiz.cfg.keys = "usable"
         IN /\ tools' = [tools EXCEPT !.phala = p]
            /\ config' = [config EXCEPT
                            !.phala = IF Available("phala", p) THEN r.phala ELSE @,
                            !.terms = @ \/ (Available("phala", p) /\ r.ok /\ accepts
                                            /\ has_valid_login(wiz.cfg))]
            /\ IF passes THEN wiz' = [wiz EXCEPT !.step = "launch"] /\ UNCHANGED closing
               ELSE Record("error", "declare", config)
    /\ UNCHANGED <<chain, ledger>> /\ UNCHANGED Others

\* The id of a worker comes with the registry's answer.
Recorded(ok) == IF ok THEN "registered" ELSE "provisional"

\* The rest of the deploy: the record of the CVM first, its id once the registry
\* has the worker.
DeployEnds(ok) ==
    /\ AtStep("launch")
    /\ config' = [config EXCEPT !.worker = IF @ = "registered" THEN @ ELSE Recorded(ok)]
    /\ ledger' = IF ok THEN [ledger EXCEPT !.served = @ \cup {wiz.cfg.token.hotkey}] ELSE ledger
    /\ Record(IF ok THEN "done" ELSE "error", "declare", config')
    /\ UNCHANGED <<chain, tools>> /\ UNCHANGED Others

\* ensure_fresh_token of the declare step: an expired token is traded in if it
\* can be refreshed, or the operator logs in again.
Refreshed(c) ==
    IF has_valid_login(c) THEN {c.token}
    ELSE IF c.token = None THEN {}
    ELSE {Token(h, TRUE, TRUE) :
            h \in chain \cup (IF c.token.refresh THEN {c.token.hotkey} ELSE {})}

\* Mutant: prices that were shown and declined count as declared.
CancelledIsDone(answer) == IF answer = "failed" THEN "error" ELSE "done"

\* cmd_declare_products: every product, none, or an error after some.
Declared(answer) ==
    CASE answer = "declared" -> "done" [] answer = "cancelled" -> "outstanding"
      [] answer = "failed" -> "error"

\* wizard_declare_products: the step that may run and still be outstanding.
DeclareStep(discount, choice, answer) ==
    LET asked == AskStep(wiz.who, choice)
        run == PromptLine(wiz.who, discount) # None /\ asked = "run"
    IN /\ AtStep("declare")
       /\ IF run
          THEN \/ /\ Refreshed(wiz.cfg) = {} /\ Record("error", "end", config)
                  /\ UNCHANGED <<config, ledger>>
               \/ \E t \in Refreshed(wiz.cfg) :
                 /\ config' = [config EXCEPT !.token = t]
                 /\ ledger' = IF answer = "declared"
                              THEN [ledger EXCEPT !.declared = @ \cup {t.hotkey}] ELSE ledger
                 /\ Record(Declared(answer), "end", config)
          ELSE /\ Record(IF PromptLine(wiz.who, discount) = None THEN "outstanding"
                         ELSE Choice(asked, TRUE), "end", config)
               /\ UNCHANGED <<config, ledger>>
       /\ UNCHANGED <<chain, tools>> /\ UNCHANGED Others

\* A step fails, or the operator interrupts it.
Abort ==
    /\ wiz # None /\ wiz' = None
    /\ UNCHANGED <<config, chain, tools, ledger, closing, sessions, inits>>

-----------------------------------------------------------------------------
(* Meanwhile                                                               *)

Meanwhile == sessions < MaxSessions /\ sessions' = sessions + 1

\* Another session runs register-hotkey, login, set-api-keys, a deploy that
\* fails or succeeds, or worker remove.
OtherSession(h, keys, worker) ==
    /\ Meanwhile
    /\ \/ h \in chain /\ config' = [config EXCEPT !.hotkey = h] /\ UNCHANGED ledger
       \/ /\ h \in chain /\ config' = [config EXCEPT !.token = Token(h, TRUE, TRUE)]
          /\ UNCHANGED ledger
       \/ config' = [config EXCEPT !.keys = keys] /\ UNCHANGED ledger
       \/ /\ has_valid_login(config) /\ config.keys = "usable" /\ worker # "none"
          /\ config' = [config EXCEPT !.worker = IF @ = "registered" THEN @ ELSE worker,
                                       !.terms = TRUE]
          /\ ledger' = IF worker = "registered"
                       THEN [ledger EXCEPT !.served = @ \cup {config.token.hotkey}] ELSE ledger
       \/ /\ config.worker = "registered" /\ config' = [config EXCEPT !.worker = "none"]
          /\ UNCHANGED ledger
    /\ UNCHANGED <<chain, tools, wiz, closing, inits>>

\* The access token expires; a hotkey is registered or loses its place; a tool
\* is installed, upgraded or removed by hand.
Surroundings(h, tool, state) ==
    /\ Meanwhile
    /\ \/ /\ has_valid_login(config) /\ config' = [config EXCEPT !.token.fresh = FALSE]
          /\ UNCHANGED <<chain, ledger, tools>>
       \/ /\ chain' = IF h \in chain THEN chain \ {h} ELSE chain \cup {h}
          /\ ledger' = [ledger EXCEPT !.seen = @ \cup chain']
          /\ UNCHANGED <<config, tools>>
       \/ /\ tools[tool] # state /\ tools' = [tools EXCEPT ![tool] = state]
          /\ UNCHANGED <<config, chain, ledger>>
    /\ UNCHANGED <<wiz, closing, inits>>

-----------------------------------------------------------------------------
(* doctor                                                                  *)

\* login_check, after try_refresh_token.
login_check(c) == c.token # None /\ (c.token.fresh \/ c.token.refresh)

\* provider_keys_check.
provider_keys_check(c) == c.keys = "usable"

\* phala_cli_check: nothing is installed.
phala_cli_check == Available("phala", tools.phala)

\* Mutant: only keys count, not a session of the Phala CLI.
KeysOnly(env, c) == env # None \/ c.phala # None

\* phala_api_key_check.
phala_api_key_check(env, c) == credential_source(env, c)

\* cmd_doctor, apart from the Azure checks (AzureSweep) and the registry's view.
DoctorPasses(env) ==
    /\ login_check(config) /\ provider_keys_check(config)
    /\ phala_cli_check /\ phala_api_key_check(env, config)

\* gmcli deploy --accept-terms without a terminal, up to the CVM: refresh, the
\* Phala gate, the keys.
DeployReady(env) ==
    LET who == [yes |-> FALSE, tty |-> FALSE]
    IN /\ login_check(config)
       /\ \E p \in Ensured("phala", who, FALSE) : Available("phala", p)
       /\ resolve_key(None, env, config, who, None).ok
       /\ config.keys = "usable"

-----------------------------------------------------------------------------

OnboardingInit ==
    /\ config = [hotkey |-> None, token |-> None, keys |-> "none", phala |-> None, terms |-> FALSE,
               worker |-> "none"]
    /\ chain \in SUBSET Hotkeys
    /\ tools \in [btcli : {"missing", "ok"}, pipx : {"ok"}, phala : {"missing", "old", "ok"},
                  npm : {"missing", "ok"}, session : {"missing", "ok"}]
    /\ ledger = [seen |-> chain, served |-> {}, declared |-> {}]
    /\ wiz = None /\ closing = "none" /\ sessions = 0 /\ inits = 0

StepReplies == {"run", "skip", "stop"}

OnboardingNext ==
    \/ \E yes, tty \in BOOLEAN : Start(yes, tty)
    \/ HotkeySkip
    \/ \E ss58 \in Hotkeys \cup {None}, choice \in StepReplies : HotkeyByo(TRUE, ss58, choice)
    \/ \E wallet \in {None, "w"}, choice \in StepReplies : HotkeyAssisted(wallet, choice)
    \/ \E choice \in StepReplies, h \in Hotkeys : LoginStep(choice, {h})
    \/ \E typed \in {None, "k"}, choice \in StepReplies : KeysStep(typed, choice)
    \/ \E choice \in StepReplies : DeploySkip(choice)
    \/ \E env, paste \in PhalaKeys \cup {None}, install, accepts \in BOOLEAN :
          DeployGates(env, install, paste, accepts)
    \/ \E ok \in BOOLEAN : DeployEnds(ok)
    \/ \E discount \in {None, "d"}, choice \in StepReplies,
          answer \in {"declared", "cancelled", "failed"} : DeclareStep(discount, choice, answer)
    \/ Abort
    \/ \E h \in Hotkeys, keys \in {"idle", "invalid", "usable"},
          worker \in {"none", "provisional", "registered"} : OtherSession(h, keys, worker)
    \/ \E h \in Hotkeys, tool \in {"btcli", "phala"}, state \in {"missing", "old", "ok"} :
          Surroundings(h, tool, state)

OnboardingSpec == OnboardingInit /\ [][OnboardingNext]_onboardingVars

-----------------------------------------------------------------------------
(* Properties                                                              *)

\* What the wizard says and stores is true, whatever other sessions do: "All
\* set" is said only after products were declared under a login that was issued
\* to a hotkey of the subnet, and a worker has been registered; a stored Phala
\* key is one Phala accepted, and a recorded hotkey one the chain has listed.
\* doctor never calls an operator unready whom an unattended deploy would let
\* through (commands/wizard.rs closing_lines, phala.rs, commands/doctor.rs).
OnboardingHonest ==
    /\ closing = "all set" =>
         /\ ledger.declared # {} /\ ledger.declared \subseteq ledger.seen
         /\ ledger.served # {}
         /\ config.keys # "none"
    /\ config.phala # None => config.phala \in Funded
    /\ config.hotkey # None => config.hotkey \in ledger.seen
    /\ \A env \in PhalaKeys \cup {None} : DeployReady(env) => DoctorPasses(env)
=============================================================================
