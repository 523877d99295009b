------------------------------- MODULE MCNode -------------------------------
(***************************************************************************)
(* Three workers: one on a Foundry account with a project; one on a        *)
(* classic Azure OpenAI account, beside a NEAR proxy; one on Bedrock.      *)
(***************************************************************************)
EXTENDS Node

MCTargetSeq == <<"foundry", "azure">>

MCConfigs == {[azure |-> {"foundry"}, proxies |-> {}],
              [azure |-> {"azure"}, proxies |-> {"near"}],
              [azure |-> {}, proxies |-> {"bedrock"}]}

MCAccount ==
  [t \in {"foundry", "azure"} |->
     IF t = "foundry" THEN [provider |-> "foundry", kind |-> "AIServices", project |-> TRUE]
     ELSE [provider |-> "openai", kind |-> "OpenAI", project |-> FALSE]]

MCSinks ==
  [t \in {"foundry", "azure"} |->
     IF t = "foundry" THEN {[stage |-> "pconnections", page |-> 1]}
     ELSE {[stage |-> "deployments", page |-> 2], [stage |-> "mode", page |-> 1]}]
=============================================================================
