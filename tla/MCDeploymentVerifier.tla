------------------------- MODULE MCDeploymentVerifier -------------------------
(* Applications on the release, still on an older one, and with a hook of     *)
(* this deployment whose health decides.                                      *)
EXTENDS DeploymentVerifier

NoHook == [result |-> FALSE, phase |-> "", listed |-> FALSE, health |-> ""]

Green == [
    sources |-> <<"branch">>, observed |-> <<"release">>, sync |-> "Synced",
    health |-> "Healthy", requested |-> FALSE, phase |-> "Succeeded",
    finished |-> TRUE, targets |-> <<"release">>,
    hooks |-> [h \in Hooks |-> NoHook]]

OlderGreen == [Green EXCEPT !.observed = <<"older">>, !.targets = <<"older">>]
Hooked == [Green EXCEPT
    !.hooks = [h \in Hooks |-> [NoHook EXCEPT !.result = TRUE, !.listed = TRUE]]]

MCAppStates == {Green, OlderGreen, Hooked}
MCTreeStates == [Hooks -> {"", "Healthy", "Degraded"}]
=============================================================================
