----------------------------- MODULE MCCoreServer -----------------------------
(* Instances of CoreServer for TLC: a core that is ready to proxy, and a   *)
(* provider that answers with success or not at all.                       *)
EXTENDS CoreServer

Ready == [enabled |-> TRUE, base |-> TRUE, remote |-> FALSE,
          key |-> TRUE, token |-> TRUE, timeout |-> 5]
ReadyConfigs == {Ready}
Statuses == {200}
=============================================================================
