--------------------------- MODULE MCAnthropicProxy ---------------------------
(* Instances of AnthropicProxy for TLC. *)
EXTENDS AnthropicProxy

(* A core that is ready to proxy, all the ways it may not be, and one      *)
(* whose configuration has no timeout.                                     *)
Ready == [enabled |-> TRUE, base |-> TRUE, remote |-> FALSE,
          key |-> TRUE, token |-> TRUE, timeout |-> 5]
ReadyConfigs == {Ready}
AllConfigs == [enabled : BOOLEAN, base : BOOLEAN, remote : BOOLEAN,
               key : BOOLEAN, token : BOOLEAN, timeout : {5}]
              \cup {[Ready EXCEPT !.timeout = 0]}

(* A success, a rejection of the request, and a failure of the provider    *)
(* whose status the core uses for a refusal of its own.                    *)
Statuses == {200, 400, 503}
=============================================================================
