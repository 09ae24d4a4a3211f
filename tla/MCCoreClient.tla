---- MODULE MCCoreClient ----
(* Instances of CoreClient for TLC. *)
EXTENDS CoreClient

CONSTANTS right, other

Asks(name, token) == [name |-> name, token |-> token, url |-> TRUE, filter |-> TRUE]

(* Each command with the right token, another one, and none; a filter and  *)
(* a URL that do not parse.                                                *)
MCCommands ==
    {Asks(name, token) : name \in Paths \cup {"doctor"}, token \in {right, other, NoToken}}
    \cup {[Asks("usage", right) EXCEPT !.filter = FALSE],
          [Asks("doctor", right) EXCEPT !.url = FALSE]}

(* A core on the loopback address, with and without a token, a remote one  *)
(* with a token and one that lacks it; the proxy on and off.               *)
MCConfigs ==
    {[token |-> right, remote |-> FALSE, enabled |-> TRUE],
     [token |-> other, remote |-> TRUE, enabled |-> FALSE],
     [token |-> NoToken, remote |-> FALSE, enabled |-> FALSE],
     [token |-> NoToken, remote |-> TRUE, enabled |-> TRUE]}

(* Somebody else's page, an error page of a gateway, a foreign path, and   *)
(* the error envelope of another program.                                  *)
MCStrangers ==
    {[status |-> s, code |-> NoError, json |-> FALSE, enabled |-> FALSE] :
        s \in {200, 404, 502}}
    \cup {[status |-> 404, code |-> ForeignCode, json |-> TRUE, enabled |-> FALSE]}
====
