----------------------------- MODULE MCConfigLoad -----------------------------
(* Instances of ConfigLoad for TLC.  The ports tell the sources apart; 0   *)
(* and -1 are numbers that are no ports.                                   *)
EXTENDS ConfigLoad

MCKeys == {"of file", "of env"}

(* A file with nothing but a port, and one with everything but a port. *)
MCFiles ==
    {[Nothing EXCEPT !.port = {9001}],
     [url |-> {9001}, port |-> {0}, enabled |-> {TRUE}, auto_start |-> {FALSE},
      key |-> {"of file"}]}

(* No variables and flags, all variables, and flags over variables. *)
MCSettings ==
    {[env |-> Nothing, flags |-> Nothing],
     [env |-> [url |-> {9002}, port |-> {0}, enabled |-> {FALSE}, auto_start |-> {},
               key |-> {"of env"}],
      flags |-> [Nothing EXCEPT !.port = {-1}]],
     [env |-> [Nothing EXCEPT !.port = {9002}],
      flags |-> [Nothing EXCEPT !.url = {9003}, !.port = {9003}]]}
=============================================================================
