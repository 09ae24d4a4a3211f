----------------------------- MODULE ConfigMerge -----------------------------
(***************************************************************************)
(* What a configuration is and how its sources are put together:           *)
(* Default, mergeConfig, applyEnv and applyFlags in                        *)
(* internal/config/config.go.                                              *)
(*                                                                         *)
(* One field stands for each way of merging:                               *)
(*   url         a string, with a variable and a flag; also bind, token    *)
(*               and the log level; without the flag, the proxy's base URL *)
(*               and version                                               *)
(*   port        a positive number, with a variable and a flag; without    *)
(*               the flag, the proxy timeout                               *)
(*   enabled     proxy.enabled, a boolean with a variable                  *)
(*   auto_start  a boolean with neither                                    *)
(*   key         a provider key, with a variable; taken from the file      *)
(*               together with its section; the storage and log paths,     *)
(*               blank by default, end up the same                         *)
(* A URL is represented by the port of the core it leads to.               *)
(***************************************************************************)
EXTENDS Integers

CONSTANT Keys   \* provider keys; "none" is a blank one

(* A source gives a field one value or none: the empty set is a JSON key   *)
(* or a variable or a flag that is absent or blank, and also a variable    *)
(* that overrideInt and overrideBool cannot parse and ignore.              *)
Fields == {"url", "port", "enabled", "auto_start", "key"}
Flagged == {"url", "port"}
Ports == -1..65535

Source == [url : SUBSET Ports, port : SUBSET Ports, enabled : SUBSET BOOLEAN,
           auto_start : SUBSET BOOLEAN, key : SUBSET Keys]

Config == [url : Ports, port : Ports, enabled : BOOLEAN, auto_start : BOOLEAN, key : Keys \cup {"none"}]

Nothing == [url |-> {}, port |-> {}, enabled |-> {}, auto_start |-> {}, key |-> {}]

(* A source with the first value where the second has none. *)
Or(given, else) == IF given # {} THEN CHOOSE x \in given : TRUE ELSE else

(* A file or a flag cannot give a port that is not positive. *)
Positive(given) == {v \in given : v > 0}

Default == [url |-> 8765, port |-> 8765, enabled |-> FALSE, auto_start |-> TRUE,
            key |-> "none"]

(* The default file: every field with its default, the key blank. *)
DefaultFile == [url |-> {8765}, port |-> {8765}, enabled |-> {FALSE},
                auto_start |-> {TRUE}, key |-> {}]

-----------------------------------------------------------------------------
(* Mutant of mergeConfig: the providers of the file are not taken over. *)
mergeConfigNoProviders(base, file) ==
    [url |-> Or(file.url, base.url),
     port |-> Or(Positive(file.port), base.port),
     enabled |-> Or(file.enabled, FALSE),
     auto_start |-> IF TRUE \in file.auto_start THEN TRUE ELSE base.auto_start,
     key |-> base.key]

(* json.Unmarshal makes a missing boolean FALSE and a missing key blank;   *)
(* both replace the default, auto_start is combined with it.               *)
mergeConfig(base, file) ==
    [url |-> Or(file.url, base.url),
     port |-> Or(Positive(file.port), base.port),
     enabled |-> Or(file.enabled, FALSE),
     auto_start |-> IF TRUE \in file.auto_start THEN TRUE ELSE base.auto_start,
     key |-> Or(file.key, "none")]

(* The variables QUIVERKEEP_... and ANTHROPIC_API_KEY: any number counts. *)
applyEnv(cfg, env) ==
    [url |-> Or(env.url, cfg.url),
     port |-> Or(env.port, cfg.port),
     enabled |-> Or(env.enabled, cfg.enabled),
     auto_start |-> cfg.auto_start,
     key |-> Or(env.key, cfg.key)]

(* Mutant of applyFlags: --port is parsed and not applied. *)
applyFlagsNoPort(cfg, flags) == [cfg EXCEPT !.url = Or(flags.url, @)]

(* The flags --url and --port: a port of zero or less is no port. *)
applyFlags(cfg, flags) ==
    [cfg EXCEPT !.url = Or(flags.url, @),
                !.port = Or(Positive(flags.port), @)]

-----------------------------------------------------------------------------
(* The reference: "precedence flags > env > file > defaults" (README.md),  *)
(* of the values a source really gives.                                    *)
Gives(source, f) == IF f = "port" THEN Positive(source.port) ELSE source[f]

Preferred(f, flags, env, file) ==
    Or(Gives(flags, f), Or(env[f], Or(Gives(file, f), Default[f])))

(* The strongest source that says anything about the address of the core   *)
(* gives it as a URL and as a port, and means the same by both.            *)
AddressIsGivenTwice(flags, env, file) ==
    /\ flags.url = Gives(flags, "port")
    /\ flags.url = {} => env.url = env.port
    /\ flags.url = {} /\ env.url = {} => file.url = Gives(file, "port")
=============================================================================
