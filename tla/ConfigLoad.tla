------------------------------ MODULE ConfigLoad ------------------------------
(***************************************************************************)
(* Load in internal/config/config.go, and prepareRuntime in                *)
(* internal/cli/commands.go around it, in several processes at once: a     *)
(* server and any number of CLI commands load the same configuration when  *)
(* they start.  A process walks                                            *)
(*                                                                         *)
(*   idle -> primary -> legacy -> check      which file is there?          *)
(*        -> read                            readConfigFile                *)
(*        -> create -> write -> chmod        writeConfigFile               *)
(*        -> apply -> loaded                 variables and flags           *)
(*                                                                         *)
(* or fails.  Every look at the file system is a step of its own;          *)
(* os.WriteFile empties the file first and fills it then.  Meanwhile the   *)
(* user may save a file, disks may fail and processes may be killed.       *)
(***************************************************************************)
EXTENDS ConfigMerge, CoreErrors, FiniteSets

CONSTANTS
    Proc,        \* processes
    UserFiles,   \* what the user may write into a configuration file
    Settings,    \* variables and flags a process may be started with
    Explicit,    \* is --config-path given? then both paths are that one
    MaxEdits, MaxErrors, MaxCrashes   \* bounds on what may happen besides

ASSUME FilesAreSources == UserFiles \subseteq Source /\ DefaultFile \notin UserFiles
ASSUME SettingsAreSources == Settings \subseteq [env : Source, flags : Source]
ASSUME OtherFlags == \A s \in Settings, f \in Fields \ Flagged : s.flags[f] = {}
ASSUME ExplicitIsBoolean == Explicit \in BOOLEAN
ASSUME BoundsAreNatural == MaxEdits \in Nat /\ MaxErrors \in Nat /\ MaxCrashes \in Nat

Primary == "primary"
Legacy == IF Explicit THEN "primary" ELSE "legacy"
Paths == {Primary, Legacy}

VARIABLES
    file,      \* what is at each path
    stage,     \* where each process is
    setting,   \* its variables and flags
    target,    \* the path it has selected
    found,     \* the paths at which a file was when it started
    looked,    \* how many edits there had been when it last looked
    source,    \* the file it has read, DefaultFile if it has created it
    cfg,       \* its configuration
    created,   \* Metadata.CreatedDefault
    code,      \* the error it has failed with
    edits, errors, crashes

vars == <<file, stage, setting, target, found, looked, source, cfg, created,
          code, edits, errors, crashes>>

Stage == {"idle", "primary", "legacy", "check", "read", "create", "write", "chmod",
          "apply", "loaded", "failed", "crashed"}

(* A file is absent, broken - empty or otherwise not JSON - or whole. *)
Absent == [state |-> "absent", holds |-> Nothing]
Broken == [state |-> "broken", holds |-> Nothing]
Whole(config) == [state |-> "whole", holds |-> config]
File == {Absent, Broken} \cup {Whole(c) : c \in UserFiles \cup {DefaultFile}}

Exists(path) == file[path] # Absent
Users(content) == content.state = "whole" /\ content.holds \in UserFiles

Init ==
    /\ file \in [Paths -> {Absent} \cup {Whole(c) : c \in UserFiles}]
    /\ stage = [p \in Proc |-> "idle"]
    /\ setting \in [Proc -> Settings]
    /\ target = [p \in Proc |-> Primary]
    /\ found = [p \in Proc |-> {}]
    /\ looked = [p \in Proc |-> 0]
    /\ source = [p \in Proc |-> Nothing]
    /\ cfg = [p \in Proc |-> Default]
    /\ created = [p \in Proc |-> FALSE]
    /\ code = [p \in Proc |-> NoError]
    /\ edits = 0 /\ errors = 0 /\ crashes = 0

Go(p, from, to) == stage[p] = from /\ stage' = [stage EXCEPT ![p] = to]
Fails(p, from, error) ==
    Go(p, from, "failed") /\ code' = [code EXCEPT ![p] = error]

choice  == <<setting, target, found, looked>>
result  == <<source, cfg, created>>
mishaps == <<edits, errors, crashes>>

-----------------------------------------------------------------------------
Start(p) ==
    /\ Go(p, "idle", "primary")
    /\ found' = [found EXCEPT ![p] = {f \in Paths : Exists(f)}]
    /\ UNCHANGED <<file, setting, target, looked, result, code, mishaps>>

(* The switch in Load: the primary path if there is a file, ... *)
FindPrimary(p) ==
    /\ IF Exists(Primary) THEN Go(p, "primary", "check") ELSE Go(p, "primary", "legacy")
    /\ UNCHANGED <<file, choice, result, code, mishaps>>

(* Mutant of FindLegacy: the legacy path is not looked at. *)
FindNothing(p) ==
    /\ Go(p, "legacy", "check")
    /\ UNCHANGED <<file, choice, result, code, mishaps>>

(* ... else the legacy path if there is one, else the primary path. *)
FindLegacy(p) ==
    /\ Go(p, "legacy", "check")
    /\ target' = [target EXCEPT ![p] = IF Exists(Legacy) THEN Legacy ELSE Primary]
    /\ UNCHANGED <<file, setting, found, looked, result, code, mishaps>>

(* Mutant of Check: the outcome of the first look is used once more. *)
CheckNot(p) ==
    /\ IF target[p] \in found[p] THEN Go(p, "check", "read") ELSE Go(p, "check", "create")
    /\ looked' = [looked EXCEPT ![p] = edits]
    /\ UNCHANGED <<file, setting, target, found, result, code, mishaps>>

(* Load looks at the selected path once more. *)
Check(p) ==
    /\ IF Exists(target[p]) THEN Go(p, "check", "read") ELSE Go(p, "check", "create")
    /\ looked' = [looked EXCEPT ![p] = edits]
    /\ UNCHANGED <<file, setting, target, found, result, code, mishaps>>

-----------------------------------------------------------------------------
(* Mutant of Truncate: the payload is made after the file has been opened, *)
(* and cannot be made.                                                     *)
TruncateOnly(p) ==
    /\ Fails(p, "create", "CONFIG_PERMISSION_ERROR")
    /\ file' = [file EXCEPT ![target[p]] = Broken]
    /\ UNCHANGED <<choice, result, mishaps>>

(* MkdirAll, and os.WriteFile up to the open with O_CREATE and O_TRUNC. *)
Truncate(p) ==
    /\ Go(p, "create", "write")
    /\ file' = [file EXCEPT ![target[p]] = Broken]
    /\ UNCHANGED <<choice, result, code, mishaps>>

(* What the write leaves at the path: its bytes come to lie in a file that *)
(* is empty or has the same bytes; where the user has saved a file in the  *)
(* meantime it replaces it, damages it, or misses it if the user's file    *)
(* has been renamed into place.                                            *)
Written(content) ==
    {Whole(DefaultFile)} \cup IF Users(content) THEN {content, Broken} ELSE {}

WriteDefault(p) ==
    /\ Go(p, "write", "chmod")
    /\ \E c \in Written(file[target[p]]) : file' = [file EXCEPT ![target[p]] = c]
    /\ UNCHANGED <<choice, result, code, mishaps>>

(* The configuration of this process is the default, whatever is at the    *)
(* path by now.                                                            *)
Chmod(p) ==
    /\ Go(p, "chmod", "apply")
    /\ created' = [created EXCEPT ![p] = TRUE]
    /\ source' = [source EXCEPT ![p] = DefaultFile]
    /\ UNCHANGED <<file, choice, cfg, code, mishaps>>

(* MkdirAll, open, write or chmod fail. *)
CreateFails(p) ==
    /\ errors < MaxErrors /\ errors' = errors + 1
    /\ \E s \in {"create", "write", "chmod"} : Fails(p, s, "CONFIG_PERMISSION_ERROR")
    /\ UNCHANGED <<file, choice, result, edits, crashes>>

-----------------------------------------------------------------------------
(* readConfigFile, then mergeConfig. *)
Read(p) ==
    /\ file[target[p]].state = "whole"
    /\ Go(p, "read", "apply")
    /\ source' = [source EXCEPT ![p] = file[target[p]].holds]
    /\ cfg' = [cfg EXCEPT ![p] = mergeConfig(@, file[target[p]].holds)]
    /\ UNCHANGED <<file, choice, created, code, mishaps>>

(* Mutant of ReadBroken: the error is swallowed. *)
ReadBrokenSilently(p) ==
    /\ file[target[p]].state = "broken"
    /\ Go(p, "read", "failed")
    /\ UNCHANGED <<file, choice, result, code, mishaps>>

(* json.Unmarshal refuses what is there. *)
ReadBroken(p) ==
    /\ file[target[p]].state = "broken"
    /\ Fails(p, "read", "CONFIG_PARSE_ERROR")
    /\ UNCHANGED <<file, choice, result, mishaps>>

(* os.ReadFile fails: no permission, or any other reason. *)
ReadFails(p) ==
    /\ errors < MaxErrors /\ errors' = errors + 1
    /\ \E e \in {"CONFIG_PERMISSION_ERROR", "CONFIG_PARSE_ERROR"} : Fails(p, "read", e)
    /\ UNCHANGED <<file, choice, result, edits, crashes>>

(* Mutant of Apply: the variables are applied after the flags. *)
ApplyFlagsFirst(p) ==
    /\ Go(p, "apply", "loaded")
    /\ cfg' = [cfg EXCEPT ![p] = applyEnv(applyFlags(@, setting[p].flags), setting[p].env)]
    /\ UNCHANGED <<file, choice, source, created, code, mishaps>>

Apply(p) ==
    /\ Go(p, "apply", "loaded")
    /\ cfg' = [cfg EXCEPT ![p] = applyFlags(applyEnv(@, setting[p].env), setting[p].flags)]
    /\ UNCHANGED <<file, choice, source, created, code, mishaps>>

-----------------------------------------------------------------------------
(* The process is killed. *)
Crash(p) ==
    /\ crashes < MaxCrashes /\ crashes' = crashes + 1
    /\ stage[p] \notin {"idle", "loaded", "failed", "crashed"}
    /\ stage' = [stage EXCEPT ![p] = "crashed"]
    /\ UNCHANGED <<file, choice, result, code, edits, errors>>

(* The user saves a file. *)
Edit(path) ==
    /\ edits < MaxEdits /\ edits' = edits + 1
    /\ \E c \in UserFiles : file' = [file EXCEPT ![path] = Whole(c)]
    /\ UNCHANGED <<stage, choice, result, code, errors, crashes>>

Step(p) ==
    \/ FindPrimary(p) \/ FindLegacy(p) \/ Check(p)
    \/ Truncate(p) \/ WriteDefault(p) \/ Chmod(p) \/ CreateFails(p)
    \/ Read(p) \/ ReadBroken(p) \/ ReadFails(p) \/ Apply(p)

Next ==
    \/ \E p \in Proc : Start(p) \/ Step(p) \/ Crash(p)
    \/ \E path \in Paths : Edit(path)

Spec == Init /\ [][Next]_vars

(* A process that has started is run by the kernel until it ends. *)
FairSpec == Spec /\ \A p \in Proc : WF_vars(Step(p))

-----------------------------------------------------------------------------
TypeOK ==
    /\ file \in [Paths -> File]
    /\ stage \in [Proc -> Stage]
    /\ setting \in [Proc -> Settings]
    /\ target \in [Proc -> Paths]
    /\ found \in [Proc -> SUBSET Paths]
    /\ looked \in [Proc -> 0..MaxEdits]
    /\ source \in [Proc -> UserFiles \cup {DefaultFile, Nothing}]
    /\ cfg \in [Proc -> Config]
    /\ created \in [Proc -> BOOLEAN]
    /\ \A p \in Proc : code[p] # NoError <=> stage[p] = "failed"
    /\ code \in [Proc -> {NoError, "CONFIG_PERMISSION_ERROR", "CONFIG_PARSE_ERROR"}]
    /\ edits \in 0..MaxEdits /\ errors \in 0..MaxErrors /\ crashes \in 0..MaxCrashes

(* "Config loader with precedence flags > env > file > defaults"           *)
(* (README.md), for every field but auto_start.                            *)
Precedence ==
    \A p \in Proc : stage[p] = "loaded" =>
        \A f \in Fields \ {"auto_start"} :
            cfg[p][f] = Preferred(f, setting[p].flags, setting[p].env, source[p])

(* A client calls EffectiveURL, which is the url; a server listens on the  *)
(* port.  Started with the same variables and flags, and having read the   *)
(* same file, the client finds the server, however the file came about, if *)
(* whoever gave the address has given it for both.                         *)
ServerIsFound ==
    \A server, client \in Proc :
        /\ stage[server] = "loaded" /\ stage[client] = "loaded"
        /\ setting[server] = setting[client] /\ source[server] = source[client]
        /\ AddressIsGivenTwice(setting[server].flags, setting[server].env, source[server])
        => cfg[client].url = cfg[server].port

(* Load writes over a file of the user only if the user has saved it after *)
(* Load had looked: what was there when it looked stays.                   *)
UserFileIsKept ==
    [][\A path \in Paths :
        Users(file[path]) /\ file'[path] # file[path] =>
            \/ edits' > edits
            \/ \E p \in Proc : /\ stage[p] \in {"create", "write"}
                               /\ target[p] = path /\ edits > looked[p]]_vars

(* A user who has a file at either path is never started with a freshly    *)
(* made default configuration instead.                                     *)
UserFileIsUsed == \A p \in Proc : created[p] => found[p] = {}

(* A file that cannot be parsed is one a process is just writing, unless   *)
(* something has gone wrong before: a crash, a disk, a collision with the  *)
(* user.                                                                   *)
BrokenIsBeingWritten ==
    \A path \in Paths : file[path] = Broken =>
        \/ \E p \in Proc : stage[p] = "write" /\ target[p] = path
        \/ crashes > 0 \/ errors > 0 \/ edits > 0

(* A file that is being written is whole in the end, if nothing goes wrong *)
(* meanwhile.                                                              *)
Disturbed == crashes > 0 \/ errors > 0 \/ edits > 0
BrokenIsTransient ==
    \A path \in Paths : file[path] = Broken ~> file[path] # Broken \/ Disturbed

(* The inductive invariant behind the safety properties.  Files do not     *)
(* vanish, so what was found at the start is still there; ...              *)
Selected == \A p \in Proc :
    /\ \A path \in found[p] : Exists(path)
    /\ stage[p] = "legacy" => Primary \notin found[p]
    /\ stage[p] = "check" /\ found[p] # {} => Exists(target[p])
    /\ stage[p] \in {"create", "write", "chmod"} => found[p] = {}
    /\ stage[p] \in {"idle", "primary", "legacy"} => target[p] = Primary
(* ... a process about to write has seen no file; ...                      *)
Overwriting == \A p \in Proc :
    /\ looked[p] <= edits
    /\ stage[p] \in {"create", "write"} /\ Users(file[target[p]]) => looked[p] < edits
(* ... and before the variables and flags come the file and the default.   *)
Merged == \A p \in Proc :
    /\ stage[p] \in {"idle", "primary", "legacy", "check", "read", "create",
                      "write", "chmod"} => cfg[p] = Default
    /\ stage[p] = "apply" =>
          IF created[p] THEN source[p] = DefaultFile /\ cfg[p] = Default
          ELSE cfg[p] = mergeConfig(Default, source[p])
    /\ created[p] => stage[p] \notin {"idle", "primary", "legacy", "check", "read"}

IndInv == /\ TypeOK /\ Selected /\ Overwriting /\ Merged
          /\ UserFileIsUsed /\ BrokenIsBeingWritten /\ Precedence

-----------------------------------------------------------------------------
(* config_test.go: loading with no file there creates the default and      *)
(* returns no error.  Two processes doing so at once violate it: one reads *)
(* the file the other has just opened.                                     *)
FirstLoadSucceeds == \A p \in Proc : stage[p] = "failed" => errors > 0 \/ crashes > 0
=============================================================================
