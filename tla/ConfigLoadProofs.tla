--------------------------- MODULE ConfigLoadProofs ---------------------------
(***************************************************************************)
(* Proofs about ConfigLoad, for any number of processes, any files and     *)
(* settings, and any number of edits, failures and crashes: IndInv is      *)
(* inductive; the properties of the user's file and the precedence of the  *)
(* sources follow from it.                                                 *)
(***************************************************************************)
EXTENDS ConfigLoad, TLAPS

USE DEF Go, choice, result, mishaps

-----------------------------------------------------------------------------
(* Putting sources together makes a configuration. *)
LEMMA OrType ==
  ASSUME NEW S, NEW given \in SUBSET S, NEW else \in S
  PROVE  Or(given, else) \in S
<1>1. CASE given = {}
  BY <1>1 DEF Or
<1>2. CASE given # {}
  <2>1. (CHOOSE x \in given : TRUE) \in given
    BY <1>2
  <2> QED BY <1>2, <2>1 DEF Or
<1> QED BY <1>1, <1>2

(* The defaults are a configuration. *)
LEMMA DefaultType == Default \in Config
<1>1. 8765 \in Ports
  BY DEF Ports
<1>2. FALSE \in BOOLEAN /\ TRUE \in BOOLEAN /\ "none" \in Keys \cup {"none"}
  OBVIOUS
<1> QED BY <1>1, <1>2 DEF Default, Config

(* The sources used are typed, and so is what a field of them gives. *)
LEMMA SourceFields ==
  ASSUME NEW s \in Source
  PROVE  /\ s.url \in SUBSET Ports /\ s.port \in SUBSET Ports
         /\ Positive(s.port) \in SUBSET Ports
         /\ s.enabled \in SUBSET BOOLEAN /\ s.key \in SUBSET Keys
<1>1. /\ s.url \in SUBSET Ports /\ s.port \in SUBSET Ports
      /\ s.enabled \in SUBSET BOOLEAN /\ s.key \in SUBSET Keys
  BY DEF Source
<1>2. Positive(s.port) \in SUBSET Ports
  BY <1>1 DEF Positive
<1> QED BY <1>1, <1>2

LEMMA MergeType ==
  ASSUME NEW base \in Config, NEW s \in Source
  PROVE  mergeConfig(base, s) \in Config
<1>1. base.url \in Ports /\ base.port \in Ports
  BY DEF Config
<1>2. Or(s.url, base.url) \in Ports
  BY <1>1, SourceFields, OrType
<1>3. Or(Positive(s.port), base.port) \in Ports
  BY <1>1, SourceFields, OrType
<1>4. Or(s.enabled, FALSE) \in BOOLEAN
  BY SourceFields, OrType
<1>5. Or(s.key, "none") \in Keys \cup {"none"}
  BY SourceFields, OrType
<1> QED BY <1>2, <1>3, <1>4, <1>5 DEF mergeConfig, Config

LEMMA EnvType ==
  ASSUME NEW c \in Config, NEW s \in Source
  PROVE  applyEnv(c, s) \in Config
<1>1. /\ c.url \in Ports /\ c.port \in Ports /\ c.enabled \in BOOLEAN
      /\ c.auto_start \in BOOLEAN /\ c.key \in Keys \cup {"none"}
  BY DEF Config
<1>2. Or(s.url, c.url) \in Ports
  BY <1>1, SourceFields, OrType
<1>3. Or(s.port, c.port) \in Ports
  BY <1>1, SourceFields, OrType
<1>4. Or(s.enabled, c.enabled) \in BOOLEAN
  BY <1>1, SourceFields, OrType
<1>5. Or(s.key, c.key) \in Keys \cup {"none"}
  BY <1>1, SourceFields, OrType
<1> QED BY <1>1, <1>2, <1>3, <1>4, <1>5 DEF applyEnv, Config

LEMMA FlagsType ==
  ASSUME NEW c \in Config, NEW s \in Source
  PROVE  applyFlags(c, s) \in Config
<1>1. c.url \in Ports /\ c.port \in Ports
  BY DEF Config
<1>2. Or(s.url, c.url) \in Ports
  BY <1>1, SourceFields, OrType
<1>3. Or(Positive(s.port), c.port) \in Ports
  BY <1>1, SourceFields, OrType
<1> QED BY <1>2, <1>3 DEF applyFlags, Config

(* The default file, the user's files and no file at all are sources. *)
LEMMA FilesType ==
  /\ Nothing \in Source /\ DefaultFile \in Source
  /\ \A c \in UserFiles : c \in Source
  /\ \A s \in Settings : s.env \in Source /\ s.flags \in Source
<1>1. Nothing \in Source
  BY DEF Nothing, Source
<1>2. DefaultFile \in Source
  BY DEF DefaultFile, Source, Ports
<1> QED BY <1>1, <1>2, FilesAreSources, SettingsAreSources

(* The order in which Load applies the sources is the documented one. *)
LEMMA LoadPrefers ==
  ASSUME NEW flags \in Source, NEW env \in Source, NEW s \in Source,
         NEW f \in Fields \ {"auto_start"},
         f \notin Flagged => flags[f] = {}
  PROVE  applyFlags(applyEnv(mergeConfig(Default, s), env), flags)[f] =
         Preferred(f, flags, env, s)
<1>1. \A x : Or({}, x) = x
  BY DEF Or
<1>2. CASE f = "url"
  BY <1>2 DEF applyFlags, applyEnv, mergeConfig, Preferred, Gives
<1>3. CASE f = "port"
  BY <1>3 DEF applyFlags, applyEnv, mergeConfig, Preferred, Gives
<1>4. CASE f = "enabled"
  <2> DEFINE c == mergeConfig(Default, s)
  <2>1. applyFlags(applyEnv(c, env), flags).enabled = Or(env.enabled, c.enabled)
    BY DEF applyFlags, applyEnv
  <2>2. c.enabled = Or(s.enabled, FALSE) /\ Default.enabled = FALSE
    BY DEF mergeConfig, Default
  <2>3. flags.enabled = {}
    BY <1>4 DEF Flagged
  <2>4. Preferred(f, flags, env, s) = Or(env.enabled, Or(s.enabled, Default.enabled))
    BY <1>1, <1>4, <2>3 DEF Preferred, Gives
  <2> QED BY <1>4, <2>1, <2>2, <2>4
<1>5. CASE f = "key"
  BY <1>1, <1>5 DEF applyFlags, applyEnv, mergeConfig, Preferred, Gives, Flagged, Default
<1> QED BY <1>2, <1>3, <1>4, <1>5 DEF Fields

(* Likewise after Load has created the file: its values are the defaults. *)
LEMMA CreatedPrefers ==
  ASSUME NEW flags \in Source, NEW env \in Source,
         NEW f \in Fields \ {"auto_start"},
         f \notin Flagged => flags[f] = {}
  PROVE  applyFlags(applyEnv(Default, env), flags)[f] =
         Preferred(f, flags, env, DefaultFile)
<1>1. \A x : Or({}, x) = x
  BY DEF Or
<1>2. \A x : Or({x}, x) = x
  BY DEF Or
<1>3. CASE f = "url"
  <2>1. DefaultFile.url = {8765} /\ Default.url = 8765
    BY DEF DefaultFile, Default
  <2>2. Or(DefaultFile.url, Default.url) = Default.url
    BY <1>2, <2>1
  <2>3. Preferred(f, flags, env, DefaultFile) = Or(flags.url, Or(env.url, Default.url))
    BY <1>3, <2>2 DEF Preferred, Gives
  <2> QED BY <1>3, <2>3 DEF applyFlags, applyEnv
<1>4. CASE f = "port"
  <2>1. Positive(DefaultFile.port) = {8765} /\ Default.port = 8765
    BY DEF DefaultFile, Default, Positive
  <2>2. Or(Positive(DefaultFile.port), Default.port) = Default.port
    BY <1>2, <2>1
  <2>3. Preferred(f, flags, env, DefaultFile) =
          Or(Positive(flags.port), Or(env.port, Default.port))
    BY <1>4, <2>2 DEF Preferred, Gives
  <2> QED BY <1>4, <2>3 DEF applyFlags, applyEnv
<1>5. CASE f = "enabled"
  <2>1. DefaultFile.enabled = {FALSE} /\ Default.enabled = FALSE
    BY DEF DefaultFile, Default
  <2>2. Or(DefaultFile.enabled, Default.enabled) = Default.enabled
    BY <1>2, <2>1
  <2>3. flags.enabled = {}
    BY <1>5 DEF Flagged
  <2>4. Preferred(f, flags, env, DefaultFile) = Or(env.enabled, Default.enabled)
    BY <1>1, <1>5, <2>2, <2>3 DEF Preferred, Gives
  <2> QED BY <1>5, <2>4 DEF applyFlags, applyEnv
<1>6. CASE f = "key"
  <2>1. DefaultFile.key = {} /\ flags.key = {}
    BY <1>6 DEF DefaultFile, Flagged
  <2>2. Preferred(f, flags, env, DefaultFile) = Or(env.key, Default.key)
    BY <1>1, <1>6, <2>1 DEF Preferred, Gives
  <2> QED BY <1>6, <2>2 DEF applyFlags, applyEnv
<1> QED BY <1>3, <1>4, <1>5, <1>6 DEF Fields

-----------------------------------------------------------------------------
(* Files, settings and sources are what they should be. *)
LEMMA InitType == Init => TypeOK /\ Selected /\ Overwriting /\ Merged
<1> SUFFICES ASSUME Init PROVE TypeOK /\ Selected /\ Overwriting /\ Merged
  OBVIOUS
<1> USE DEF Init
<1>1. file \in [Paths -> File]
  BY DEF File
<1>2. stage \in [Proc -> Stage] /\ target \in [Proc -> Paths]
  BY DEF Stage, Paths
<1>3. cfg \in [Proc -> Config]
  BY DefaultType
<1>4. looked \in [Proc -> 0..MaxEdits] /\ edits \in 0..MaxEdits
      /\ errors \in 0..MaxErrors /\ crashes \in 0..MaxCrashes
  BY BoundsAreNatural
<1>5. \A p \in Proc : code[p] # NoError <=> stage[p] = "failed"
  OBVIOUS
<1>6. TypeOK
  BY <1>1, <1>2, <1>3, <1>4, <1>5 DEF TypeOK
<1>7. Selected
  BY DEF Selected
<1>8. Overwriting
  BY DEF Overwriting
<1>9. Merged
  BY DEF Merged
<1> QED BY <1>6, <1>7, <1>8, <1>9

(* Every step keeps the types. *)
LEMMA TypeStep == IndInv /\ [Next]_vars => TypeOK'
<1> SUFFICES ASSUME IndInv, [Next]_vars PROVE TypeOK'
  OBVIOUS
<1>0. TypeOK /\ Merged
  BY DEF IndInv
<1> USE <1>0 DEF TypeOK, Stage
<1>1. ASSUME NEW p \in Proc, Start(p) PROVE TypeOK'
  BY <1>1 DEF Start
<1>2. ASSUME NEW p \in Proc, FindPrimary(p) PROVE TypeOK'
  BY <1>2 DEF FindPrimary
<1>3. ASSUME NEW p \in Proc, FindLegacy(p) PROVE TypeOK'
  BY <1>3 DEF FindLegacy, Paths
<1>4. ASSUME NEW p \in Proc, Check(p) PROVE TypeOK'
  BY <1>4 DEF Check
<1>5. ASSUME NEW p \in Proc, Truncate(p) PROVE TypeOK'
  BY <1>5 DEF Truncate, File
<1>6. ASSUME NEW p \in Proc, WriteDefault(p) PROVE TypeOK'
  <2>1. \A content \in File : Written(content) \subseteq File
    BY DEF Written, File
  <2>2. file[target[p]] \in File
    OBVIOUS
  <2>3. file' \in [Paths -> File]
    BY <1>6, <2>1, <2>2 DEF WriteDefault
  <2> QED BY <1>6, <2>3 DEF WriteDefault
<1>7. ASSUME NEW p \in Proc, Chmod(p) PROVE TypeOK'
  BY <1>7 DEF Chmod
<1>8. ASSUME NEW p \in Proc, CreateFails(p) PROVE TypeOK'
  BY <1>8, BoundsAreNatural DEF CreateFails, Fails, NoError
<1>9. ASSUME NEW p \in Proc, Read(p) PROVE TypeOK'
  <2>1. file[target[p]].holds \in UserFiles \cup {DefaultFile, Nothing}
    BY DEF File, Absent, Broken, Whole
  <2>2. mergeConfig(cfg[p], file[target[p]].holds) \in Config
    BY <2>1, FilesType, MergeType
  <2> QED BY <1>9, <2>1, <2>2 DEF Read
<1>10. ASSUME NEW p \in Proc, ReadBroken(p) PROVE TypeOK'
  BY <1>10 DEF ReadBroken, Fails, NoError
<1>11. ASSUME NEW p \in Proc, ReadFails(p) PROVE TypeOK'
  BY <1>11, BoundsAreNatural DEF ReadFails, Fails, NoError
<1>12. ASSUME NEW p \in Proc, Apply(p) PROVE TypeOK'
  <2>1. setting[p].env \in Source /\ setting[p].flags \in Source
    BY FilesType
  <2>2. applyFlags(applyEnv(cfg[p], setting[p].env), setting[p].flags) \in Config
    BY <2>1, EnvType, FlagsType
  <2> QED BY <1>12, <2>2 DEF Apply
<1>13. ASSUME NEW p \in Proc, Crash(p) PROVE TypeOK'
  BY <1>13, BoundsAreNatural DEF Crash
<1>14. ASSUME NEW path \in Paths, Edit(path) PROVE TypeOK'
  BY <1>14, BoundsAreNatural DEF Edit, File
<1>15. CASE UNCHANGED vars
  BY <1>15 DEF vars
<1> QED BY <1>1, <1>2, <1>3, <1>4, <1>5, <1>6, <1>7, <1>8, <1>9, <1>10, <1>11,
           <1>12, <1>13, <1>14, <1>15 DEF Next, Step

(* A file is absent, broken or whole, and only one of them. *)
LEMMA FilesDiffer ==
  /\ Absent # Broken
  /\ \A c : Whole(c) # Absent /\ Whole(c) # Broken
  /\ ~Users(Absent) /\ ~Users(Broken) /\ ~Users(Whole(DefaultFile))
  /\ \A c \in UserFiles : Users(Whole(c))
<1>1. /\ Absent.state = "absent" /\ Broken.state = "broken"
      /\ \A c : Whole(c).state = "whole" /\ Whole(c).holds = c
  BY DEF Absent, Broken, Whole
<1> QED BY <1>1, FilesAreSources DEF Users

(* No step removes a file. *)
LEMMA FilesStay ==
  ASSUME IndInv, [Next]_vars, NEW path \in Paths, Exists(path)
  PROVE  Exists(path)'
<1> USE FilesDiffer DEF IndInv, TypeOK, Exists
<1>1. ASSUME NEW p \in Proc, Truncate(p) PROVE Exists(path)'
  BY <1>1 DEF Truncate
<1>2. ASSUME NEW p \in Proc, WriteDefault(p) PROVE Exists(path)'
  <2>1. \A content : \A c \in Written(content) : c # Absent
    BY DEF Written, Users, Absent
  <2> QED BY <1>2, <2>1 DEF WriteDefault
<1>3. ASSUME NEW edited \in Paths, Edit(edited) PROVE Exists(path)'
  BY <1>3 DEF Edit
<1>4. CASE UNCHANGED file
  BY <1>4
<1> QED BY <1>1, <1>2, <1>3, <1>4 DEF Next, Step, vars, Start, FindPrimary,
        FindLegacy, Check, Chmod, CreateFails, Read, ReadBroken, ReadFails,
        Apply, Crash

(* What was found is still there, and decides which way Load goes. *)
LEMMA SelectedStep == IndInv /\ [Next]_vars => Selected'
<1> SUFFICES ASSUME IndInv, [Next]_vars PROVE Selected'
  OBVIOUS
<1>0. TypeOK /\ Selected
  BY DEF IndInv
<1> DEFINE Good(q) ==
        /\ \A path \in found[q] : Exists(path)
        /\ stage[q] = "legacy" => Primary \notin found[q]
        /\ stage[q] = "check" /\ found[q] # {} => Exists(target[q])
        /\ stage[q] \in {"create", "write", "chmod"} => found[q] = {}
        /\ stage[q] \in {"idle", "primary", "legacy"} => target[q] = Primary
<1>1. \A q \in Proc : Good(q) /\ found[q] \subseteq Paths /\ target[q] \in Paths
  BY <1>0 DEF Selected, TypeOK
<1>2. SUFFICES ASSUME NEW q \in Proc PROVE Good(q)'
  BY DEF Selected
<1>3. \A path \in Paths : Exists(path) => Exists(path)'
  BY FilesStay
<1>4. CASE UNCHANGED <<stage[q], found[q], target[q]>>
  BY <1>1, <1>3, <1>4
<1>5. ASSUME NEW p \in Proc, Start(p) PROVE Good(q)'
  <2>1. \A path \in Paths : Exists(path)' = Exists(path)
    BY <1>5 DEF Start, Exists
  <2> QED BY <1>0, <1>1, <1>5, <2>1 DEF Start, TypeOK
<1>6. ASSUME NEW p \in Proc, FindPrimary(p) PROVE Good(q)'
  <2>1. Good(p) /\ Good(q) /\ (\A path \in Paths : Exists(path)' = Exists(path))
    BY <1>1, <1>6 DEF FindPrimary, Exists
  <2> QED BY <1>0, <1>1, <1>6, <2>1 DEF FindPrimary, TypeOK
<1>7. ASSUME NEW p \in Proc, FindLegacy(p) PROVE Good(q)'
  <2>1. Good(p) /\ Good(q) /\ (\A path \in Paths : Exists(path)' = Exists(path))
    BY <1>1, <1>7 DEF FindLegacy, Exists
  <2>2. CASE q # p
    BY <1>0, <1>1, <1>4, <1>7, <2>2 DEF FindLegacy, TypeOK
  <2>3. CASE q = p
    <3>1. stage'[p] = "check" /\ found' = found
      BY <1>0, <1>7 DEF FindLegacy, TypeOK
    <3>2. target'[p] = IF Exists(Legacy) THEN Legacy ELSE Primary
      BY <1>0, <1>7 DEF FindLegacy, TypeOK
    <3>3. found[p] # {} => Exists(Legacy)
      BY <1>1, <1>7, <2>1 DEF FindLegacy, Paths
    <3>4. found[p] # {} => Exists(target[p])'
      <4>1. UNCHANGED file
        BY <1>7 DEF FindLegacy
      <4> QED BY <3>2, <3>3, <4>1 DEF Exists
    <3> QED BY <1>1, <1>3, <2>3, <3>1, <3>4
  <2> QED BY <2>2, <2>3
<1>8. ASSUME NEW p \in Proc, Check(p) PROVE Good(q)'
  <2>1. Good(p) /\ Good(q) /\ (\A path \in Paths : Exists(path)' = Exists(path))
    BY <1>1, <1>8 DEF Check, Exists
  <2> QED BY <1>0, <1>1, <1>8, <2>1 DEF Check, TypeOK
<1>9. ASSUME NEW p \in Proc, Truncate(p) \/ WriteDefault(p) PROVE Good(q)'
  BY <1>0, <1>1, <1>3, <1>9 DEF Truncate, WriteDefault, TypeOK
<1>10. ASSUME NEW p \in Proc, Chmod(p) \/ Read(p) \/ Apply(p) \/ Crash(p)
       PROVE Good(q)'
  BY <1>0, <1>1, <1>3, <1>10 DEF Chmod, Read, Apply, Crash, TypeOK
<1>11. ASSUME NEW p \in Proc, CreateFails(p) \/ ReadBroken(p) \/ ReadFails(p)
       PROVE Good(q)'
  BY <1>0, <1>1, <1>3, <1>11 DEF CreateFails, ReadBroken, ReadFails, Fails, TypeOK
<1>12. ASSUME NEW path \in Paths, Edit(path) PROVE Good(q)'
  BY <1>4, <1>12 DEF Edit
<1>13. CASE UNCHANGED vars
  BY <1>4, <1>13 DEF vars
<1> HIDE DEF Good
<1> QED BY <1>5, <1>6, <1>7, <1>8, <1>9, <1>10, <1>11, <1>12, <1>13 DEF Next, Step

(* What a write leaves is the user's only if it was there before. *)
LEMMA WrittenUsers ==
  ASSUME NEW content, NEW c \in Written(content), Users(c)
  PROVE  Users(content) /\ c = content
BY FilesDiffer DEF Written

(* Only an edit brings a file of the user to a path of a writing process. *)
LEMMA OverwritingStep == IndInv /\ [Next]_vars => Overwriting'
<1> SUFFICES ASSUME IndInv, [Next]_vars PROVE Overwriting'
  OBVIOUS
<1>0. TypeOK /\ Overwriting
  BY DEF IndInv
<1> DEFINE Good(q) ==
        /\ looked[q] <= edits
        /\ stage[q] \in {"create", "write"} /\ Users(file[target[q]]) => looked[q] < edits
<1>1. \A q \in Proc : /\ Good(q) /\ target[q] \in Paths
                       /\ looked[q] \in Nat /\ edits \in Nat
  BY <1>0, BoundsAreNatural DEF Overwriting, TypeOK
<1>2. SUFFICES ASSUME NEW q \in Proc PROVE Good(q)'
  BY DEF Overwriting
<1>3. ASSUME NEW p \in Proc, Start(p) \/ FindPrimary(p) \/ FindLegacy(p) \/ Chmod(p)
             \/ CreateFails(p) \/ Read(p) \/ ReadBroken(p) \/ ReadFails(p)
             \/ Apply(p) \/ Crash(p)
      PROVE Good(q)'
  <2>1. UNCHANGED <<file, looked, edits>>
    BY <1>3 DEF Start, FindPrimary, FindLegacy, Chmod, CreateFails, Read, ReadBroken,
                ReadFails, Apply, Crash
  <2>2. stage'[q] \in {"create", "write"} => stage[q] = stage'[q] /\ target'[q] = target[q]
    BY <1>0, <1>3 DEF Start, FindPrimary, FindLegacy, Chmod, CreateFails, Fails, Read,
                ReadBroken, ReadFails, Apply, Crash, TypeOK
  <2> QED BY <1>1, <2>1, <2>2 DEF Users
<1>4. ASSUME NEW p \in Proc, Check(p) PROVE Good(q)'
  <2>1. file[target[p]] = Absent => ~Users(file[target[p]])
    BY FilesDiffer
  <2>2. Good(q)
    BY <1>1
  <2> QED BY <1>0, <1>1, <1>4, <2>1, <2>2 DEF Check, Exists, TypeOK, Users
<1>5. ASSUME NEW p \in Proc, Truncate(p) PROVE Good(q)'
  <2>1. \A path \in Paths : Users(file'[path]) => Users(file[path])
    BY <1>0, <1>5, FilesDiffer DEF Truncate, TypeOK
  <2>2. stage'[q] = "create" => stage[q] = "create"
    BY <1>0, <1>5 DEF Truncate, TypeOK
  <2>3. stage'[q] = "write" => stage[q] \in {"create", "write"}
    BY <1>0, <1>5 DEF Truncate, TypeOK
  <2>4. UNCHANGED <<target, looked, edits>>
    BY <1>5 DEF Truncate
  <2> QED BY <1>1, <2>1, <2>2, <2>3, <2>4 DEF Users
<1>6. ASSUME NEW p \in Proc, WriteDefault(p) PROVE Good(q)'
  <2>1. \A path \in Paths : Users(file'[path]) => Users(file[path])
    BY <1>0, <1>6, WrittenUsers DEF WriteDefault, TypeOK
  <2>2. stage'[q] \in {"create", "write"} => stage[q] = stage'[q]
    BY <1>0, <1>6 DEF WriteDefault, TypeOK
  <2>3. UNCHANGED <<target, looked, edits>>
    BY <1>6 DEF WriteDefault
  <2> QED BY <1>1, <2>1, <2>2, <2>3 DEF Users
<1>7. ASSUME NEW path \in Paths, Edit(path) PROVE Good(q)'
  BY <1>1, <1>7 DEF Edit
<1>8. CASE UNCHANGED vars
  BY <1>1, <1>8 DEF vars, Users
<1> HIDE DEF Good
<1> QED BY <1>3, <1>4, <1>5, <1>6, <1>7, <1>8 DEF Next, Step

(* Until the variables and flags come, the configuration is the default or *)
(* what the file read makes of it.                                         *)
LEMMA MergedStep == IndInv /\ [Next]_vars => Merged'
<1> SUFFICES ASSUME IndInv, [Next]_vars PROVE Merged'
  OBVIOUS
<1>0. TypeOK /\ Merged
  BY DEF IndInv
<1> USE <1>0 DEF TypeOK, Merged
<1>1. ASSUME NEW p \in Proc, Start(p) \/ FindPrimary(p) \/ FindLegacy(p) PROVE Merged'
  BY <1>1 DEF Start, FindPrimary, FindLegacy
<1>2. ASSUME NEW p \in Proc, Check(p) \/ Truncate(p) \/ WriteDefault(p) PROVE Merged'
  BY <1>2 DEF Check, Truncate, WriteDefault
<1>3. ASSUME NEW p \in Proc, Chmod(p) PROVE Merged'
  BY <1>3 DEF Chmod
<1>4. ASSUME NEW p \in Proc, CreateFails(p) \/ ReadBroken(p) \/ ReadFails(p) PROVE Merged'
  BY <1>4 DEF CreateFails, ReadBroken, ReadFails, Fails
<1>5. ASSUME NEW p \in Proc, Read(p) PROVE Merged'
  BY <1>5 DEF Read
<1>6. ASSUME NEW p \in Proc, Apply(p) PROVE Merged'
  BY <1>6 DEF Apply
<1>7. ASSUME NEW p \in Proc, Crash(p) PROVE Merged'
  BY <1>7 DEF Crash
<1>8. ASSUME NEW path \in Paths, Edit(path) PROVE Merged'
  BY <1>8 DEF Edit
<1>9. CASE UNCHANGED vars
  BY <1>9 DEF vars
<1> QED BY <1>1, <1>2, <1>3, <1>4, <1>5, <1>6, <1>7, <1>8, <1>9 DEF Next, Step

(* Load makes a default file only where it has found none. *)
LEMMA UsedStep == IndInv /\ [Next]_vars => UserFileIsUsed'
<1> SUFFICES ASSUME IndInv, [Next]_vars PROVE UserFileIsUsed'
  OBVIOUS
<1>0. TypeOK /\ Selected /\ Merged /\ UserFileIsUsed
  BY DEF IndInv
<1>1. ASSUME NEW p \in Proc, Start(p) PROVE UserFileIsUsed'
  <2>1. ~created[p]
    BY <1>0, <1>1 DEF Merged, Start
  <2> QED BY <1>0, <1>1, <2>1 DEF Start, UserFileIsUsed, TypeOK
<1>2. ASSUME NEW p \in Proc, Chmod(p) PROVE UserFileIsUsed'
  <2>1. found[p] = {}
    BY <1>0, <1>2 DEF Chmod, Selected
  <2> QED BY <1>0, <1>2, <2>1 DEF Chmod, UserFileIsUsed, TypeOK
<1>3. CASE UNCHANGED <<created, found>>
  BY <1>0, <1>3 DEF UserFileIsUsed
<1> QED BY <1>1, <1>2, <1>3 DEF Next, Step, vars, FindPrimary, FindLegacy, Check,
        Truncate, WriteDefault, CreateFails, Fails, Read, ReadBroken, ReadFails, Apply,
        Crash, Edit

(* A file stays broken only while its writer is at work. *)
LEMMA BrokenStep == IndInv /\ [Next]_vars => BrokenIsBeingWritten'
<1> SUFFICES ASSUME IndInv, [Next]_vars PROVE BrokenIsBeingWritten'
  OBVIOUS
<1> SUFFICES ASSUME NEW path \in Paths, file'[path] = Broken,
                    crashes' = 0, errors' = 0, edits' = 0
             PROVE  \E p \in Proc : stage'[p] = "write" /\ target'[p] = path
  BY TypeStep, BoundsAreNatural DEF TypeOK, BrokenIsBeingWritten
<1>0. TypeOK /\ BrokenIsBeingWritten
  BY DEF IndInv
<1> USE <1>0 DEF TypeOK
<1>1. crashes = 0 /\ errors = 0 /\ edits = 0
  BY BoundsAreNatural DEF Next, Step, vars, Start, FindPrimary, FindLegacy,
     Check, Truncate, WriteDefault, Chmod, CreateFails, Read, ReadBroken, ReadFails,
     Apply, Crash, Edit
<1>2. file[path] = Broken => \E p \in Proc : stage[p] = "write" /\ target[p] = path
  BY <1>1 DEF BrokenIsBeingWritten
<1>3. CASE \E p \in Proc : Truncate(p)
  BY <1>2, <1>3 DEF Truncate
<1>4. CASE \E p \in Proc : WriteDefault(p)
  <2> PICK p \in Proc : WriteDefault(p)
    BY <1>4
  <2>1. ~Users(file[target[p]])
    BY <1>1, BoundsAreNatural DEF WriteDefault, IndInv, Overwriting
  <2>2. file'[target[p]] # Broken
    BY <2>1, FilesDiffer DEF WriteDefault, Written
  <2>3. path # target[p] /\ file[path] = Broken
    BY <2>2 DEF WriteDefault
  <2> QED BY <1>2, <2>3 DEF WriteDefault
<1>5. ASSUME NEW p \in Proc,
             Start(p) \/ FindPrimary(p) \/ FindLegacy(p) \/ Check(p) \/ Chmod(p)
             \/ Read(p) \/ ReadBroken(p) \/ Apply(p)
      PROVE  \E q \in Proc : stage'[q] = "write" /\ target'[q] = path
  <2>1. file[path] = Broken
    BY <1>5 DEF Start, FindPrimary, FindLegacy, Check, Chmod, Read, ReadBroken, Apply
  <2>2. \A q \in Proc : stage[q] = "write" =>
          stage'[q] = "write" /\ target'[q] = target[q]
    BY <1>5 DEF Start, FindPrimary, FindLegacy, Check, Chmod, Read, ReadBroken,
                Fails, Apply
  <2> QED BY <1>2, <2>1, <2>2
<1>6. CASE UNCHANGED vars
  BY <1>2, <1>6 DEF vars
<1>7. \A p \in Proc : ~CreateFails(p) /\ ~ReadFails(p) /\ ~Crash(p)
  BY <1>1 DEF CreateFails, ReadFails, Crash
<1>8. \A changed \in Paths : ~Edit(changed)
  BY <1>1 DEF Edit
<1> QED BY <1>3, <1>4, <1>5, <1>6, <1>7, <1>8 DEF Next, Step

(* The sources are applied in the documented order. *)
LEMMA PrecedenceStep == IndInv /\ [Next]_vars => Precedence'
<1> SUFFICES ASSUME IndInv, [Next]_vars, NEW q \in Proc, stage'[q] = "loaded",
                    NEW f \in Fields \ {"auto_start"}
             PROVE  cfg'[q][f] = Preferred(f, setting'[q].flags, setting'[q].env, source'[q])
  BY DEF Precedence
<1>0. TypeOK /\ Merged /\ Precedence
  BY DEF IndInv
<1> USE <1>0
<1>1. CASE Apply(q)
  <2>1. /\ cfg'[q] = applyFlags(applyEnv(cfg[q], setting[q].env), setting[q].flags)
        /\ UNCHANGED <<setting, source>> /\ stage[q] = "apply"
    BY <1>1 DEF Apply, TypeOK
  <2>2. /\ setting[q].env \in Source /\ setting[q].flags \in Source
        /\ source[q] \in Source
    BY FilesType DEF TypeOK
  <2>3. f \notin Flagged => setting[q].flags[f] = {}
    BY OtherFlags DEF TypeOK
  <2>4. CASE created[q]
    BY <2>1, <2>2, <2>3, <2>4, CreatedPrefers DEF Merged
  <2>5. CASE ~created[q]
    BY <2>1, <2>2, <2>3, <2>5, LoadPrefers DEF Merged
  <2> QED BY <2>4, <2>5
<1>2. CASE UNCHANGED <<stage[q], cfg[q], setting, source[q]>>
  BY <1>2 DEF Precedence
<1>3. ASSUME NEW p \in Proc, Start(p) \/ Step(p) \/ Crash(p), ~Apply(q)
      PROVE  UNCHANGED <<stage[q], cfg[q], setting, source[q]>>
  <2>1. UNCHANGED setting
    BY <1>3 DEF Step, Start, FindPrimary, FindLegacy, Check, Truncate, WriteDefault,
                Chmod, CreateFails, Fails, Read, ReadBroken, ReadFails, Apply, Crash
  <2>2. p # q
    BY <1>3 DEF TypeOK, Step, Start, FindPrimary, FindLegacy, Check, Truncate,
                WriteDefault, Chmod, CreateFails, Fails, Read, ReadBroken, ReadFails, Crash
  <2>3. UNCHANGED <<stage[q], cfg[q], source[q]>>
    BY <1>3, <2>2 DEF TypeOK, Step, Start, FindPrimary, FindLegacy, Check, Truncate,
                WriteDefault, Chmod, CreateFails, Fails, Read, ReadBroken, ReadFails,
                Apply, Crash
  <2> QED BY <2>1, <2>3
<1>4. ASSUME NEW path \in Paths, Edit(path)
      PROVE  UNCHANGED <<stage[q], cfg[q], setting, source[q]>>
  BY <1>4 DEF Edit
<1> QED BY <1>1, <1>2, <1>3, <1>4 DEF Next, vars

(* A step changes a file of the user only if the user has just saved it,   *)
(* or has saved it after the process that writes over it had looked.       *)
LEMMA KeptStep ==
  ASSUME IndInv, [Next]_vars, NEW path \in Paths,
         Users(file[path]), file'[path] # file[path]
  PROVE  \/ edits' > edits
         \/ \E p \in Proc : /\ stage[p] \in {"create", "write"}
                            /\ target[p] = path /\ edits > looked[p]
<1>0. TypeOK /\ Overwriting
  BY DEF IndInv
<1>1. ASSUME NEW p \in Proc, Truncate(p) \/ WriteDefault(p)
      PROVE  \E w \in Proc : /\ stage[w] \in {"create", "write"}
                            /\ target[w] = path /\ edits > looked[w]
  <2>1. target[p] = path /\ stage[p] \in {"create", "write"}
    BY <1>0, <1>1 DEF Truncate, WriteDefault, TypeOK
  <2>2. edits > looked[p]
    BY <1>0, <2>1, BoundsAreNatural DEF Overwriting, TypeOK
  <2> QED BY <2>1, <2>2
<1>2. ASSUME NEW edited \in Paths, Edit(edited) PROVE edits' > edits
  BY <1>0, <1>2, BoundsAreNatural DEF Edit, TypeOK
<1>3. file' # file
  OBVIOUS
<1> QED BY <1>1, <1>2, <1>3 DEF Next, Step, vars, Start, FindPrimary, FindLegacy, Check,
        Chmod, CreateFails, Read, ReadBroken, ReadFails, Apply, Crash

-----------------------------------------------------------------------------
(* IndInv holds initially, and every step keeps it. *)
THEOREM Inductive == Spec => []IndInv
<1>1. Init => IndInv
  <2>1. ASSUME Init PROVE UserFileIsUsed /\ BrokenIsBeingWritten /\ Precedence
    <3>1. UserFileIsUsed /\ Precedence
      BY <2>1 DEF Init, UserFileIsUsed, Precedence
    <3>2. BrokenIsBeingWritten
      BY <2>1, FilesDiffer DEF Init, BrokenIsBeingWritten
    <3> QED BY <3>1, <3>2
  <2> QED BY <2>1, InitType DEF IndInv
<1>2. IndInv /\ [Next]_vars => IndInv'
  BY TypeStep, SelectedStep, OverwritingStep, MergedStep, UsedStep, BrokenStep,
     PrecedenceStep DEF IndInv
<1> QED BY <1>1, <1>2, PTL DEF Spec

(* The configurations, codes and files of Load are always of their types.  *)
THEOREM TypeCorrect == Spec => []TypeOK
<1>1. IndInv => TypeOK
  BY DEF IndInv
<1> QED BY <1>1, Inductive, PTL

(* Whatever the sources hold and whatever happens meanwhile, Load applies  *)
(* flags over variables over the file over the defaults, but for           *)
(* auto_start.                                                             *)
THEOREM SourcesInOrder == Spec => []Precedence
<1>1. IndInv => Precedence
  BY DEF IndInv
<1> QED BY <1>1, Inductive, PTL

(* The client finds the server whose file, variables and flags it shares,  *)
(* if the address was given as a URL and as a port.                        *)
THEOREM ClientFindsServer == Spec => []ServerIsFound
<1>1. IndInv => ServerIsFound
  <2> SUFFICES ASSUME IndInv, NEW server \in Proc, NEW client \in Proc,
                      stage[server] = "loaded", stage[client] = "loaded",
                      setting[server] = setting[client], source[server] = source[client],
                      AddressIsGivenTwice(setting[server].flags, setting[server].env,
                                          source[server])
               PROVE  cfg[client].url = cfg[server].port
    BY DEF ServerIsFound
  <2> DEFINE flags == setting[server].flags  env == setting[server].env
             given == source[server]
  <2>1. /\ cfg[client].url = Preferred("url", flags, env, given)
        /\ cfg[server].port = Preferred("port", flags, env, given)
    BY DEF IndInv, Precedence, Fields
  <2>2. Preferred("url", flags, env, given) = Preferred("port", flags, env, given)
    <3>1. Default.url = Default.port
      BY DEF Default
    <3>2. \A x, given1, given2 : given1 = given2 => Or(given1, x) = Or(given2, x)
      OBVIOUS
    <3>3. \A x : Or({}, x) = x
      BY DEF Or
    <3>4. \A S, x, y : S # {} => Or(S, x) = Or(S, y)
      BY DEF Or
    <3>5. \A s : Gives(s, "url") = s.url
      BY DEF Gives
    <3> HIDE DEF flags, env, given
    <3>6. CASE flags.url # {}
      <4>1. flags.url = Gives(flags, "port")
        BY DEF AddressIsGivenTwice, flags, env, given
      <4> QED BY <3>4, <3>5, <3>6, <4>1 DEF Preferred
    <3>7. CASE flags.url = {} /\ env.url # {}
      <4>1. Gives(flags, "port") = {} /\ env.url = env.port
        BY <3>7 DEF AddressIsGivenTwice, flags, env, given
      <4> QED BY <3>3, <3>4, <3>5, <3>7, <4>1 DEF Preferred
    <3>8. CASE flags.url = {} /\ env.url = {}
      <4>1. /\ Gives(flags, "port") = {} /\ env.url = env.port
            /\ given.url = Gives(given, "port")
        BY <3>8 DEF AddressIsGivenTwice, flags, env, given
      <4> QED BY <3>1, <3>3, <3>5, <3>8, <4>1 DEF Preferred
    <3> QED BY <3>6, <3>7, <3>8
  <2> QED BY <2>1, <2>2
<1> QED BY <1>1, Inductive, PTL

(* Every configuration, at every point of Load, says auto_start: true.      *)
AutoStarts == \A p \in Proc : cfg[p].auto_start

(* The one field that leaves the order: mergeConfig combines auto_start    *)
(* with the default, which is TRUE, and no variable or flag sets it.  So   *)
(* no file can turn it off.                                                *)
THEOREM AutoStartStaysOn == Spec => []AutoStarts
<1>1. Init => AutoStarts
  BY DEF Init, AutoStarts, Default
<1>2. TypeOK /\ AutoStarts /\ [Next]_vars => AutoStarts'
  <2> SUFFICES ASSUME TypeOK, AutoStarts, [Next]_vars PROVE AutoStarts'
    OBVIOUS
  <2>1. ASSUME NEW p \in Proc, Read(p) PROVE AutoStarts'
    BY <2>1 DEF Read, AutoStarts, TypeOK, mergeConfig
  <2>2. ASSUME NEW p \in Proc, Apply(p) PROVE AutoStarts'
    BY <2>2 DEF Apply, AutoStarts, TypeOK, applyEnv, applyFlags
  <2>3. CASE UNCHANGED cfg
    BY <2>3 DEF AutoStarts
  <2> QED BY <2>1, <2>2, <2>3 DEF Next, Step, vars, Start, FindPrimary, FindLegacy, Check,
      Truncate, WriteDefault, Chmod, CreateFails, ReadBroken, ReadFails, Crash, Edit
<1> QED BY <1>1, <1>2, TypeCorrect, PTL DEF Spec

(* However many processes start at once, none replaces a configuration     *)
(* that was there when it started with a fresh default.                    *)
THEOREM ExistingFileIsUsed == Spec => []UserFileIsUsed
<1>1. IndInv => UserFileIsUsed
  BY DEF IndInv
<1> QED BY <1>1, Inductive, PTL

(* Load itself leaves a file that cannot be parsed only while it writes.   *)
THEOREM OnlyWritersBreak == Spec => []BrokenIsBeingWritten
<1>1. IndInv => BrokenIsBeingWritten
  BY DEF IndInv
<1> QED BY <1>1, Inductive, PTL

(* Load writes over a file of the user only in a race with its saving.     *)
THEOREM SavedFileIsKept == Spec => UserFileIsKept
<1> DEFINE Kept ==
      \A path \in Paths :
        Users(file[path]) /\ file'[path] # file[path] =>
            \/ edits' > edits
            \/ \E p \in Proc : /\ stage[p] \in {"create", "write"}
                               /\ target[p] = path /\ edits > looked[p]
<1>1. IndInv /\ [Next]_vars => [Kept]_vars
  BY KeptStep
<1>2. UserFileIsKept <=> [][Kept]_vars
  BY PTL DEF UserFileIsKept
<1> QED BY <1>1, <1>2, Inductive, PTL DEF Spec
=============================================================================
