-------------------------- MODULE ConnectionChoice --------------------------
(***************************************************************************)
(* Where a program connects: what the command line and the TUI, library    *)
(* callers (resolve_connection), the recipes (resolve_example_connection)  *)
(* and from_configs make of the flags, variables and files there are.  A   *)
(* user adds one of these after the other; a value is the source that it   *)
(* came from.  The arguments config=, connection= and database= of a       *)
(* library call or a recipe stand under the names of a command's flags.    *)
(***************************************************************************)
EXTENDS Naturals, Sequences, FiniteSets

CONSTANTS OldFiles,   \* the old JSON configs: each the keys it holds
          MaxSources  \* bound: flags, variables and files beside each other

None == "none"
Keys == {"host", "pat", "database"}
ChoiceAssumption == OldFiles \subseteq SUBSET Keys /\ OldFiles # {} /\ MaxSources \in Nat

Flag == [host |-> "--host", pat |-> "--pat", database |-> "--database"]
Env == [host |-> "CORTEX_TRAINING_HOST", pat |-> "CORTEX_TRAINING_PAT", database |-> "CORTEX_TRAINING_DATABASE"]
Old == [host |-> "SNOWFLAKE_HOST", pat |-> "SNOWFLAKE_PAT", database |-> "SNOWFLAKE_DATABASE"]
Named == {"--connection", "CORTEX_TRAINING_CONNECTION"}
Configs == {"--config", "CORTEX_TRAINING_CONFIG"}
Profiles == {"[named]", "[saved]", "[default]"}  \* the tables of connections.toml
Sources ==
    {t[k] : t \in {Flag, Env, Old}, k \in Keys} \cup Named \cup Configs
      \cup {"login.json", "config.json"} \cup Profiles

VARIABLES s,        \* the sources there are
          fileKeys  \* what the old config holds, wherever it is named
vars == <<s, fileKeys>>

Init == s = {} /\ fileKeys \in OldFiles
Add(x) == x \notin s /\ Cardinality(s) < MaxSources /\ s' = s \cup {x} /\ UNCHANGED fileKeys
Next == \E x \in Sources : Add(x)
Spec == Init /\ [][Next]_vars

First(options) ==
    LET there == SelectSeq(options, LAMBDA option : option # None)
    IN IF there = <<>> THEN None ELSE Head(there)
If(x) == IF x \in s THEN x ELSE None

-----------------------------------------------------------------------------
(* resolve: the profile, and the CI variables only where there is none.    *)
Refused(why) == [by |-> "refused", why |-> why]
Database(passed, profile) ==
    First(<<passed, If(Env.database), IF profile # None THEN "profile" ELSE None, "CORTEX_TRAINING_DB">>)
Pick(connection, database) ==
    LET profile == First(<<connection, IF "config.json" \in s THEN "[saved]" ELSE None, If("[default]")>>)
    IN IF profile = None /\ s \cap Profiles # {} THEN Refused("no default profile")
       ELSE IF profile # None
            THEN IF profile \in s
                 THEN [by |-> "profile", profile |-> profile, database |-> Database(database, profile)]
                 ELSE Refused("no such profile")
            ELSE IF {Env.host, Env.pat} \subseteq s
                 THEN [by |-> "direct", host |-> Env.host, pat |-> Env.pat, database |-> Database(database, None)]
                 ELSE Refused("no profile")

FromConfigs == Pick(IF "--connection" \in s THEN "[named]" ELSE None, If(Flag.database))

-----------------------------------------------------------------------------
(* The command line's old order, for a program that was given the flags in *)
(* typed; a recipe gives its own database in place of none.                *)
ProfileAsked == s \cap Named # {}
Direct(key, typed) == First(<<IF Flag[key] \in typed THEN Flag[key] ELSE None, If(Env[key]), If(Old[key])>>)
HasConnection(typed) == \A key \in Keys : Direct(key, typed) # None

\* Mutant: whoever logged in the old way goes on with it.
OriginOldFirst(typed) ==
    IF ProfileAsked THEN None
    ELSE IF s \cap Configs # {} THEN "config file"
    ELSE IF ~HasConnection(typed) /\ "login.json" \in s THEN "saved login"
    ELSE None

(* _select_config: the old file that is read, if any is. *)
Origin(typed) ==
    IF ProfileAsked THEN None
    ELSE IF s \cap Configs # {} THEN "config file"
    ELSE IF ~HasConnection(typed) /\ "login.json" \in s /\ ~({"config.json", "[saved]"} \subseteq s)
         THEN "saved login"
    ELSE None

(* _resolve_args *)
Arg(key, typed) ==
    First(<<IF Flag[key] \in typed THEN Flag[key] ELSE None,
            IF Origin(typed) # None /\ key \in fileKeys THEN Origin(typed) ELSE None,
            IF ProfileAsked /\ key # "database" THEN None ELSE First(<<If(Env[key]), If(Old[key])>>)>>)
UsesProfile(typed) ==
    ProfileAsked \/ (Origin(typed) = None /\ None \in {Arg("host", typed), Arg("pat", typed)})

(* _picker_choice: a flag wins, then the old variable, unless it is new.   *)
Given(typed) ==
    IF Flag.database \in typed THEN Flag.database
    ELSE IF Env.database \notin s THEN If(Old.database) ELSE None

Chosen(typed, default) ==
    LET arg == [key \in Keys |-> Arg(key, typed)]
        direct == [by |-> "direct", host |-> arg.host, pat |-> arg.pat,
                   database |-> First(<<arg.database, default>>)]
    IN IF ProfileAsked /\ {arg.host, arg.pat} # {None} THEN Refused("--connection beside --host, --pat")
       ELSE IF UsesProfile(typed) THEN Pick(IF ProfileAsked THEN "[named]" ELSE None, Given(typed))
       ELSE IF direct.database = None THEN Refused("no database")
       ELSE IF None \in {arg.host, arg.pat} THEN Refused("no host and pat")
       ELSE direct

(* build_client of the command line, _build_read_only_client of the TUI.   *)
Typed == s \cap {Flag[k] : k \in Keys}
Program == Chosen(Typed, None)
(* resolve_connection(config, connection, overrides), with the default     *)
(* database that a recipe gives it.                                        *)
LegacyDatabase == "LEGACY_DEFAULT_DATABASE"
Both == {"--connection", "--config"} \subseteq s
Library == IF Both THEN Refused("both") ELSE Chosen(Typed \cap {Flag.database}, LegacyDatabase)

(* _legacy_json_connection: the file alone, of which host and token are    *)
(* required, under a database of the call's own.                           *)
FromFile ==
    IF "host" \notin fileKeys THEN Refused("no host")
    ELSE IF "pat" \notin fileKeys THEN Refused("no PAT")
    ELSE [by |-> "direct", host |-> "config file", pat |-> "config file",
          database |-> First(<<If(Flag.database), IF "database" \in fileKeys THEN "config file" ELSE None,
                               LegacyDatabase>>)]
(* resolve_example_connection: only a config= that the recipe was called   *)
(* with is read that way; CORTEX_TRAINING_CONFIG goes the library's.       *)
Recipe ==
    IF Both THEN Refused("both")
    ELSE IF "--config" \in s THEN FromFile
    ELSE Library

(* _old_connection_notes, and the one of _resolve_args. *)
Notes(typed) ==
    (IF "CORTEX_TRAINING_CONNECTION" \in s /\ "--connection" \notin s THEN {"CORTEX_TRAINING_CONNECTION"} ELSE {})
    \cup IF UsesProfile(typed) THEN IF Given(typed) = Old.database THEN {Old.database} ELSE {}
         ELSE IF Origin(typed) # None THEN {Origin(typed)}
         ELSE IF {Flag.host, Flag.pat} \cap typed # {} THEN {"flags"}
         ELSE IF \E k \in {"host", "pat"} : Direct(k, typed) = Old[k] THEN {"SNOWFLAKE_"}
         ELSE IF s \cap Profiles # {} THEN {"profile used instead"}
         ELSE {}

-----------------------------------------------------------------------------
Reached(c) == c.by # "refused"
OldForms ==
    Configs \cup {"CORTEX_TRAINING_CONNECTION", "login.json", Old.host, Old.pat, Old.database, Flag.host, Flag.pat}

(* resolve_connection connects where a command does, whenever both can, in *)
(* a recipe as elsewhere; and so does from_configs, where no older form is *)
(* used and no CI variable is set beside a profile: only there a database  *)
(* of its own stands for none.  A recipe that is given config= connects    *)
(* where a command given --config does, but for what only the command      *)
(* reads: a profile named by CORTEX_TRAINING_CONNECTION, and a database of *)
(* the shell's where the file has none.                                    *)
AgreesWithFile ==
    \/ Program = Recipe
    \/ "CORTEX_TRAINING_CONNECTION" \in s
    \/ /\ "database" \notin fileKeys /\ Program.database \in {Env.database, Old.database}
       /\ Recipe = [Program EXCEPT !.database = LegacyDatabase]
ProgramsAgree ==
    LET program == Program
    IN /\ Reached(program) /\ s \cap {Flag.host, Flag.pat} = {} =>
            /\ Reached(Library) => program = Library
            /\ Reached(Recipe) => IF "--config" \in s THEN AgreesWithFile ELSE program = Recipe
       /\ /\ s \cap OldForms = {}
          /\ s \cap (Profiles \cup {"config.json"}) = {} \/ s \cap {Env.host, Env.pat} = {}
          => \/ program = FromConfigs
             \/ /\ program = Refused("no database")
                /\ FromConfigs.by = "direct" /\ FromConfigs.database = "CORTEX_TRAINING_DB"

(* With config= "only the file is read, and the environment, saved login   *)
(* and profiles are ignored" (resolve_example_connection): what is added   *)
(* beside it never moves a recipe, but for the call's own arguments.       *)
OnlyTheFile ==
    []["--config" \in s /\ (s' \ s) \cap {"--connection", Flag.database} = {} => Recipe' = Recipe]_vars

(* What was asked for on the command line is used or refused, a saved      *)
(* profile wins over login.json and nothing else, and no older form        *)
(* decides unless a note says so.                                          *)
NothingIsSilent ==
    LET program == Program
    IN Reached(program) =>
         /\ "--connection" \in s => program.by = "profile" /\ program.profile = "[named]"
         /\ Flag.database \in s => program.database = Flag.database
         /\ {Flag.host, Flag.pat} \subseteq s =>
              program.by = "direct" /\ program.host = Flag.host /\ program.pat = Flag.pat
         /\ {"config.json", "[saved]"} \subseteq s => "saved login" \notin {Arg(k, Typed) : k \in Keys}
         /\ \/ program.by = "direct" /\ {program.host, program.pat} \subseteq {Env.host, Env.pat} /\ s \cap Profiles = {}
            \/ program.by = "profile" /\ (ProfileAsked => "--connection" \in s) /\ program.database # Old.database
            \/ Notes(Typed) # {}

(* What comes later in the order never moves a command: a file or profile  *)
(* that is added behind what decided (a saved profile before login.json    *)
(* excepted), or a variable for a value that a flag or the config gives.   *)
Rank(x) == CASE x \in Named -> 1 [] x \in Configs -> 2 [] x = "login.json" -> 4
             [] x \in Profiles \cup {"config.json"} -> 5 [] OTHER -> 3
Decider ==
    CASE ProfileAsked -> 1 [] Origin(Typed) = "config file" -> 2 [] Origin(Typed) = "saved login" -> 4
      [] UsesProfile(Typed) -> 5 [] OTHER -> 3
SavedIsWhole == {"config.json", "[saved]"} \subseteq s
IsGiven(key) == Flag[key] \in s \/ (Origin(Typed) = "config file" /\ key \in fileKeys)
LaterNeverDecides ==
    [][\A x \in s' \ s :
         /\ \/ Rank(x) > Decider /\ Rank(x) # 3 /\ ~(SavedIsWhole' /\ Decider = 4)
            \/ \E key \in Keys : x \in {Env[key], Old[key]} /\ IsGiven(key)
         /\ Reached(Program) /\ Reached(Program')
         => Program' = Program]_vars
=============================================================================
