------------------------------- MODULE Convert -------------------------------
(***************************************************************************)
(* cortex-training login --convert-legacy-config (_convert.py): the old    *)
(* JSON config is checked against the account, and becomes a profile and   *)
(* the profile named by config.json, or every file is put back.  Another   *)
(* login may write a profile meanwhile.  A profile is who wrote it.        *)
(***************************************************************************)
EXTENDS Naturals

CONSTANTS Originals,  \* profiles in the file from the start
          Fresh,      \* names for the new profile and for another login's
          MaxFaults   \* bound: calls that raise, and interrupts

ConvertAssumption == Originals \cap Fresh = {} /\ MaxFaults \in Nat

Names == Originals \cup Fresh
Absent == "absent"
None == "none"
Objects == {"database", "schema"}

VARIABLES file,    \* [Names -> who wrote the profile]
          config,  \* the profile config.json names, or None
          there,   \* the objects that exist at the service
          c,       \* the conversion
          other,   \* another login has written its profile
          faults

vars == <<file, config, there, c, other, faults>>

Init ==
    /\ file = [n \in Names |-> IF n \in Originals THEN "original" ELSE Absent]
    /\ config \in Originals \cup {None}
    /\ there \in SUBSET Objects /\ ("schema" \in there => "database" \in there)
    /\ c = [at |-> "read", name |-> None, agreed |-> {}, found |-> {}, created |-> FALSE,
            profiles |-> <<>>, saved |-> None, code |-> 99, broken |-> FALSE, alone |-> TRUE]
    /\ other = FALSE /\ faults = 0

Go(place) == c' = [c EXCEPT !.at = place]
Exit(code) == c' = [c EXCEPT !.at = "exit", !.code = code]
Files == <<file, config>>

(* read_old_config: the file, with what the environment fills in, is       *)
(* refused or taken.                                                       *)
Read ==
    /\ c.at = "read"
    /\ Go("check") \/ Exit(1)
    /\ UNCHANGED <<file, config, there, other, faults>>

(* check: asked first; then sign-in and service, whose failure ends it; a  *)
(* service that misses its database has answered.                          *)
Check ==
    /\ c.at = "check"
    /\ \/ c' = [c EXCEPT !.at = "database", !.agreed = @ \cup {"check"}]
       \/ Exit(1)
    /\ UNCHANGED <<file, config, there, other, faults>>

(* _check_database: what the role cannot see, unless that could not be     *)
(* found out.                                                              *)
CheckDatabase ==
    /\ c.at = "database"
    /\ \/ c' = [c EXCEPT !.found = Objects \ there,
                         !.at = IF there = Objects THEN "plan" ELSE "ask create"]
       \/ Go("plan")
    /\ UNCHANGED <<file, config, there, other, faults>>
AskCreate ==
    /\ c.at = "ask create"
    /\ \/ c' = [c EXCEPT !.at = "create", !.agreed = @ \cup {"create"}]
       \/ Exit(1)
    /\ UNCHANGED <<file, config, there, other, faults>>

(* create: one statement after the other; the second may fail.             *)
Create ==
    /\ c.at = "create"
    /\ \/ /\ c.found \subseteq there
          /\ c' = [c EXCEPT !.created = TRUE, !.at = "plan"] /\ UNCHANGED there
       \/ /\ "database" \in there \/ "database" \in c.found
          /\ there' = there \cup (IF "database" \in there THEN {"schema"} ELSE {"database"})
          /\ c.found \ there # {} /\ UNCHANGED c
       \/ Exit(1) /\ UNCHANGED there
    /\ UNCHANGED <<file, config, other, faults>>

(* plan: a name that no profile has when it is typed.                      *)
PlanName(n) ==
    /\ c.at = "plan" /\ n \in Fresh /\ file[n] = Absent
    /\ c' = [c EXCEPT !.at = "confirm", !.name = n]
    /\ UNCHANGED <<file, config, there, other, faults>>
Confirm ==
    /\ c.at = "confirm"
    /\ \/ c' = [c EXCEPT !.at = "snapshot", !.agreed = @ \cup {"change"}]
       \/ Exit(1)
    /\ UNCHANGED <<file, config, there, other, faults>>

(* apply: two snapshots, then its steps. *)
Snapshot ==
    /\ c.at = "snapshot"
    /\ c' = [c EXCEPT !.at = "write profile", !.profiles = file, !.saved = config, !.alone = TRUE]
    /\ UNCHANGED <<file, config, there, other, faults>>

(* A step is done, or raises after it was done, or is interrupted then.    *)
Then(place) ==
    \/ Go(place) /\ UNCHANGED faults
    \/ faults < MaxFaults /\ faults' = faults + 1
       /\ \E code \in {1, 130} : c' = [c EXCEPT !.at = "restore profiles", !.code = code]
WriteProfile ==
    /\ c.at = "write profile"
    /\ file' = [file EXCEPT ![c.name] = "convert"]
    /\ Then("write config")
    /\ UNCHANGED <<config, there, other>>
WriteConfig ==
    /\ c.at = "write config"
    /\ config' = c.name
    /\ Then("sign in")
    /\ UNCHANGED <<file, there, other>>
SignIn ==
    /\ c.at = "sign in"
    /\ Then("done")
    /\ UNCHANGED <<file, config, there, other>>
Done ==
    /\ c.at = "done"
    /\ Exit(0)
    /\ UNCHANGED <<file, config, there, other, faults>>

(* A step raises before it has done anything. *)
Raise ==
    /\ c.at \in {"write profile", "write config", "sign in"} /\ faults < MaxFaults
    /\ faults' = faults + 1
    /\ \E code \in {1, 130} : c' = [c EXCEPT !.at = "restore profiles", !.code = code]
    /\ UNCHANGED <<file, config, there, other>>

(* Mutant: a config.json that was not there before is left. *)
RestoreConfigIfAny ==
    /\ c.at = "restore config"
    /\ config' = IF c.saved = None THEN config ELSE c.saved
    /\ Go("exit")
    /\ UNCHANGED <<file, there, other, faults>>

(* Both files get their old bytes, whatever was written to them meanwhile. *)
RestoreProfiles ==
    /\ c.at = "restore profiles"
    /\ file' = c.profiles
    /\ Go("restore config")
    /\ UNCHANGED <<config, there, other, faults>>
RestoreConfig ==
    /\ c.at = "restore config"
    /\ config' = c.saved
    /\ Go("exit")
    /\ UNCHANGED <<file, there, other, faults>>

(* A restore that fails is passed over; an interrupt leaves the rest.      *)
RestoreFails ==
    /\ c.at \in {"restore profiles", "restore config"} /\ faults < MaxFaults
    /\ faults' = faults + 1
    /\ \/ c' = [c EXCEPT !.at = IF @ = "restore profiles" THEN "restore config" ELSE "exit", !.broken = TRUE]
       \/ c' = [c EXCEPT !.at = "exit", !.code = 130, !.broken = TRUE]
    /\ UNCHANGED <<file, config, there, other>>

(* Ctrl-C, or an answer that was no answer, before anything was written.   *)
Cancel ==
    /\ c.at \in {"check", "database", "ask create", "create", "plan", "confirm"}
    /\ Exit(130)
    /\ UNCHANGED <<file, config, there, other, faults>>

(* Another login writes a profile of its own, and perhaps saves it.        *)
OtherWrites(n, saves) ==
    /\ ~other /\ n \in Fresh /\ file[n] = Absent
    /\ file' = [file EXCEPT ![n] = "other"]
    /\ config' = IF saves THEN n ELSE config
    /\ other' = TRUE /\ c' = [c EXCEPT !.alone = FALSE]
    /\ UNCHANGED <<there, faults>>

Next ==
    \/ Read \/ Check \/ CheckDatabase \/ AskCreate \/ Create \/ Confirm \/ Snapshot
    \/ WriteProfile \/ WriteConfig \/ SignIn \/ Done \/ Raise
    \/ RestoreProfiles \/ RestoreConfig \/ RestoreFails \/ Cancel
    \/ \E n \in Fresh : PlanName(n) \/ \E saves \in BOOLEAN : OtherWrites(n, saves)
Spec == Init /\ [][Next]_vars

(* "If anything fails, every file is put back as it was": with no other    *)
(* writer since the snapshots and no failure of the restore itself, a      *)
(* conversion that ends has made both changes or none, and one that says   *)
(* it is done has signed in with what it left.                             *)
AllOrNothing ==
    c.at = "exit" /\ c.alone /\ ~c.broken =>
        IF c.code = 0 THEN file[c.name] = "convert" /\ config = c.name
        ELSE \A n \in Names : file[n] # "convert" /\ (c.profiles # <<>> => file = c.profiles /\ config = c.saved)

(* What was there before is never changed, nothing of the user's files is  *)
(* before the checks and all questions, no object is made without a yes,   *)
(* and a database whose making is told of is whole.                        *)
NothingUnasked ==
    [][/\ \A n \in Originals : file'[n] = file[n]
       /\ Files' # Files /\ other' = other => {"check", "change"} \subseteq c.agreed
       /\ there' # there => "create" \in c.agreed
       /\ c'.created => there' = Objects]_vars
=============================================================================
