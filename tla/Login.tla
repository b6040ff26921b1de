------------------------------- MODULE Login --------------------------------
(***************************************************************************)
(* cortex-training login (_login.py) with the profile file (_profiles.py)  *)
(* and config.json (_picker.py): the flow of questions and checks that     *)
(* ends with a profile saved as the one to use.  Several logins may run at *)
(* once over the same files.  What the user answers and what Snowflake     *)
(* answers to a check are free choices; a profile is its name and who      *)
(* wrote it.  The renaming of profiles of one name, which run_login offers *)
(* first (fix_duplicates, rename_duplicates), is left out: a name is used  *)
(* once from the start.                                                    *)
(***************************************************************************)
EXTENDS Naturals, FiniteSets

CONSTANTS Logins,      \* the runs of cortex-training login
          Originals,   \* profiles in the file from the start
          Fresh,       \* names a login may give to a new profile
          OwnDatabase  \* the originals whose database is not the default one

LoginAssumption == Originals \cap Fresh = {} /\ OwnDatabase \subseteq Originals

Names == Originals \cup Fresh
Absent == "absent"
Original == "original"
None == "none"

VARIABLES file,     \* [Names -> who wrote the profile]
          config,   \* the profile config.json names, or None
          run       \* [Logins -> the run's own state]

loginVars == <<file, config, run>>

Places == {"start", "existing", "keep", "pick", "name", "write", "settle", "check", "separate",
           "missing", "create", "verify", "delete", "save", "saved", "exit", "error"}

LoginTypeOK ==
    /\ file \in [Names -> {Absent, Original} \cup Logins]
    /\ config \in Names \cup {None}
    /\ \A l \in Logins :
          /\ run[l].at \in Places
          /\ run[l].profile \in Names \cup {None} /\ run[l].new \in Fresh \cup {None}
          /\ run[l].created \subseteq Fresh /\ run[l].asked \subseteq Fresh
          /\ run[l].passed \in Names \cup {None} /\ run[l].declined \in BOOLEAN
          /\ run[l].missing \in BOOLEAN /\ run[l].named \in BOOLEAN /\ run[l].loop \in BOOLEAN

Run(at) == [at |-> at, profile |-> None, new |-> None, created |-> {}, asked |-> {},
            passed |-> None, missing |-> FALSE, named |-> FALSE, loop |-> FALSE,
            declined |-> FALSE]

Exists(n) == file[n] # Absent

Init ==
    /\ file = [n \in Names |-> IF n \in Originals THEN Original ELSE Absent]
    /\ config \in Originals \cup {None}
    /\ run = [l \in Logins |-> Run("start")]

At(l, place) == run[l].at = place
Own(l) == run[l].created        \* the profiles this run saved
Go(l, place) == run' = [run EXCEPT ![l].at = place]
Use(l, place, p) == run' = [run EXCEPT ![l].at = place, ![l].profile = p]
InLoop(l, place, p) ==
    run' = [run EXCEPT ![l].at = place, ![l].profile = p, ![l].loop = TRUE]

(* run_login: the profile it starts from. *)
StartNamed(l, n) ==
    /\ At(l, "start")
    /\ run' = [run EXCEPT ![l].named = TRUE, ![l].loop = TRUE, ![l].profile = n,
                          ![l].at = IF Exists(n) THEN "settle" ELSE "write",
                          ![l].new = IF Exists(n) THEN None ELSE n]
    /\ n \in Originals => Exists(n)
    /\ UNCHANGED <<file, config>>

StartPlain(l) ==
    /\ At(l, "start")
    /\ IF config # None /\ Exists(config) THEN Use(l, "existing", config)
       ELSE InLoop(l, "pick", None)
    /\ UNCHANGED <<file, config>>

(* The saved profile is checked first; a usable one may be kept. *)
CheckExisting(l, usable) ==
    /\ At(l, "existing")
    /\ \/ usable /\ Go(l, "keep")
       \/ InLoop(l, "pick", None)
    /\ UNCHANGED <<file, config>>

(* pick(): a profile of the list, or a new one. *)
Pick(l, n) ==
    /\ At(l, "pick") /\ Exists(n)
    /\ Use(l, "settle", n)
    /\ UNCHANGED <<file, config>>

PickNew(l) ==
    /\ At(l, "pick")
    /\ Use(l, "name", None)
    /\ UNCHANGED <<file, config>>

(* _ask_new_name: a name no profile has when it is typed.  The questions   *)
(* after it come before the profile is written.                            *)
AskName(l, n) ==
    /\ At(l, "name") /\ n \in Fresh /\ ~Exists(n)
    /\ run' = [run EXCEPT ![l].at = "write", ![l].new = n]
    /\ UNCHANGED <<file, config>>

(* _write: under the file's lock write_profile adds or replaces the name.  *)
(* A copy reads the profile it signs in like again.                        *)
Write(l) ==
    /\ At(l, "write")
    /\ LET base == run[l].profile IN
       IF base # None /\ base # run[l].new /\ ~Exists(base)
       THEN Go(l, "error") /\ UNCHANGED file
       ELSE /\ file' = [file EXCEPT ![run[l].new] = l]
            /\ run' = [run EXCEPT ![l].at = "settle", ![l].profile = run[l].new,
                                  ![l].created = @ \cup {run[l].new}, ![l].new = None]
    /\ UNCHANGED config

(* settle(): a profile this run saved is checked only if the user agrees.  *)
MustAsk(l) == run[l].profile \in Own(l) /\ run[l].profile \notin run[l].asked

SettleCheck(l) ==
    /\ At(l, "settle")
    /\ run' = [run EXCEPT ![l].at = "check",
                          ![l].asked = IF MustAsk(l) THEN @ \cup {run[l].profile} ELSE @]
    /\ UNCHANGED <<file, config>>

(* NotChecked is caught in the loop of run_login, and only there. *)
SettleDeclined(l) ==
    /\ At(l, "settle") /\ MustAsk(l)
    /\ run' = [run EXCEPT ![l].at = IF run[l].loop THEN "save" ELSE "error",
                          ![l].asked = @ \cup {run[l].profile},
                          ![l].declined = TRUE]
    /\ UNCHANGED <<file, config>>

(* ProfileFailed: back to the list, but not for a named profile nor while  *)
(* the saved profile is being kept.                                        *)
AfterFailure(l, state) ==
    IF run[l].named \/ ~run[l].loop THEN Run("exit")
    ELSE [state EXCEPT !.at = "pick", !.profile = None, !.passed = None]

(* Mutant: every profile that fails may be deleted. *)
FailDeletesAny(l) == run' = [run EXCEPT ![l].at = "delete"]

Fail(l) ==
    run' = [run EXCEPT ![l] = IF run[l].profile \in Own(l) THEN [@ EXCEPT !.at = "delete"]
                              ELSE AfterFailure(l, @)]

(* check(): sign-in, service, database, each by its answer.                *)
CheckFails(l) ==
    /\ At(l, "check")
    /\ Fail(l)
    /\ UNCHANGED <<file, config>>

CheckAnswers(l, missing) ==
    /\ At(l, "check") /\ Exists(run[l].profile)
    /\ run' = [run EXCEPT ![l].at = "separate", ![l].passed = run[l].profile,
                          ![l].missing = missing]
    /\ UNCHANGED <<file, config>>

(* The saved profile kept: its check is used as it is. *)
Keep(l) ==
    /\ At(l, "keep")
    /\ run' = [run EXCEPT ![l].at = "separate", ![l].passed = run[l].profile,
                          ![l].missing = FALSE]
    /\ UNCHANGED <<file, config>>

(* offer_separate_database, which reads the profile from the file again.   *)
Offered(l) == run[l].profile \notin Own(l) /\ run[l].profile \in OwnDatabase

Separate(l, copy) ==
    /\ At(l, "separate")
    /\ copy => Offered(l)
    /\ run' = [run EXCEPT
           ![l].at = IF ~Exists(run[l].profile) THEN "error"
                     ELSE IF copy THEN "name" ELSE IF run[l].missing THEN "missing" ELSE "verify",
           ![l].loop = @ \/ (~copy /\ ~run[l].missing)]
    /\ UNCHANGED <<file, config>>

MayCreate(l) == run[l].profile \in Own(l)

(* fix_database: another profile that works, a copy with a database of its *)
(* own, or, for a profile this run saved, the CREATE statements it showed. *)
(* A profile another login has deleted meanwhile is looked up in vain.     *)
MissingGone(l) ==
    /\ At(l, "missing") /\ ~MayCreate(l) /\ ~Exists(run[l].profile)
    /\ Go(l, "error")
    /\ UNCHANGED <<file, config>>

UseOther(l, n) ==
    /\ At(l, "missing") /\ ~MayCreate(l) /\ Exists(run[l].profile)
    /\ n # run[l].profile /\ n \notin Own(l) /\ Exists(n)
    /\ Use(l, "settle", n)
    /\ UNCHANGED <<file, config>>

CopyProfile(l) ==
    /\ At(l, "missing") /\ ~MayCreate(l) /\ Exists(run[l].profile)
    /\ Go(l, "name")
    /\ UNCHANGED <<file, config>>

CreateDatabase(l, made) ==
    /\ At(l, "missing") /\ MayCreate(l)
    /\ run' = [run EXCEPT ![l].at = IF made THEN "verify" ELSE "exit",
                          ![l].missing = ~made, ![l].loop = @ \/ made]
    /\ UNCHANGED <<file, config>>

(* verify_service: one more call before the profile is saved. *)
Verify(l) ==
    /\ At(l, "verify")
    /\ Go(l, "save")
    /\ UNCHANGED <<file, config>>

VerifyFails(l) ==
    /\ At(l, "verify")
    /\ Fail(l)
    /\ UNCHANGED <<file, config>>

(* Mutant: a profile that is not deleted is gone on with. *)

(* offer_delete, then the failure goes on to run_login. *)
OfferDelete(l, yes) ==
    /\ At(l, "delete")
    /\ file' = IF yes THEN [file EXCEPT ![run[l].profile] = Absent] ELSE file
    /\ run' = [run EXCEPT ![l] =
                  AfterFailure(l, [@ EXCEPT !.created = IF yes THEN @ \ {run[l].profile} ELSE @])]
    /\ UNCHANGED config

(* save_profile: config.json is replaced as a whole. *)
Save(l) ==
    /\ At(l, "save")
    /\ config' = run[l].profile
    /\ run' = [run EXCEPT ![l] = Run("saved")]
    /\ UNCHANGED file

(* Ctrl-C, Ctrl-D or a refused question: "nothing more was changed". *)
Cancel(l) ==
    /\ run[l].at \notin {"start", "save", "saved", "exit", "error"}
    /\ run' = [run EXCEPT ![l] = Run("exit")]
    /\ UNCHANGED <<file, config>>

Flow(l) ==
    \/ \E n \in Names : StartNamed(l, n) \/ Pick(l, n) \/ UseOther(l, n)
    \/ \E n \in Fresh : AskName(l, n)
    \/ StartPlain(l) \/ PickNew(l) \/ Write(l) \/ SettleCheck(l) \/ SettleDeclined(l)
    \/ \E b \in BOOLEAN : CheckExisting(l, b) \/ CheckAnswers(l, b) \/ Separate(l, b) \/ CreateDatabase(l, b)
                          \/ OfferDelete(l, b)
    \/ Keep(l) \/ CheckFails(l) \/ CopyProfile(l) \/ MissingGone(l) \/ Verify(l) \/ VerifyFails(l)
    \/ Save(l) \/ Cancel(l)

Next == \E l \in Logins : Flow(l)
Spec == Init /\ [][Next]_loginVars

(* A login saves a profile only after Cortex Training answered through it, *)
(* or when it has just saved the profile and the user declined the check   *)
(* (settle); a profile that failed earlier in the run is not saved by way  *)
(* of another one's check.                                                 *)
SavedIsChecked ==
    \A l \in Logins :
        At(l, "save") => \/ run[l].passed = run[l].profile /\ ~run[l].missing
                         \/ run[l].declined /\ run[l].profile \in Fresh

(* However logins interleave, a profile that was there before them is      *)
(* never changed or deleted. *)
OriginalsStay == [][\A n \in Originals : file'[n] = file[n]]_file

(* A login always ends with an exit code (run_login, "return the exit      *)
(* code"): an error of its own never leaves as a traceback.                *)
EndsWithACode == \A l \in Logins : ~At(l, "error")

(* The lock is there "so two writers (two ``login`` runs, say) can't lose  *)
(* each other's profiles" (_profiles._locked).                             *)
OthersProfilesStay ==
    [][\A n \in Names : file[n] \in Logins => file'[n] \in {file[n], Absent}]_file
=============================================================================
