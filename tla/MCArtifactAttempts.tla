------------------------- MODULE MCArtifactAttempts -------------------------
(* ArtifactSessions for TLC in two settings, explored side by side: two      *)
(* downloads that share the pool, and the threads of one download that lose, *)
(* reopen and replace its session.                                           *)
EXTENDS ArtifactSessions
VARIABLES setting,
    open1, kept1, poolClosed1, warming1, dpc1, conn1, generation1, suspect1, replaced1, doubtful1,
    wpc1, on1, onGen1, tries1, lost1, orphans1

MCSessions == 1..3

Single == INSTANCE ArtifactSessions WITH
    Sessions <- 1..3, Downloads <- {"d"}, Threads <- {"m", "n"}, Checks <- {"n"},
    PerKey <- 1, MaxGeneration <- 1,
    open <- open1, kept <- kept1, poolClosed <- poolClosed1, warming <- warming1, dpc <- dpc1,
    conn <- conn1, generation <- generation1, suspect <- suspect1, replaced <- replaced1,
    doubtful <- doubtful1, wpc <- wpc1, on <- on1, onGen <- onGen1, tries <- tries1, lost <- lost1,
    orphans <- orphans1

singleVars == <<open1, kept1, poolClosed1, warming1, dpc1, conn1, generation1, suspect1, replaced1,
                doubtful1, wpc1, on1, onGen1, tries1, lost1, orphans1>>
allvars == <<vars, singleVars, setting>>

\* The variables of the setting that is not explored keep their first values.
MCInit == setting \in {"pool", "single"} /\ Init /\ Single!Init
MCNext == \/ setting = "pool" /\ Next /\ UNCHANGED <<singleVars, setting>>
          \/ setting = "single" /\ Single!Next /\ UNCHANGED <<vars, setting>>
MCSpec == /\ MCInit /\ [][MCNext]_allvars
          /\ \A w \in Single!Workers :
                 WF_allvars(setting = "single" /\ Single!CallStep(w) /\ UNCHANGED <<vars, setting>>)

\* The threads of one download: no attempt runs on a connection that another thread closed, and each
\* session is open exactly while someone owns it.
SharedAttemptsRunOpen == Single!SessionsAreOwned
\* The free retry of a stale kept session does not go on for ever.
SharedCallsEnd ==
    \A w \in Single!Workers :
        (setting = "single" /\ wpc1[w] = "again") ~> (setting = "single" /\ wpc1[w] \in {"ready", "failed"})
=============================================================================
