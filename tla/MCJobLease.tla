----------------------------- MODULE MCJobLease -----------------------------
(* A job's screens for TLC, in settings that are explored side by side: two   *)
(* TUIs with a screen, a download and a cache pass each; one screen whose      *)
(* lease wait may time out against two removals that the pass lock does not    *)
(* serialize; and the Training metrics and Serving tabs of a screen.           *)
EXTENDS JobCache
VARIABLES setting,
    path1, markers1, lease1, fd1, spc1, opened1, mounted1, tail1,           \* JobCache, of one screen
    lpc1, lfd1, into1, rpc1, rlease1, rlock1,
    kind, staged, local, cached, job, recent, tab, pane, worker, reader, due, keys, faults  \* DetailPanes

MCProcesses == {"p", "q"}
MCScreens == {"s", "t"}
MCLoaders == {"l", "m"}
MCRemovers == {"r", "u"}
MCHome == [a \in {"s", "t", "r", "u"} |-> IF a \in {"t", "u"} THEN "q" ELSE "p"]
MCScreenOf == [a \in {"l", "m"} |-> IF a = "l" THEN "s" ELSE "t"]
MCDirs == 1..7

Lease == INSTANCE JobCache WITH
    Processes <- {"p"}, Screens <- {"s"}, Loaders <- {}, Removers <- {"r", "u"},
    Home <- [a \in {"s", "r", "u"} |-> "p"], ScreenOf <- [a \in {} |-> "s"], Dirs <- 1..6,
    LeaseMayTimeOut <- TRUE, PassesSerialized <- FALSE,
    path <- path1, markers <- markers1, lease <- lease1, fd <- fd1, spc <- spc1, opened <- opened1,
    mounted <- mounted1, tail <- tail1, lpc <- lpc1, lfd <- lfd1, into <- into1,
    rpc <- rpc1, rlease <- rlease1, rlock <- rlock1
\* A sub-job of the job's own, one that is known by its rows, and an upload of each; and the first of them alone.
Tabs == INSTANCE DetailPanes WITH
    Own <- {"a"}, Other <- {"b"}, MaxRows <- 1, MaxKeys <- 1, MaxFaults <- 1
Tab == INSTANCE DetailPanes WITH
    Own <- {"a"}, Other <- {}, MaxRows <- 1, MaxKeys <- 1, MaxFaults <- 1

leaseVars == <<path1, markers1, lease1, fd1, spc1, opened1, mounted1, tail1,
               lpc1, lfd1, into1, rpc1, rlease1, rlock1>>
tabsVars == <<kind, staged, local, cached, job, recent, tab, pane, worker, reader, due, keys, faults>>
allvars == <<vars, setting, leaseVars, tabsVars>>
Leased(A) == setting = "lease" /\ A /\ UNCHANGED <<setting, vars, tabsVars>>
Tabbed(A) == setting = "tab" /\ A /\ UNCHANGED <<setting, vars, leaseVars>>

\* The variables of the settings that are not explored keep their first values.
MCInit == /\ setting \in {"cache", "lease", "tabs", "tab"}
          /\ Init /\ Lease!Init
          /\ (IF setting = "tab" THEN Tab!Init ELSE Tabs!Init) /\ (setting = "tabs" \/ kind = "training")
MCNext == \/ setting = "cache" /\ Next /\ UNCHANGED <<setting, leaseVars, tabsVars>>
          \/ Leased(Lease!Next)
          \/ Tabbed(Tab!Next \/ Tab!AtRest)
          \/ setting = "tabs" /\ (Tabs!Next \/ Tabs!AtRest) /\ UNCHANGED <<setting, vars, leaseVars>>
\* A setting never changes, so that one condition of fairness can stand for one step of each.
MCSpec == /\ MCInit /\ [][MCNext]_allvars
          /\ WF_allvars(Leased(Lease!LeaseStep("s")) \/ Tabbed(Tab!WorkerStep(1)))
          /\ WF_allvars(Leased(Lease!LeaseRetry("s")) \/ Tabbed(Tab!WorkerStep(2)))
          /\ WF_allvars(Leased(Lease!Heartbeat("s")) \/ Tabbed(Tab!Poll))
          /\ WF_allvars(Leased(Lease!RemoveStep("r")) \/ Tabbed(Tab!PollShown))
          /\ WF_allvars(Leased(Lease!RemoveStep("u")))

\* A screen whose waits time out leaks no descriptor; a tab says that it loads while one load runs, and
\* only then; and it ends with what it was asked for.
ScreensKeepTheirWord ==
  /\ setting = "lease" => Lease!NoDescriptorLeaks
  /\ setting = "tabs" => Tabs!TypeOK /\ Tabs!LoadingIsTrue /\ Tabs!OneLoad /\ Tabs!PromiseIsKept
\* However often its wait timed out, an open screen gets its lock back; and again and again a tab on
\* screen shows what it was to read and what this machine has logged.
ScreensSettle ==
  Lease!PassesEnd =>
    ((setting = "lease" /\ Lease!Waits("s")) \/ setting = "tab"
       ~> /\ setting = "lease" => Lease!IsLeased("s")
          /\ setting = "tab" => Tab!LocalRowsAreShown /\ Tab!UpToDate)
=============================================================================
