------------------------------ MODULE JobCache ------------------------------
(***************************************************************************)
(* One job's cache directory, shared by the screens that show the job, the  *)
(* downloads that write into it and the cache passes that remove it, in     *)
(* several TUI processes.                                                   *)
(*                                                                          *)
(* A screen leases the job: a marker file in it and a shared flock on its   *)
(* ".lease".  A download locks the part it writes: a lock shared by the     *)
(* threads of its process and an exclusive flock on ".metrics.lock".  A     *)
(* removal takes both locks exclusively and renames the directory aside     *)
(* before deleting it.  A flock is on an open file, not on a path: a file   *)
(* opened before the rename is the moved directory's.                       *)
(*                                                                          *)
(* Abstractions.  A directory is an instance number; a removed instance     *)
(* that nobody has open is used again.  Who holds a flock is read off the   *)
(* descriptors held.  One part ("metrics") stands for the three that are    *)
(* locked alike.  A marker of a live screen never expires, and the screen   *)
(* is not suspended for LEASE_STALE_SECONDS.                                *)
(***************************************************************************)
EXTENDS Integers, TLAPS

CONSTANTS
    Processes, Screens, Loaders, Removers,
    Home,              \* Home[a]: the process of a screen or a removal
    ScreenOf,          \* ScreenOf[l]: the screen a download belongs to
    Dirs,              \* the directory instances
    LeaseMayTimeOut,   \* a screen may wait out _LEASE_WAIT_SECONDS
    PassesSerialized   \* the pass lock file can be created

ASSUME ActorsAssumption ==
    /\ Home \in [Screens \cup Removers -> Processes]
    /\ ScreenOf \in [Loaders -> Screens]

ASSUME DirsAssumption == 0 \notin Dirs

ASSUME SwitchesAssumption == {LeaseMayTimeOut, PassesSerialized} \subseteq BOOLEAN

VARIABLES
    path,      \* the directory at the job's path, 0 if there is none
    markers,   \* the screens with a fresh marker in it
    lease,     \* lease[s]: JobLease._held and _closing
    fd,        \* fd[s]: JobLease._fd, the directory whose .lease it locked
    spc,       \* what the lease call in progress does next
    opened,    \* opened[s]: the directory whose .lease that call has open
    mounted,   \* the screens whose on_mount has leased the job
    tail,      \* tail[s]: the directory the screen is writing a log page into
    lpc, lfd,  \* a download, and the directory whose lock file it has open
    into,      \* into[l]: the directory it is writing a file into
    rpc,       \* a removal
    rlease,    \* rlease[r]: the directory whose .lease it has open
    rlock      \* rlock[r]: the directory whose .metrics.lock it has open

screenVars == <<lease, fd, spc, opened, mounted, tail>>
loaderVars == <<lpc, lfd, into>>
removerVars == <<rpc, rlease, rlock>>
vars == <<path, markers, screenVars, loaderVars, removerVars>>

None == 0
HomeOf(l) == Home[ScreenOf[l]]

Init ==
    /\ path = None
    /\ markers = {}
    /\ lease = [s \in Screens |-> "none"]
    /\ fd = [s \in Screens |-> None]
    /\ spc = [s \in Screens |-> "idle"]
    /\ opened = [s \in Screens |-> None]
    /\ mounted = {}
    /\ tail = [s \in Screens |-> None]
    /\ lpc = [l \in Loaders |-> "idle"]
    /\ lfd = [l \in Loaders |-> None]
    /\ into = [l \in Loaders |-> None]
    /\ rpc = [r \in Removers |-> "idle"]
    /\ rlease = [r \in Removers |-> None]
    /\ rlock = [r \in Removers |-> None]

-----------------------------------------------------------------------------
(* Directories and locks.                                                   *)

Used == {path} \cup {fd[s] : s \in Screens} \cup {opened[s] : s \in Screens}
        \cup {tail[s] : s \in Screens} \cup {lfd[l] : l \in Loaders}
        \cup {into[l] : l \in Loaders} \cup {rlease[r] : r \in Removers}
        \cup {rlock[r] : r \in Removers}
Unused == Dirs \ Used

\* mkdir(parents=True, exist_ok=True): the directory at the path, made if missing.
MakeDir ==
    \/ path # None /\ UNCHANGED path
    \/ path = None /\ Unused # {} /\ path' = CHOOSE d \in Unused : TRUE

\* The shared and the exclusive holders of a directory's .lease.
Sharing(d) ==
    {s \in Screens : fd[s] = d \/ (spc[s] = "compare" /\ opened[s] = d)}
Leasing(d) ==
    {r \in Removers : rlease[r] = d /\ rpc[r] \notin {"idle", "lockLease"}}

\* Who holds the in-process lock of p, and the flock of a directory's part.
ThreadHolders(p) ==
    {l \in Loaders : HomeOf(l) = p /\ lpc[l] \in {"open", "lock", "hold"}}
        \cup {r \in Removers : Home[r] = p /\
                  rpc[r] \in {"openLock", "lockPart", "recheck", "rename", "release"}}
PartHolders(d) ==
    {l \in Loaders : lfd[l] = d /\ lpc[l] = "hold"}
        \cup {r \in Removers : rlock[r] = d /\ rpc[r] \in {"recheck", "rename", "release"}}

-----------------------------------------------------------------------------
(* A screen's lease (JobLease).                                             *)

\* _touch: a lease that is held puts its marker back.
Touch(s, l) ==
    IF l = "none" THEN UNCHANGED <<path, markers>>
    ELSE MakeDir /\ markers' = markers \cup {s}

\* acquire, up to the lock: the marker first.
Acquire(s) ==
    /\ lease[s] = "none" /\ s \notin mounted /\ spc[s] = "idle" /\ tail[s] = None
    /\ \A l \in Loaders : ScreenOf[l] = s => lpc[l] = "idle"
    /\ lease' = [lease EXCEPT ![s] = "held"]
    /\ Touch(s, "held")
    /\ spc' = [spc EXCEPT ![s] = "open"]
    /\ UNCHANGED <<fd, opened, mounted, tail, loaderVars, removerVars>>

\* _lock: open the .lease at the path, unless the lease is closing.
LeaseOpen(s) ==
    /\ spc[s] = "open"
    /\ \/ /\ lease[s] = "held"
          /\ MakeDir
          /\ opened' = [opened EXCEPT ![s] = path']
          /\ spc' = [spc EXCEPT ![s] = "lock"]
       \/ /\ lease[s] # "held"
          /\ spc' = [spc EXCEPT ![s] = "touch"]
          /\ UNCHANGED <<path, opened>>
    /\ UNCHANGED <<markers, lease, fd, mounted, tail, loaderVars, removerVars>>

\* _lock closes what it opened and tries again, or the deadline has passed.
TryAgain(s) ==
    /\ opened' = [opened EXCEPT ![s] = None]
    /\ \/ spc' = [spc EXCEPT ![s] = "open"]
       \/ LeaseMayTimeOut /\ spc' = [spc EXCEPT ![s] = "touch"]

\* _lock: flock(LOCK_SH | LOCK_NB).
LeaseLock(s) ==
    /\ spc[s] = "lock"
    /\ \/ /\ Leasing(opened[s]) = {}
          /\ spc' = [spc EXCEPT ![s] = "compare"]
          /\ UNCHANGED opened
       \/ Leasing(opened[s]) # {} /\ TryAgain(s)
    /\ UNCHANGED <<path, markers, lease, fd, mounted, tail, loaderVars, removerVars>>

\* Mutant: a lock that was not had in time is not tried for again.
NoRetry(s) ==
    /\ s \in mounted /\ lease[s] = "held" /\ fd[s] = None /\ spc[s] = "idle"
    /\ UNCHANGED vars

\* _lock: keep the lock if the file is still the one at the path.
LeaseCompare(s) ==
    /\ spc[s] = "compare"
    /\ \/ /\ opened[s] = path /\ lease[s] = "held"
          /\ fd' = [fd EXCEPT ![s] = opened[s]]
          /\ opened' = [opened EXCEPT ![s] = None]
          /\ spc' = [spc EXCEPT ![s] = "touch"]
       \/ /\ opened[s] = path /\ lease[s] # "held"
          /\ opened' = [opened EXCEPT ![s] = None]
          /\ spc' = [spc EXCEPT ![s] = "touch"]
          /\ UNCHANGED fd
       \/ opened[s] # path /\ TryAgain(s) /\ UNCHANGED fd
    /\ UNCHANGED <<path, markers, lease, mounted, tail, loaderVars, removerVars>>

\* The end of acquire and of _retry_lock: the marker once more.
LeaseTouch(s) ==
    /\ spc[s] = "touch"
    /\ Touch(s, lease[s])
    /\ mounted' = IF lease[s] = "held" THEN mounted \cup {s} ELSE mounted
    /\ spc' = [spc EXCEPT ![s] = "idle"]
    /\ UNCHANGED <<lease, fd, opened, tail, loaderVars, removerVars>>

\* _retry_lock, run by the scheduler while there is no lock.
LeaseRetry(s) ==
    /\ s \in mounted /\ lease[s] = "held" /\ fd[s] = None /\ spc[s] = "idle"
    /\ spc' = [spc EXCEPT ![s] = "open"]
    /\ UNCHANGED <<path, markers, lease, fd, opened, mounted, tail, loaderVars, removerVars>>

\* heartbeat: the marker refreshed, and the lock taken again if its file moved.
Heartbeat(s) ==
    /\ s \in mounted /\ spc[s] = "idle"
    /\ \/ /\ lease[s] = "held" /\ fd[s] # None /\ fd[s] # path
          /\ fd' = [fd EXCEPT ![s] = None]
          /\ spc' = [spc EXCEPT ![s] = "open"]
          /\ UNCHANGED <<path, markers>>
       \/ /\ lease[s] = "closing" \/ (lease[s] = "held" /\ fd[s] = path)
          /\ Touch(s, lease[s])
          /\ UNCHANGED <<fd, spc>>
    /\ UNCHANGED <<lease, opened, mounted, tail, loaderVars, removerVars>>

\* release_later: a closed screen's marker outlives it, its lock does not.
ReleaseLater(s) ==
    /\ s \in mounted /\ lease[s] = "held"
    /\ lease' = [lease EXCEPT ![s] = "closing"]
    /\ fd' = [fd EXCEPT ![s] = None]
    /\ Touch(s, "closing")
    /\ UNCHANGED <<spc, opened, mounted, tail, loaderVars, removerVars>>

\* release, after the grace: by then the screen's reads have answered, and its
\* threads that polled for a lock have given up or hold it.
Release(s) ==
    /\ lease[s] = "closing" /\ tail[s] = None
    /\ \A l \in Loaders : ScreenOf[l] = s => lpc[l] \in {"idle", "hold"}
    /\ lease' = [lease EXCEPT ![s] = "none"]
    /\ markers' = markers \ {s}
    /\ mounted' = mounted \ {s}
    /\ UNCHANGED <<path, fd, spc, opened, tail, loaderVars, removerVars>>

\* A log page is written into the job's cache, under the lease alone.
TailOpen(s) ==
    /\ s \in mounted /\ tail[s] = None
    /\ MakeDir
    /\ tail' = [tail EXCEPT ![s] = path']
    /\ UNCHANGED <<markers, lease, fd, spc, opened, mounted, loaderVars, removerVars>>

TailDone(s) ==
    /\ tail[s] # None
    /\ tail' = [tail EXCEPT ![s] = None]
    /\ UNCHANGED <<path, markers, lease, fd, spc, opened, mounted, loaderVars, removerVars>>

-----------------------------------------------------------------------------
(* A screen's download, under a DownloadLock of the part.                   *)

Open(l) == ScreenOf[l] \in mounted /\ lease[ScreenOf[l]] = "held"

LoadStart(l) ==
    /\ lpc[l] = "idle" /\ Open(l)
    /\ lpc' = [lpc EXCEPT ![l] = "wait"]
    /\ UNCHANGED <<path, markers, screenVars, lfd, into, removerVars>>

\* acquire: the in-process lock, asked for while keep_waiting() is true.
LoadThread(l) ==
    /\ lpc[l] = "wait" /\ Open(l)
    /\ ThreadHolders(HomeOf(l)) = {}
    /\ lpc' = [lpc EXCEPT ![l] = "open"]
    /\ UNCHANGED <<path, markers, screenVars, lfd, into, removerVars>>

\* acquire: keep_waiting() is false, the screen has closed.
LoadGiveUp(l) ==
    /\ lpc[l] = "wait" /\ ~Open(l)
    /\ lpc' = [lpc EXCEPT ![l] = "idle"]
    /\ UNCHANGED <<path, markers, screenVars, lfd, into, removerVars>>

\* _try_file_lock: open the lock file.
LoadOpen(l) ==
    /\ lpc[l] = "open"
    /\ MakeDir
    /\ lfd' = [lfd EXCEPT ![l] = path']
    /\ lpc' = [lpc EXCEPT ![l] = "lock"]
    /\ UNCHANGED <<markers, screenVars, into, removerVars>>

\* Mutant: the file of a lock that another holds is not closed.
LoadLockLeaks(l) ==
    /\ lpc[l] = "lock"
    /\ lpc' = [lpc EXCEPT ![l] = IF PartHolders(lfd[l]) = {} THEN "hold"
                                 ELSE IF Open(l) THEN "open" ELSE "idle"]
    /\ UNCHANGED <<path, markers, screenVars, lfd, into, removerVars>>

\* _try_file_lock: flock(LOCK_EX | LOCK_NB); acquire polls while it is wanted.
LoadLock(l) ==
    /\ lpc[l] = "lock"
    /\ \/ /\ PartHolders(lfd[l]) = {}
          /\ lpc' = [lpc EXCEPT ![l] = "hold"]
          /\ UNCHANGED lfd
       \/ /\ PartHolders(lfd[l]) # {}
          /\ lpc' = [lpc EXCEPT ![l] = IF Open(l) THEN "open" ELSE "idle"]
          /\ lfd' = [lfd EXCEPT ![l] = None]
    /\ UNCHANGED <<path, markers, screenVars, into, removerVars>>

\* The download writes a file at the path.
LoadWrite(l) ==
    /\ lpc[l] = "hold" /\ into[l] = None
    /\ MakeDir
    /\ into' = [into EXCEPT ![l] = path']
    /\ UNCHANGED <<markers, screenVars, lpc, lfd, removerVars>>

LoadWritten(l) ==
    /\ into[l] # None
    /\ into' = [into EXCEPT ![l] = None]
    /\ UNCHANGED <<path, markers, screenVars, lpc, lfd, removerVars>>

LoadRelease(l) ==
    /\ lpc[l] = "hold" /\ into[l] = None
    /\ lpc' = [lpc EXCEPT ![l] = "idle"]
    /\ lfd' = [lfd EXCEPT ![l] = None]
    /\ UNCHANGED <<path, markers, screenVars, into, removerVars>>

-----------------------------------------------------------------------------
(* A cache pass reaching this job (_remove_unless_in_use).                  *)

\* "in_use": everything taken so far is let go.
InUse(r) ==
    /\ rpc' = [rpc EXCEPT ![r] = "idle"]
    /\ rlease' = [rlease EXCEPT ![r] = None]
    /\ rlock' = [rlock EXCEPT ![r] = None]

Goto(r, label) == rpc' = [rpc EXCEPT ![r] = label] /\ UNCHANGED <<rlease, rlock>>

\* The pass lock, then the first look at the markers, and the .lease opened.
RemoveStart(r) ==
    /\ rpc[r] = "idle" /\ path # None
    /\ PassesSerialized => \A q \in Removers : rpc[q] = "idle"
    /\ markers = {}
    /\ rlease' = [rlease EXCEPT ![r] = path]
    /\ rpc' = [rpc EXCEPT ![r] = "lockLease"]
    /\ UNCHANGED <<path, markers, screenVars, loaderVars, rlock>>

RemoveLockLease(r) ==
    /\ rpc[r] = "lockLease"
    /\ IF Sharing(rlease[r]) \cup (Leasing(rlease[r]) \ {r}) = {}
       THEN Goto(r, "tryThread") ELSE InUse(r)
    /\ UNCHANGED <<path, markers, screenVars, loaderVars>>

\* DownloadLock.try_acquire: the in-process lock, the lock file, its flock.
RemoveTryThread(r) ==
    /\ rpc[r] = "tryThread"
    /\ IF ThreadHolders(Home[r]) = {} THEN Goto(r, "openLock") ELSE InUse(r)
    /\ UNCHANGED <<path, markers, screenVars, loaderVars>>

RemoveOpenLock(r) ==
    /\ rpc[r] = "openLock"
    /\ MakeDir
    /\ rlock' = [rlock EXCEPT ![r] = path']
    /\ rpc' = [rpc EXCEPT ![r] = "lockPart"]
    /\ UNCHANGED <<markers, screenVars, loaderVars, rlease>>

\* Mutant: the downloads' locks are not looked at.
RemoveIgnoresDownloads(r) ==
    /\ rpc[r] = "lockPart"
    /\ Goto(r, "recheck")
    /\ UNCHANGED <<path, markers, screenVars, loaderVars>>

RemoveLockPart(r) ==
    /\ rpc[r] = "lockPart"
    /\ IF PartHolders(rlock[r]) = {} THEN Goto(r, "recheck") ELSE InUse(r)
    /\ UNCHANGED <<path, markers, screenVars, loaderVars>>

RemoveRecheck(r) ==
    /\ rpc[r] = "recheck"
    /\ IF markers = {} THEN Goto(r, "rename") ELSE InUse(r)
    /\ UNCHANGED <<path, markers, screenVars, loaderVars>>

\* Whatever is at the path is moved aside; what is deleted there is nobody's.
RemoveRename(r) ==
    /\ rpc[r] = "rename"
    /\ path' = None
    /\ markers' = {}
    /\ Goto(r, "release")
    /\ UNCHANGED <<screenVars, loaderVars>>

RemoveRelease(r) ==
    /\ rpc[r] = "release"
    /\ InUse(r)
    /\ UNCHANGED <<path, markers, screenVars, loaderVars>>

-----------------------------------------------------------------------------
(* A TUI is killed: its locks go, its markers stay until they expire.       *)

Kill(p) ==
    LET gone == {a \in Screens \cup Removers : Home[a] = p}
        ended == {l \in Loaders : HomeOf(l) = p}
        Cleared(f, S, v) == [a \in DOMAIN f |-> IF a \in S THEN v ELSE f[a]]
    IN  /\ lease' = Cleared(lease, gone, "none")
        /\ fd' = Cleared(fd, gone, None)
        /\ spc' = Cleared(spc, gone, "idle")
        /\ opened' = Cleared(opened, gone, None)
        /\ mounted' = mounted \ gone
        /\ tail' = Cleared(tail, gone, None)
        /\ lpc' = Cleared(lpc, ended, "idle")
        /\ lfd' = Cleared(lfd, ended, None)
        /\ into' = Cleared(into, ended, None)
        /\ rpc' = Cleared(rpc, gone, "idle")
        /\ rlease' = Cleared(rlease, gone, None)
        /\ rlock' = Cleared(rlock, gone, None)
        /\ UNCHANGED <<path, markers>>

\* A marker nobody refreshes is stale after LEASE_STALE_SECONDS.
Expire(s) ==
    /\ s \in markers /\ lease[s] = "none"
    /\ markers' = markers \ {s}
    /\ UNCHANGED <<path, screenVars, loaderVars, removerVars>>

LeaseStep(s) == LeaseOpen(s) \/ LeaseLock(s) \/ LeaseCompare(s) \/ LeaseTouch(s)

RemoveStep(r) ==
    \/ RemoveLockLease(r) \/ RemoveTryThread(r) \/ RemoveOpenLock(r)
    \/ RemoveLockPart(r) \/ RemoveRecheck(r) \/ RemoveRename(r) \/ RemoveRelease(r)

ScreenStep(s) ==
    \/ Acquire(s) \/ LeaseStep(s) \/ LeaseRetry(s) \/ Heartbeat(s) \/ ReleaseLater(s)
    \/ Release(s) \/ TailOpen(s) \/ TailDone(s) \/ Expire(s)

LoadStep(l) ==
    \/ LoadStart(l) \/ LoadThread(l) \/ LoadGiveUp(l) \/ LoadOpen(l) \/ LoadLock(l)
    \/ LoadWrite(l) \/ LoadWritten(l) \/ LoadRelease(l)

Next ==
    \/ \E s \in Screens : ScreenStep(s)
    \/ \E l \in Loaders : LoadStep(l)
    \/ \E r \in Removers : RemoveStart(r) \/ RemoveStep(r)
    \/ \E p \in Processes : Kill(p)

Spec == Init /\ [][Next]_vars

\* The scheduler thread and the heartbeat timer run what is due, and a call that
\* has begun goes on.
FairSpec ==
    /\ Spec
    /\ \A s \in Screens :
           WF_vars(LeaseStep(s)) /\ WF_vars(LeaseRetry(s)) /\ WF_vars(Heartbeat(s))
    /\ \A r \in Removers : WF_vars(RemoveStep(r))

-----------------------------------------------------------------------------
(* What should be true.                                                     *)

\* The type of every variable: a descriptor is open on a directory or not at all, and
\* a removal is at one of its own steps, none of which waits for a download.
TypeOK ==
    /\ path \in Dirs \cup {None}
    /\ markers \subseteq Screens
    /\ lease \in [Screens -> {"none", "held", "closing"}]
    /\ fd \in [Screens -> Dirs \cup {None}]
    /\ spc \in [Screens -> {"idle", "open", "lock", "compare", "touch"}]
    /\ opened \in [Screens -> Dirs \cup {None}]
    /\ mounted \subseteq Screens
    /\ tail \in [Screens -> Dirs \cup {None}]
    /\ lpc \in [Loaders -> {"idle", "wait", "open", "lock", "hold"}]
    /\ lfd \in [Loaders -> Dirs \cup {None}]
    /\ into \in [Loaders -> Dirs \cup {None}]
    /\ rpc \in [Removers -> {"idle", "lockLease", "tryThread", "openLock", "lockPart",
                             "recheck", "rename", "release"}]
    /\ rlease \in [Removers -> Dirs \cup {None}]
    /\ rlock \in [Removers -> Dirs \cup {None}]

\* DownloadLock: one downloader per output directory.  No two downloads, of
\* any process, hold the part's lock at once.
OneDownload == \A l, m \in Loaders : lpc[l] = "hold" /\ lpc[m] = "hold" => l = m

\* A removal never moves a directory aside under a write: a log page or a
\* download's file that has been opened is still at the job's path.
NothingWrittenAside ==
    /\ \A s \in Screens : tail[s] # None => tail[s] = path
    /\ \A l \in Loaders : into[l] # None => into[l] = path

\* No descriptor outlives its use: a closed screen's lock is let go at once,
\* whichever call was taking it when the screen closed, and a lock file is open
\* only while its lock is asked for or held.
DescriptorsClosed ==
    /\ \A s \in Screens : lease[s] # "held" => fd[s] = None
    /\ \A s \in Screens : opened[s] # None <=> spc[s] \in {"lock", "compare"}
    /\ \A l \in Loaders : lfd[l] # None <=> lpc[l] \in {"lock", "hold"}
    /\ \A r \in Removers : rlock[r] # None => rpc[r] \in {"lockPart", "recheck", "rename", "release"}

\* A lease that has its lock protects the job a reader of the path sees: the
\* lock is on the directory at the path, and its marker is in it.
LeaseProtects ==
    \A s \in Screens : fd[s] # None /\ spc[s] = "idle" => fd[s] = path /\ s \in markers

\* The guards together, and what every call must clean up.
DownloadsAreGuarded == OneDownload /\ NothingWrittenAside /\ LeaseProtects
NoDescriptorLeaks == TypeOK /\ DescriptorsClosed

\* Once passes stop reaching the job, an open screen's lease has its lock on the
\* directory at the path and its marker in it, whatever removals were under way
\* when it opened and however often its wait timed out.
PassesEnd == <>[][\A r \in Removers : ~RemoveStart(r)]_vars
Waits(s) == s \in mounted /\ lease[s] = "held"
IsLeased(s) == lease[s] = "held" => fd[s] # None /\ fd[s] = path /\ s \in markers

------------------------------------------------------------------------------
(* Proofs about JobCache, for every set of processes, screens, downloads,    *)
(* removals and directories.                                                 *)

-----------------------------------------------------------------------------
(* The inductive invariant.                                                  *)

Removing(r) == rpc[r] \in {"tryThread", "openLock", "lockPart", "recheck", "rename", "release"}
HasPart(r) == rpc[r] \in {"recheck", "rename", "release"}

\* Under the pass lock, one removal runs at a time.
OnePass == \A q, r \in Removers : rpc[q] # "idle" /\ rpc[r] # "idle" => q = r

\* Until it has moved the directory aside, a removal's files are in the directory at the path.
RemovesPath ==
    \A r \in Removers :
        /\ rpc[r] # "idle" => rlease[r] # None
        /\ rpc[r] \notin {"idle", "release"} => rlease[r] = path
        /\ rpc[r] \in {"lockPart", "recheck", "rename"} => rlock[r] = path

\* A lease and a removal exclude each other.
LeaseExcludes ==
    \A s \in Screens, r \in Removers :
        Removing(r) => rlease[r] # fd[s] /\ (spc[s] = "compare" => rlease[r] # opened[s])

\* A screen that holds its lock holds it on the directory at the path; it has it as soon as its
\* call has ended, and while it is mounted its marker is in the directory.
ScreensAreLeased ==
    \A s \in Screens :
        /\ fd[s] # None => fd[s] = path /\ lease[s] = "held" /\ spc[s] \in {"idle", "touch"}
        /\ spc[s] = "idle" /\ fd[s] # None => s \in mounted
        /\ spc[s] = "touch" /\ lease[s] = "held" => fd[s] # None
        /\ s \in mounted => /\ spc[s] = "idle" /\ lease[s] # "none" /\ s \in markers
                            /\ lease[s] = "held" => fd[s] # None

\* Nothing is moved aside while a screen is mounted.
RenamesAlone == \A r \in Removers : rpc[r] = "rename" => mounted = {}

\* A log page and a download are in the directory at the path; until a download has its lock its
\* screen stays.
WritesAtPath ==
    /\ \A s \in Screens : tail[s] # None => s \in mounted /\ tail[s] = path
    /\ \A l \in Loaders :
        /\ lpc[l] \in {"wait", "open", "lock"} => ScreenOf[l] \in mounted
        /\ lpc[l] \in {"lock", "hold"} => lfd[l] = path
        /\ into[l] # None => lpc[l] = "hold" /\ into[l] = path

\* A download and a removal do not hold one part's lock.
PartExcludes ==
    \A l \in Loaders, r \in Removers : lpc[l] = "hold" /\ HasPart(r) => lfd[l] # rlock[r]

Clean == TypeOK /\ DescriptorsClosed
Guarded ==
    /\ Clean
    /\ OnePass /\ RemovesPath /\ LeaseExcludes /\ ScreensAreLeased /\ RenamesAlone
    /\ WritesAtPath /\ PartExcludes /\ OneDownload

-----------------------------------------------------------------------------
(* The directory at the path.                                                *)

\* mkdir makes a directory at the path, and leaves one that is there.
LEMMA DirIsMade ==
    ASSUME MakeDir, path \in Dirs \cup {None}
    PROVE  path' \in Dirs /\ path' # None /\ (path # None => path' = path)
  BY DirsAssumption DEF MakeDir, Unused, None

-----------------------------------------------------------------------------
(* Types and descriptors, whatever the switches.                             *)

LEMMA CleanAtFirst == Init => Clean
  BY DirsAssumption DEF Init, Clean, TypeOK, DescriptorsClosed, None

LEMMA CleanScreens ==
    ASSUME Clean, NEW s \in Screens, ScreenStep(s)
    PROVE  Clean'
  <1>1. Acquire(s) => Clean'
    BY DirIsMade, DirsAssumption DEF Acquire, Touch, Clean, TypeOK, DescriptorsClosed, None, screenVars, loaderVars, removerVars
  <1>2. LeaseOpen(s) => Clean'
    BY DirIsMade, DirsAssumption DEF LeaseOpen, Clean, TypeOK, DescriptorsClosed, None, screenVars, loaderVars, removerVars
  <1>3. LeaseLock(s) => Clean'
    BY DirsAssumption DEF LeaseLock, TryAgain, Clean, TypeOK, DescriptorsClosed, None, screenVars, loaderVars, removerVars
  <1>4. LeaseCompare(s) => Clean'
    BY DirsAssumption DEF LeaseCompare, TryAgain, Clean, TypeOK, DescriptorsClosed, None, screenVars, loaderVars, removerVars
  <1>5. LeaseTouch(s) => Clean'
    BY DirIsMade, DirsAssumption DEF LeaseTouch, Touch, Clean, TypeOK, DescriptorsClosed, None, screenVars, loaderVars, removerVars
  <1>6. LeaseRetry(s) => Clean'
    BY DirsAssumption DEF LeaseRetry, Clean, TypeOK, DescriptorsClosed, None, screenVars, loaderVars, removerVars
  <1>7. Heartbeat(s) => Clean'
    BY DirIsMade, DirsAssumption DEF Heartbeat, Touch, Clean, TypeOK, DescriptorsClosed, None, screenVars, loaderVars, removerVars
  <1>8. ReleaseLater(s) => Clean'
    BY DirIsMade, DirsAssumption DEF ReleaseLater, Touch, Clean, TypeOK, DescriptorsClosed, None, screenVars, loaderVars, removerVars
  <1>9. Release(s) => Clean'
    BY DirsAssumption DEF Release, Clean, TypeOK, DescriptorsClosed, None, screenVars, loaderVars, removerVars
  <1>10. TailOpen(s) => Clean'
    BY DirIsMade, DirsAssumption DEF TailOpen, Clean, TypeOK, DescriptorsClosed, None, screenVars, loaderVars, removerVars
  <1>11. TailDone(s) => Clean'
    BY DirsAssumption DEF TailDone, Clean, TypeOK, DescriptorsClosed, None, screenVars, loaderVars, removerVars
  <1>12. Expire(s) => Clean'
    BY DirsAssumption DEF Expire, Clean, TypeOK, DescriptorsClosed, None, screenVars, loaderVars, removerVars
  <1> QED
    BY <1>1, <1>2, <1>3, <1>4, <1>5, <1>6, <1>7, <1>8, <1>9, <1>10, <1>11, <1>12 DEF ScreenStep, LeaseStep, LoadStep, RemoveStep

LEMMA CleanLoads ==
    ASSUME Clean, NEW l \in Loaders, LoadStep(l)
    PROVE  Clean'
  <1>1. LoadStart(l) => Clean'
    BY DirsAssumption DEF LoadStart, Clean, TypeOK, DescriptorsClosed, None, screenVars, loaderVars, removerVars
  <1>2. LoadThread(l) => Clean'
    BY DirsAssumption DEF LoadThread, Clean, TypeOK, DescriptorsClosed, None, screenVars, loaderVars, removerVars
  <1>3. LoadGiveUp(l) => Clean'
    BY DirsAssumption DEF LoadGiveUp, Clean, TypeOK, DescriptorsClosed, None, screenVars, loaderVars, removerVars
  <1>4. LoadOpen(l) => Clean'
    BY DirIsMade, DirsAssumption DEF LoadOpen, Clean, TypeOK, DescriptorsClosed, None, screenVars, loaderVars, removerVars
  <1>5. LoadLock(l) => Clean'
    BY DirsAssumption DEF LoadLock, Clean, TypeOK, DescriptorsClosed, None, screenVars, loaderVars, removerVars
  <1>6. LoadWrite(l) => Clean'
    BY DirIsMade, DirsAssumption DEF LoadWrite, Clean, TypeOK, DescriptorsClosed, None, screenVars, loaderVars, removerVars
  <1>7. LoadWritten(l) => Clean'
    BY DirsAssumption DEF LoadWritten, Clean, TypeOK, DescriptorsClosed, None, screenVars, loaderVars, removerVars
  <1>8. LoadRelease(l) => Clean'
    BY DirsAssumption DEF LoadRelease, Clean, TypeOK, DescriptorsClosed, None, screenVars, loaderVars, removerVars
  <1> QED
    BY <1>1, <1>2, <1>3, <1>4, <1>5, <1>6, <1>7, <1>8 DEF ScreenStep, LeaseStep, LoadStep, RemoveStep

LEMMA CleanRemovals ==
    ASSUME Clean, NEW r \in Removers, RemoveStart(r) \/ RemoveStep(r)
    PROVE  Clean'
  <1>1. RemoveStart(r) => Clean'
    BY DirsAssumption DEF RemoveStart, Clean, TypeOK, DescriptorsClosed, None, screenVars, loaderVars, removerVars
  <1>2. RemoveLockLease(r) => Clean'
    BY DirsAssumption DEF RemoveLockLease, Goto, InUse, Clean, TypeOK, DescriptorsClosed, None, screenVars, loaderVars, removerVars
  <1>3. RemoveTryThread(r) => Clean'
    BY DirsAssumption DEF RemoveTryThread, Goto, InUse, Clean, TypeOK, DescriptorsClosed, None, screenVars, loaderVars, removerVars
  <1>4. RemoveOpenLock(r) => Clean'
    BY DirIsMade, DirsAssumption DEF RemoveOpenLock, Clean, TypeOK, DescriptorsClosed, None, screenVars, loaderVars, removerVars
  <1>5. RemoveLockPart(r) => Clean'
    BY DirsAssumption DEF RemoveLockPart, Goto, InUse, Clean, TypeOK, DescriptorsClosed, None, screenVars, loaderVars, removerVars
  <1>6. RemoveRecheck(r) => Clean'
    BY DirsAssumption DEF RemoveRecheck, Goto, InUse, Clean, TypeOK, DescriptorsClosed, None, screenVars, loaderVars, removerVars
  <1>7. RemoveRename(r) => Clean'
    BY DirsAssumption DEF RemoveRename, Goto, Clean, TypeOK, DescriptorsClosed, None, screenVars, loaderVars, removerVars
  <1>8. RemoveRelease(r) => Clean'
    BY DirsAssumption DEF RemoveRelease, InUse, Clean, TypeOK, DescriptorsClosed, None, screenVars, loaderVars, removerVars
  <1> QED
    BY <1>1, <1>2, <1>3, <1>4, <1>5, <1>6, <1>7, <1>8 DEF ScreenStep, LeaseStep, LoadStep, RemoveStep

LEMMA CleanKill ==
    ASSUME Clean, NEW p \in Processes, Kill(p)
    PROVE  Clean'
  BY DirsAssumption DEF Kill, Clean, TypeOK, DescriptorsClosed, None, HomeOf, screenVars, loaderVars, removerVars
-----------------------------------------------------------------------------
(* Who holds what, while no screen gives up its lock's wait and passes are    *)
(* serialized.                                                               *)

Patient == ~LeaseMayTimeOut /\ PassesSerialized

LEMMA GuardedAtFirst == Init => Guarded
  BY CleanAtFirst
     DEF Init, Guarded, OnePass, RemovesPath, LeaseExcludes, ScreensAreLeased, RenamesAlone, WritesAtPath,
         PartExcludes, OneDownload, Removing, HasPart, None

LEMMA GuardedScreens ==
    ASSUME Patient, Guarded, NEW s \in Screens, ScreenStep(s)
    PROVE  Guarded'
  <1>0. Clean'
    BY CleanScreens DEF Guarded
  <1>1. Acquire(s) => Guarded'
    BY <1>0, DirIsMade, DirsAssumption, ActorsAssumption
       DEF Acquire, Touch,
           Guarded, OnePass, RemovesPath, LeaseExcludes, ScreensAreLeased, RenamesAlone, WritesAtPath, PartExcludes,
           OneDownload, Removing, HasPart, Patient, Clean, TypeOK, DescriptorsClosed, None, screenVars, loaderVars, removerVars
  <1>2. LeaseOpen(s) => Guarded'
    BY <1>0, DirIsMade, DirsAssumption, ActorsAssumption
       DEF LeaseOpen,
           Guarded, OnePass, RemovesPath, LeaseExcludes, ScreensAreLeased, RenamesAlone, WritesAtPath, PartExcludes,
           OneDownload, Removing, HasPart, Patient, Clean, TypeOK, DescriptorsClosed, None, screenVars, loaderVars, removerVars
  <1>3. ASSUME LeaseLock(s) PROVE Guarded'
    <2>1. OnePass'
      BY <1>3, <1>0, DirsAssumption, ActorsAssumption
         DEF LeaseLock, TryAgain, Leasing,
           Guarded, OnePass, RemovesPath, LeaseExcludes, ScreensAreLeased, RenamesAlone, WritesAtPath, PartExcludes,
           OneDownload, Removing, HasPart, Patient, Clean, TypeOK, DescriptorsClosed, None, screenVars, loaderVars, removerVars
    <2>2. RemovesPath'
      BY <1>3, <1>0, DirsAssumption, ActorsAssumption
         DEF LeaseLock, TryAgain, Leasing,
           Guarded, OnePass, RemovesPath, LeaseExcludes, ScreensAreLeased, RenamesAlone, WritesAtPath, PartExcludes,
           OneDownload, Removing, HasPart, Patient, Clean, TypeOK, DescriptorsClosed, None, screenVars, loaderVars, removerVars
    <2>3. LeaseExcludes'
      BY <1>3, <1>0, DirsAssumption, ActorsAssumption
         DEF LeaseLock, TryAgain, Leasing,
           Guarded, OnePass, RemovesPath, LeaseExcludes, ScreensAreLeased, RenamesAlone, WritesAtPath, PartExcludes,
           OneDownload, Removing, HasPart, Patient, Clean, TypeOK, DescriptorsClosed, None, screenVars, loaderVars, removerVars
    <2>4. ScreensAreLeased'
      BY <1>3, <1>0, DirsAssumption, ActorsAssumption
         DEF LeaseLock, TryAgain, Leasing,
           Guarded, OnePass, RemovesPath, LeaseExcludes, ScreensAreLeased, RenamesAlone, WritesAtPath, PartExcludes,
           OneDownload, Removing, HasPart, Patient, Clean, TypeOK, DescriptorsClosed, None, screenVars, loaderVars, removerVars
    <2>5. RenamesAlone'
      BY <1>3, <1>0, DirsAssumption, ActorsAssumption
         DEF LeaseLock, TryAgain, Leasing,
           Guarded, OnePass, RemovesPath, LeaseExcludes, ScreensAreLeased, RenamesAlone, WritesAtPath, PartExcludes,
           OneDownload, Removing, HasPart, Patient, Clean, TypeOK, DescriptorsClosed, None, screenVars, loaderVars, removerVars
    <2>6. WritesAtPath'
      BY <1>3, <1>0, DirsAssumption, ActorsAssumption
         DEF LeaseLock, TryAgain, Leasing,
           Guarded, OnePass, RemovesPath, LeaseExcludes, ScreensAreLeased, RenamesAlone, WritesAtPath, PartExcludes,
           OneDownload, Removing, HasPart, Patient, Clean, TypeOK, DescriptorsClosed, None, screenVars, loaderVars, removerVars
    <2>7. PartExcludes'
      BY <1>3, <1>0, DirsAssumption, ActorsAssumption
         DEF LeaseLock, TryAgain, Leasing,
           Guarded, OnePass, RemovesPath, LeaseExcludes, ScreensAreLeased, RenamesAlone, WritesAtPath, PartExcludes,
           OneDownload, Removing, HasPart, Patient, Clean, TypeOK, DescriptorsClosed, None, screenVars, loaderVars, removerVars
    <2>8. OneDownload'
      BY <1>3, <1>0, DirsAssumption, ActorsAssumption
         DEF LeaseLock, TryAgain, Leasing,
           Guarded, OnePass, RemovesPath, LeaseExcludes, ScreensAreLeased, RenamesAlone, WritesAtPath, PartExcludes,
           OneDownload, Removing, HasPart, Patient, Clean, TypeOK, DescriptorsClosed, None, screenVars, loaderVars, removerVars
    <2> QED
      BY <1>0, <2>1, <2>2, <2>3, <2>4, <2>5, <2>6, <2>7, <2>8 DEF Guarded
  <1>4. LeaseCompare(s) => Guarded'
    BY SMTT(20), <1>0, DirsAssumption, ActorsAssumption
       DEF LeaseCompare, TryAgain,
           Guarded, OnePass, RemovesPath, LeaseExcludes, ScreensAreLeased, RenamesAlone, WritesAtPath, PartExcludes,
           OneDownload, Removing, HasPart, Patient, Clean, TypeOK, DescriptorsClosed, None, screenVars, loaderVars, removerVars
  <1>5. LeaseTouch(s) => Guarded'
    BY <1>0, DirIsMade, DirsAssumption, ActorsAssumption
       DEF LeaseTouch, Touch,
           Guarded, OnePass, RemovesPath, LeaseExcludes, ScreensAreLeased, RenamesAlone, WritesAtPath, PartExcludes,
           OneDownload, Removing, HasPart, Patient, Clean, TypeOK, DescriptorsClosed, None, screenVars, loaderVars, removerVars
  <1>6. LeaseRetry(s) => Guarded'
    BY <1>0, DirsAssumption, ActorsAssumption
       DEF LeaseRetry,
           Guarded, OnePass, RemovesPath, LeaseExcludes, ScreensAreLeased, RenamesAlone, WritesAtPath, PartExcludes,
           OneDownload, Removing, HasPart, Patient, Clean, TypeOK, DescriptorsClosed, None, screenVars, loaderVars, removerVars
  <1>7. Heartbeat(s) => Guarded'
    BY <1>0, DirIsMade, DirsAssumption, ActorsAssumption
       DEF Heartbeat, Touch,
           Guarded, OnePass, RemovesPath, LeaseExcludes, ScreensAreLeased, RenamesAlone, WritesAtPath, PartExcludes,
           OneDownload, Removing, HasPart, Patient, Clean, TypeOK, DescriptorsClosed, None, screenVars, loaderVars, removerVars
  <1>8. ASSUME ReleaseLater(s) PROVE Guarded'
    <2>1. OnePass'
      BY <1>8, <1>0, DirIsMade, DirsAssumption, ActorsAssumption
         DEF ReleaseLater, Touch,
           Guarded, OnePass, RemovesPath, LeaseExcludes, ScreensAreLeased, RenamesAlone, WritesAtPath, PartExcludes,
           OneDownload, Removing, HasPart, Patient, Clean, TypeOK, DescriptorsClosed, None, screenVars, loaderVars, removerVars
    <2>2. RemovesPath'
      BY <1>8, <1>0, DirIsMade, DirsAssumption, ActorsAssumption
         DEF ReleaseLater, Touch,
           Guarded, OnePass, RemovesPath, LeaseExcludes, ScreensAreLeased, RenamesAlone, WritesAtPath, PartExcludes,
           OneDownload, Removing, HasPart, Patient, Clean, TypeOK, DescriptorsClosed, None, screenVars, loaderVars, removerVars
    <2>3. LeaseExcludes'
      BY <1>8, <1>0, DirIsMade, DirsAssumption, ActorsAssumption
         DEF ReleaseLater, Touch,
           Guarded, OnePass, RemovesPath, LeaseExcludes, ScreensAreLeased, RenamesAlone, WritesAtPath, PartExcludes,
           OneDownload, Removing, HasPart, Patient, Clean, TypeOK, DescriptorsClosed, None, screenVars, loaderVars, removerVars
    <2>4. ScreensAreLeased'
      BY <1>8, <1>0, DirIsMade, DirsAssumption, ActorsAssumption
         DEF ReleaseLater, Touch,
           Guarded, OnePass, RemovesPath, LeaseExcludes, ScreensAreLeased, RenamesAlone, WritesAtPath, PartExcludes,
           OneDownload, Removing, HasPart, Patient, Clean, TypeOK, DescriptorsClosed, None, screenVars, loaderVars, removerVars
    <2>5. RenamesAlone'
      BY <1>8, <1>0, DirIsMade, DirsAssumption, ActorsAssumption
         DEF ReleaseLater, Touch,
           Guarded, OnePass, RemovesPath, LeaseExcludes, ScreensAreLeased, RenamesAlone, WritesAtPath, PartExcludes,
           OneDownload, Removing, HasPart, Patient, Clean, TypeOK, DescriptorsClosed, None, screenVars, loaderVars, removerVars
    <2>6. WritesAtPath'
      BY <1>8, <1>0, DirIsMade, DirsAssumption, ActorsAssumption
         DEF ReleaseLater, Touch,
           Guarded, OnePass, RemovesPath, LeaseExcludes, ScreensAreLeased, RenamesAlone, WritesAtPath, PartExcludes,
           OneDownload, Removing, HasPart, Patient, Clean, TypeOK, DescriptorsClosed, None, screenVars, loaderVars, removerVars
    <2>7. PartExcludes'
      BY <1>8, <1>0, DirIsMade, DirsAssumption, ActorsAssumption
         DEF ReleaseLater, Touch,
           Guarded, OnePass, RemovesPath, LeaseExcludes, ScreensAreLeased, RenamesAlone, WritesAtPath, PartExcludes,
           OneDownload, Removing, HasPart, Patient, Clean, TypeOK, DescriptorsClosed, None, screenVars, loaderVars, removerVars
    <2>8. OneDownload'
      BY <1>8, <1>0, DirIsMade, DirsAssumption, ActorsAssumption
         DEF ReleaseLater, Touch,
           Guarded, OnePass, RemovesPath, LeaseExcludes, ScreensAreLeased, RenamesAlone, WritesAtPath, PartExcludes,
           OneDownload, Removing, HasPart, Patient, Clean, TypeOK, DescriptorsClosed, None, screenVars, loaderVars, removerVars
    <2> QED
      BY <1>0, <2>1, <2>2, <2>3, <2>4, <2>5, <2>6, <2>7, <2>8 DEF Guarded
  <1>9. Release(s) => Guarded'
    BY <1>0, DirsAssumption, ActorsAssumption
       DEF Release,
           Guarded, OnePass, RemovesPath, LeaseExcludes, ScreensAreLeased, RenamesAlone, WritesAtPath, PartExcludes,
           OneDownload, Removing, HasPart, Patient, Clean, TypeOK, DescriptorsClosed, None, screenVars, loaderVars, removerVars
  <1>10. TailOpen(s) => Guarded'
    BY <1>0, DirIsMade, DirsAssumption, ActorsAssumption
       DEF TailOpen,
           Guarded, OnePass, RemovesPath, LeaseExcludes, ScreensAreLeased, RenamesAlone, WritesAtPath, PartExcludes,
           OneDownload, Removing, HasPart, Patient, Clean, TypeOK, DescriptorsClosed, None, screenVars, loaderVars, removerVars
  <1>11. TailDone(s) => Guarded'
    BY <1>0, DirsAssumption, ActorsAssumption
       DEF TailDone,
           Guarded, OnePass, RemovesPath, LeaseExcludes, ScreensAreLeased, RenamesAlone, WritesAtPath, PartExcludes,
           OneDownload, Removing, HasPart, Patient, Clean, TypeOK, DescriptorsClosed, None, screenVars, loaderVars, removerVars
  <1>12. Expire(s) => Guarded'
    BY <1>0, DirsAssumption, ActorsAssumption
       DEF Expire,
           Guarded, OnePass, RemovesPath, LeaseExcludes, ScreensAreLeased, RenamesAlone, WritesAtPath, PartExcludes,
           OneDownload, Removing, HasPart, Patient, Clean, TypeOK, DescriptorsClosed, None, screenVars, loaderVars, removerVars
  <1> QED
    BY <1>1, <1>2, <1>3, <1>4, <1>5, <1>6, <1>7, <1>8, <1>9, <1>10, <1>11, <1>12 DEF ScreenStep, LeaseStep, LoadStep, RemoveStep

LEMMA GuardedLoads ==
    ASSUME Patient, Guarded, NEW l \in Loaders, LoadStep(l)
    PROVE  Guarded'
  <1>0. Clean'
    BY CleanLoads DEF Guarded
  <1>1. LoadStart(l) => Guarded'
    BY <1>0, DirsAssumption, ActorsAssumption
       DEF LoadStart, Open,
           Guarded, OnePass, RemovesPath, LeaseExcludes, ScreensAreLeased, RenamesAlone, WritesAtPath, PartExcludes,
           OneDownload, Removing, HasPart, Patient, Clean, TypeOK, DescriptorsClosed, None, screenVars, loaderVars, removerVars
  <1>2. LoadThread(l) => Guarded'
    BY <1>0, DirsAssumption, ActorsAssumption
       DEF LoadThread,
           Guarded, OnePass, RemovesPath, LeaseExcludes, ScreensAreLeased, RenamesAlone, WritesAtPath, PartExcludes,
           OneDownload, Removing, HasPart, Patient, Clean, TypeOK, DescriptorsClosed, None, screenVars, loaderVars, removerVars
  <1>3. LoadGiveUp(l) => Guarded'
    BY <1>0, DirsAssumption, ActorsAssumption
       DEF LoadGiveUp,
           Guarded, OnePass, RemovesPath, LeaseExcludes, ScreensAreLeased, RenamesAlone, WritesAtPath, PartExcludes,
           OneDownload, Removing, HasPart, Patient, Clean, TypeOK, DescriptorsClosed, None, screenVars, loaderVars, removerVars
  <1>4. LoadOpen(l) => Guarded'
    BY <1>0, DirIsMade, DirsAssumption, ActorsAssumption
       DEF LoadOpen,
           Guarded, OnePass, RemovesPath, LeaseExcludes, ScreensAreLeased, RenamesAlone, WritesAtPath, PartExcludes,
           OneDownload, Removing, HasPart, Patient, Clean, TypeOK, DescriptorsClosed, None, screenVars, loaderVars, removerVars
  <1>5. LoadLock(l) => Guarded'
    BY SMTT(20), <1>0, DirsAssumption, ActorsAssumption
       DEF LoadLock, PartHolders, Open,
           Guarded, OnePass, RemovesPath, LeaseExcludes, ScreensAreLeased, RenamesAlone, WritesAtPath, PartExcludes,
           OneDownload, Removing, HasPart, Patient, Clean, TypeOK, DescriptorsClosed, None, screenVars, loaderVars, removerVars
  <1>6. LoadWrite(l) => Guarded'
    BY <1>0, DirIsMade, DirsAssumption, ActorsAssumption
       DEF LoadWrite,
           Guarded, OnePass, RemovesPath, LeaseExcludes, ScreensAreLeased, RenamesAlone, WritesAtPath, PartExcludes,
           OneDownload, Removing, HasPart, Patient, Clean, TypeOK, DescriptorsClosed, None, screenVars, loaderVars, removerVars
  <1>7. LoadWritten(l) => Guarded'
    BY <1>0, DirsAssumption, ActorsAssumption
       DEF LoadWritten,
           Guarded, OnePass, RemovesPath, LeaseExcludes, ScreensAreLeased, RenamesAlone, WritesAtPath, PartExcludes,
           OneDownload, Removing, HasPart, Patient, Clean, TypeOK, DescriptorsClosed, None, screenVars, loaderVars, removerVars
  <1>8. LoadRelease(l) => Guarded'
    BY <1>0, DirsAssumption, ActorsAssumption
       DEF LoadRelease,
           Guarded, OnePass, RemovesPath, LeaseExcludes, ScreensAreLeased, RenamesAlone, WritesAtPath, PartExcludes,
           OneDownload, Removing, HasPart, Patient, Clean, TypeOK, DescriptorsClosed, None, screenVars, loaderVars, removerVars
  <1> QED
    BY <1>1, <1>2, <1>3, <1>4, <1>5, <1>6, <1>7, <1>8 DEF ScreenStep, LeaseStep, LoadStep, RemoveStep

LEMMA GuardedRemovals ==
    ASSUME Patient, Guarded, NEW r \in Removers, RemoveStart(r) \/ RemoveStep(r)
    PROVE  Guarded'
  <1>0. Clean'
    BY CleanRemovals DEF Guarded
  <1>1. RemoveStart(r) => Guarded'
    BY <1>0, DirsAssumption, ActorsAssumption
       DEF RemoveStart,
           Guarded, OnePass, RemovesPath, LeaseExcludes, ScreensAreLeased, RenamesAlone, WritesAtPath, PartExcludes,
           OneDownload, Removing, HasPart, Patient, Clean, TypeOK, DescriptorsClosed, None, screenVars, loaderVars, removerVars
  <1>2. RemoveLockLease(r) => Guarded'
    BY SMTT(20), <1>0, DirsAssumption, ActorsAssumption
       DEF RemoveLockLease, Goto, InUse, Sharing,
           Guarded, OnePass, RemovesPath, LeaseExcludes, ScreensAreLeased, RenamesAlone, WritesAtPath, PartExcludes,
           OneDownload, Removing, HasPart, Patient, Clean, TypeOK, DescriptorsClosed, None, screenVars, loaderVars, removerVars
  <1>3. RemoveTryThread(r) => Guarded'
    BY SMTT(20), <1>0, DirsAssumption, ActorsAssumption
       DEF RemoveTryThread, Goto, InUse,
           Guarded, OnePass, RemovesPath, LeaseExcludes, ScreensAreLeased, RenamesAlone, WritesAtPath, PartExcludes,
           OneDownload, Removing, HasPart, Patient, Clean, TypeOK, DescriptorsClosed, None, screenVars, loaderVars, removerVars
  <1>4. RemoveOpenLock(r) => Guarded'
    BY <1>0, DirIsMade, DirsAssumption, ActorsAssumption
       DEF RemoveOpenLock,
           Guarded, OnePass, RemovesPath, LeaseExcludes, ScreensAreLeased, RenamesAlone, WritesAtPath, PartExcludes,
           OneDownload, Removing, HasPart, Patient, Clean, TypeOK, DescriptorsClosed, None, screenVars, loaderVars, removerVars
  <1>5. ASSUME RemoveLockPart(r) PROVE Guarded'
    <2>1. OnePass'
      BY <1>5, <1>0, DirsAssumption, ActorsAssumption
         DEF RemoveLockPart, Goto, InUse, PartHolders,
           Guarded, OnePass, RemovesPath, LeaseExcludes, ScreensAreLeased, RenamesAlone, WritesAtPath, PartExcludes,
           OneDownload, Removing, HasPart, Patient, Clean, TypeOK, DescriptorsClosed, None, screenVars, loaderVars, removerVars
    <2>2. RemovesPath'
      BY <1>5, <1>0, DirsAssumption, ActorsAssumption
         DEF RemoveLockPart, Goto, InUse, PartHolders,
           Guarded, OnePass, RemovesPath, LeaseExcludes, ScreensAreLeased, RenamesAlone, WritesAtPath, PartExcludes,
           OneDownload, Removing, HasPart, Patient, Clean, TypeOK, DescriptorsClosed, None, screenVars, loaderVars, removerVars
    <2>3. LeaseExcludes'
      BY <1>5, <1>0, DirsAssumption, ActorsAssumption
         DEF RemoveLockPart, Goto, InUse, PartHolders,
           Guarded, OnePass, RemovesPath, LeaseExcludes, ScreensAreLeased, RenamesAlone, WritesAtPath, PartExcludes,
           OneDownload, Removing, HasPart, Patient, Clean, TypeOK, DescriptorsClosed, None, screenVars, loaderVars, removerVars
    <2>4. ScreensAreLeased'
      BY <1>5, <1>0, DirsAssumption, ActorsAssumption
         DEF RemoveLockPart, Goto, InUse, PartHolders,
           Guarded, OnePass, RemovesPath, LeaseExcludes, ScreensAreLeased, RenamesAlone, WritesAtPath, PartExcludes,
           OneDownload, Removing, HasPart, Patient, Clean, TypeOK, DescriptorsClosed, None, screenVars, loaderVars, removerVars
    <2>5. RenamesAlone'
      BY <1>5, <1>0, DirsAssumption, ActorsAssumption
         DEF RemoveLockPart, Goto, InUse, PartHolders,
           Guarded, OnePass, RemovesPath, LeaseExcludes, ScreensAreLeased, RenamesAlone, WritesAtPath, PartExcludes,
           OneDownload, Removing, HasPart, Patient, Clean, TypeOK, DescriptorsClosed, None, screenVars, loaderVars, removerVars
    <2>6. WritesAtPath'
      BY <1>5, <1>0, DirsAssumption, ActorsAssumption
         DEF RemoveLockPart, Goto, InUse, PartHolders,
           Guarded, OnePass, RemovesPath, LeaseExcludes, ScreensAreLeased, RenamesAlone, WritesAtPath, PartExcludes,
           OneDownload, Removing, HasPart, Patient, Clean, TypeOK, DescriptorsClosed, None, screenVars, loaderVars, removerVars
    <2>7. PartExcludes'
      BY <1>5, <1>0, DirsAssumption, ActorsAssumption
         DEF RemoveLockPart, Goto, InUse, PartHolders,
           Guarded, OnePass, RemovesPath, LeaseExcludes, ScreensAreLeased, RenamesAlone, WritesAtPath, PartExcludes,
           OneDownload, Removing, HasPart, Patient, Clean, TypeOK, DescriptorsClosed, None, screenVars, loaderVars, removerVars
    <2>8. OneDownload'
      BY <1>5, <1>0, DirsAssumption, ActorsAssumption
         DEF RemoveLockPart, Goto, InUse, PartHolders,
           Guarded, OnePass, RemovesPath, LeaseExcludes, ScreensAreLeased, RenamesAlone, WritesAtPath, PartExcludes,
           OneDownload, Removing, HasPart, Patient, Clean, TypeOK, DescriptorsClosed, None, screenVars, loaderVars, removerVars
    <2> QED
      BY <1>0, <2>1, <2>2, <2>3, <2>4, <2>5, <2>6, <2>7, <2>8 DEF Guarded
  <1>6. RemoveRecheck(r) => Guarded'
    BY SMTT(20), <1>0, DirsAssumption, ActorsAssumption
       DEF RemoveRecheck, Goto, InUse,
           Guarded, OnePass, RemovesPath, LeaseExcludes, ScreensAreLeased, RenamesAlone, WritesAtPath, PartExcludes,
           OneDownload, Removing, HasPart, Patient, Clean, TypeOK, DescriptorsClosed, None, screenVars, loaderVars, removerVars
  <1>7. RemoveRename(r) => Guarded'
    BY <1>0, DirsAssumption, ActorsAssumption
       DEF RemoveRename, Goto,
           Guarded, OnePass, RemovesPath, LeaseExcludes, ScreensAreLeased, RenamesAlone, WritesAtPath, PartExcludes,
           OneDownload, Removing, HasPart, Patient, Clean, TypeOK, DescriptorsClosed, None, screenVars, loaderVars, removerVars
  <1>8. RemoveRelease(r) => Guarded'
    BY <1>0, DirsAssumption, ActorsAssumption
       DEF RemoveRelease, InUse,
           Guarded, OnePass, RemovesPath, LeaseExcludes, ScreensAreLeased, RenamesAlone, WritesAtPath, PartExcludes,
           OneDownload, Removing, HasPart, Patient, Clean, TypeOK, DescriptorsClosed, None, screenVars, loaderVars, removerVars
  <1> QED
    BY <1>1, <1>2, <1>3, <1>4, <1>5, <1>6, <1>7, <1>8 DEF ScreenStep, LeaseStep, LoadStep, RemoveStep

LEMMA GuardedKill ==
    ASSUME Patient, Guarded, NEW p \in Processes, Kill(p)
    PROVE  Guarded'
  <1>0. Clean'
    BY CleanKill DEF Guarded
  <1>1. OnePass'
    BY <1>0, DirsAssumption, ActorsAssumption DEF Kill, HomeOf,
           Guarded, OnePass, RemovesPath, LeaseExcludes, ScreensAreLeased, RenamesAlone, WritesAtPath, PartExcludes,
           OneDownload, Removing, HasPart, Patient, Clean, TypeOK, DescriptorsClosed, None, screenVars, loaderVars, removerVars
  <1>2. RemovesPath'
    BY <1>0, DirsAssumption, ActorsAssumption DEF Kill, HomeOf,
           Guarded, OnePass, RemovesPath, LeaseExcludes, ScreensAreLeased, RenamesAlone, WritesAtPath, PartExcludes,
           OneDownload, Removing, HasPart, Patient, Clean, TypeOK, DescriptorsClosed, None, screenVars, loaderVars, removerVars
  <1>3. LeaseExcludes'
    BY <1>0, DirsAssumption, ActorsAssumption DEF Kill, HomeOf,
           Guarded, OnePass, RemovesPath, LeaseExcludes, ScreensAreLeased, RenamesAlone, WritesAtPath, PartExcludes,
           OneDownload, Removing, HasPart, Patient, Clean, TypeOK, DescriptorsClosed, None, screenVars, loaderVars, removerVars
  <1>4. ScreensAreLeased'
    BY <1>0, DirsAssumption, ActorsAssumption DEF Kill, HomeOf,
           Guarded, OnePass, RemovesPath, LeaseExcludes, ScreensAreLeased, RenamesAlone, WritesAtPath, PartExcludes,
           OneDownload, Removing, HasPart, Patient, Clean, TypeOK, DescriptorsClosed, None, screenVars, loaderVars, removerVars
  <1>5. RenamesAlone'
    BY <1>0, DirsAssumption, ActorsAssumption DEF Kill, HomeOf,
           Guarded, OnePass, RemovesPath, LeaseExcludes, ScreensAreLeased, RenamesAlone, WritesAtPath, PartExcludes,
           OneDownload, Removing, HasPart, Patient, Clean, TypeOK, DescriptorsClosed, None, screenVars, loaderVars, removerVars
  <1>6. WritesAtPath'
    BY <1>0, DirsAssumption, ActorsAssumption DEF Kill, HomeOf,
           Guarded, OnePass, RemovesPath, LeaseExcludes, ScreensAreLeased, RenamesAlone, WritesAtPath, PartExcludes,
           OneDownload, Removing, HasPart, Patient, Clean, TypeOK, DescriptorsClosed, None, screenVars, loaderVars, removerVars
  <1>7. PartExcludes'
    BY <1>0, DirsAssumption, ActorsAssumption DEF Kill, HomeOf,
           Guarded, OnePass, RemovesPath, LeaseExcludes, ScreensAreLeased, RenamesAlone, WritesAtPath, PartExcludes,
           OneDownload, Removing, HasPart, Patient, Clean, TypeOK, DescriptorsClosed, None, screenVars, loaderVars, removerVars
  <1>8. OneDownload'
    BY <1>0, DirsAssumption, ActorsAssumption DEF Kill, HomeOf,
           Guarded, OnePass, RemovesPath, LeaseExcludes, ScreensAreLeased, RenamesAlone, WritesAtPath, PartExcludes,
           OneDownload, Removing, HasPart, Patient, Clean, TypeOK, DescriptorsClosed, None, screenVars, loaderVars, removerVars
  <1> QED
    BY <1>0, <1>1, <1>2, <1>3, <1>4, <1>5, <1>6, <1>7, <1>8 DEF Guarded

-----------------------------------------------------------------------------
(* The theorems.                                                             *)

LEMMA CleanNext == Clean /\ [Next]_vars => Clean'
  <1> SUFFICES ASSUME Clean, [Next]_vars PROVE Clean'
    OBVIOUS
  <1>1. CASE \E s \in Screens : ScreenStep(s)
    BY <1>1, CleanScreens
  <1>2. CASE \E l \in Loaders : LoadStep(l)
    BY <1>2, CleanLoads
  <1>3. CASE \E r \in Removers : RemoveStart(r) \/ RemoveStep(r)
    BY <1>3, CleanRemovals
  <1>4. CASE \E p \in Processes : Kill(p)
    BY <1>4, CleanKill
  <1>5. CASE UNCHANGED vars
    BY <1>5 DEF Clean, TypeOK, DescriptorsClosed, vars, screenVars, loaderVars, removerVars
  <1> QED
    BY <1>1, <1>2, <1>3, <1>4, <1>5 DEF Next

LEMMA GuardedNext == Patient /\ Guarded /\ [Next]_vars => Guarded'
  <1> SUFFICES ASSUME Patient, Guarded, [Next]_vars PROVE Guarded'
    OBVIOUS
  <1>1. CASE \E s \in Screens : ScreenStep(s)
    BY <1>1, GuardedScreens
  <1>2. CASE \E l \in Loaders : LoadStep(l)
    BY <1>2, GuardedLoads
  <1>3. CASE \E r \in Removers : RemoveStart(r) \/ RemoveStep(r)
    BY <1>3, GuardedRemovals
  <1>4. CASE \E p \in Processes : Kill(p)
    BY <1>4, GuardedKill
  <1>5. CASE UNCHANGED vars
    BY <1>5 DEF Guarded, OnePass, RemovesPath, LeaseExcludes, ScreensAreLeased, RenamesAlone, WritesAtPath,
                PartExcludes, OneDownload, Removing, HasPart, Clean, TypeOK, DescriptorsClosed,
                vars, screenVars, loaderVars, removerVars
  <1> QED
    BY <1>1, <1>2, <1>3, <1>4, <1>5 DEF Next

\* What readers rely on follows from the invariant: one download at a time writes, nothing is written
\* into a directory that was moved aside, and a lease that has its lock has it on what readers see.
LEMMA GuardedProtects == Guarded => DownloadsAreGuarded
  BY DEF DownloadsAreGuarded, Guarded, ScreensAreLeased, WritesAtPath, NothingWrittenAside, LeaseProtects, Clean, TypeOK

\* Every variable has its type, and no descriptor of a lease, a download or a removal outlives its
\* use, whichever call was under way when its screen closed or its TUI was killed, and whether or not
\* a lease's wait may time out and passes are serialized.
THEOREM DescriptorsStayClosed == Spec => []NoDescriptorLeaks
  <1>1. Init => Clean
    BY CleanAtFirst
  <1>2. Clean /\ [Next]_vars => Clean'
    BY CleanNext
  <1>3. Clean => NoDescriptorLeaks
    BY DEF Clean, NoDescriptorLeaks
  <1> QED
    BY <1>1, <1>2, <1>3, PTL DEF Spec

\* If no screen gives up waiting for its lock and passes are serialized, however many TUIs share the
\* cache: two downloads never hold one part's lock, a removal never moves a directory aside under a
\* write, and a lease that has its lock protects the directory at the path.
THEOREM CacheIsGuarded ==
    ASSUME Patient
    PROVE  Spec => []DownloadsAreGuarded
  <1>1. Init => Guarded
    BY GuardedAtFirst
  <1>2. Guarded /\ [Next]_vars => Guarded'
    BY GuardedNext
  <1>3. Guarded => DownloadsAreGuarded
    BY GuardedProtects
  <1> QED
    BY <1>1, <1>2, <1>3, PTL DEF Spec
=============================================================================
