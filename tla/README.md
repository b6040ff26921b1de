# Verification of the cortex-training client

TLA+ models of the concurrent and crash-prone parts of the `cortex-training`
client library, command line, TUI and recipes, model-checked with TLC, with proofs of
the central invariants and refinements checked by TLAPS.  The code is
`src/src/cortex_training/` and `src/recipes/`; paths below are relative to the first
unless they start with `src/` or `recipes/`.

## 1. The system

A user trains models as jobs of a Snowflake service.  The client submits training
requests over REST and polls their results; the service saves each job's logs and
metrics as gzip chunks on an experiment run's stage; the client, the command line and
the TUI download those chunks into files.  Several TUIs and command lines of one user
may run at once over one cache directory.  The recipes are programs that plan a job,
create it, run a training loop on it and release it.

| component | source | state it keeps | operations |
|---|---|---|---|
| artifact resume | `_artifact_download.py`, `client/core.py` 4857-5097 | per sub-job: data file, `.partial` file, a manifest beside each | plan, prepare, append, skip, checkpoint, finish, abort, promote, compact |
| chunk pipeline | `client/core.py` 5149-5435, `Spool` | futures, window, temp directory, preview fetches | submit, commit, preview, cancel, remove after |
| artifact sessions | `KeptSessions`, `SharedConnection`, `call_with_retry`, `run_bounded` | pool of kept sessions; a download's current and replaced sessions | take, keep, reopen, replace stale, abandon, close, attempt, time out |
| execution and stdout log downloads | `client/core.py` (`download_execution_logs`) | saved log and its manifest | list, fetch, replace |
| checkpoint downloads | `_checkpoint_download.py`, `tui/checkpoints.py` | `.partial` and finished files of an export | fetch on, rename, list |
| job cache | `tui/cache_cleanup.py`, `_download_lock.py`, `tui/logs.py` | markers, `.lease` and `.<part>.lock` flocks, in-process locks | lease, heartbeat, release later, lock, remove a job |
| training requests | `client/core.py` 3354-3531, 6641-7053, 7389-7537 | a submit's chunk index, retries, one restart; a poll's chunks and cursor; remembered calls | post, retry, replay, poll, log |
| training metrics log | `_training_log.py` | next step and call count per sub-job, one file per sub-job | record, forget step, prune |
| session authentication | `client/auth.py`, `_send` | session, token, lock, process id | get, renew, invalidate, close, fork |
| login, old config | `_login.py`, `_profiles.py`, `_convert.py` | profile file, `config.json` | login, convert, undo |
| choice of a connection | `connection.py`, `_picker.py`, `cli/commands.py` | - | resolve |
| telemetry, streams | `client/telemetry.py`, `client/core.py` (`_track_operation`, `stream_logs`, `wait_for_job`) | aggregates, bounded queue, sender thread; a thread's call and its outcome | record, emit, flush, close; follow, wait |
| stall check | `client/core.py` 5620-6464 | what is known of a job beside its download | look, read the job, list the console, warn |
| sampling calls | `client/core.py` (`generate`, `generate_stream`, `forward`, `weight_sync`) | windows looked up, a group's chunks, requests to poll | check lengths, submit, poll, stream |
| TUI saved-file readers | `tui/training.py`, `tui/serving.py`, `tui/resource.py`, `tui/saved_log.py` | per file: identity, names, offset, rows held | load, go on or start over |
| TUI tabs | `tui/detail_tabs.py`, `tui/serving_view.py`, `tui/resource_view.py` | what is shown, the load under way, what is asked for next | refresh, poll, rebuild a window |
| TUI log views and cache | `tui/logs.py`, `tui/log_cache.py` | cached pages, cursors, the tail and the download on screen | follow, jump, trim, switch, download |
| TUI resource metrics | `tui/resource.py` | raw samples, bins | add, fold, trim, rebin |
| job list, account, checkpoints | `tui/job_list.py`, `tui/account.py`, `tui/checkpoint_view.py`, `client/_account_jobs.py` | pages, load numbers, the table's rows, files read | list, search, page, draw, sort, fold, read files |
| recipes | `recipes/*/runner.py`, `recipes/distillation/` | pool of problems, rollouts, steps, episodes | one training step after another |
| planning of a job | `recipes/utils.py` | - | layer the settings, plan the replay caches |
| job lifecycle of scripts | `recipes/utils.py`, `recipes/model_deployment/` | the jobs a script created | create, wait, use, cancel |
| TUI shell | `tui/app.py`, `tui/screens.py`, `tui/views.py`, `tui/widgets.py`, `tui/format.py` | screens | layout, formatting |
| command line | `cli/commands.py`, `_environment.py`, `_database_setup.py` | what was saved and printed, the exit code | one command: connect, ask, wait or download, print, close; Ctrl-C in any of it |
| wire format | `wire.py` | - | encode, split, join, decode |

How they interact.  A TUI screen (`tui/logs.py`) takes a **lease** on the job's cache
directory when it opens and, for each load, a **download lock** on one part of it; under
that lock it calls the client's download, which takes a **session** from the kept pool,
LISTs the stage, lets the **pipeline** fetch chunks, and the writer appends them under
the **resume** protocol; then the metrics reader reads committed rows by the manifest,
**bins** them and hands them to a **tab**, and a compaction may drop old ones.  A **cache
pass** of any TUI removes jobs that no lease or lock protects.  Independently, a recipe's
**loop** runs on a job that was **planned** and created; it submits **requests** through
`_send`, whose **session token** all threads share, and polls them; each finished result
adds a row to the **training log**, which the TUI shows until the stage has it.  Each
operation is counted by the **telemetry**.

The behaviours that are hard, and what makes each component correct:

- *resume*: a crash between any two file system calls, a changed listing, damaged and
  vanished chunks, a compaction between downloads.  Correct when a manifest never claims
  what its file does not hold, saved progress survives, the destination is only replaced
  by a complete file, other programs that read by the manifest see what they were
  promised, and any leftover state leads to a complete file.
- *pipeline*: fetches end in any order; preview fetches are used again; a failure or a
  cancel leaves GETs running.  Correct when each chunk's rows go under its own name in
  order, disk use is bounded, and the temp directory is removed after the last fetch.
- *sessions*: several threads fail on one session at once; a kept session may be stale;
  abandoned attempts go on.  Correct when a session has one owner, is open while used,
  nothing runs on one that is kept, and a call always ends.
- *other downloads*: no lock guards an execution log or an export's file.  Correct when
  only a whole file has its name.
- *job cache*: flocks are on open files, renames move them; waits time out; screens
  close during a call.  Correct when a removal never takes a directory from under a
  screen or a download, one download runs per part, and no descriptor leaks.
- *requests*: answers are lost, POSTs arrive late, groups are forgotten, results are
  polled in any order.  Correct when a batch runs once, results are whole, a submit ends,
  and rows are logged once with the service's tags.
- *token*: several threads are refused on one token at once, the process forks, a
  sign-in fails.  Correct when one session is open, a refusal is held against the token
  it was for, and every call returns.
- *telemetry*: the worker may end just as a call is recorded; an answer may be lost.
  Correct when each call is counted, once.
- *login, conversion*: several programs write one file; any step may fail.  Correct when
  what is saved was checked, and a failed conversion has changed nothing.
- *readers and tabs*: they follow a file by identity, names and offset while downloads
  append to it, cut it and replace it; workers overtake each other.  Correct when a load
  that nothing raced ends with exactly the committed rows, no row counts twice, and a
  header says what is so of the rows below it.
- *logs*: a cursor may stick or be refused, two TUIs share a cache, late answers come
  after newer ones.  Correct when no line is missing without a note, and the pane is the
  selected sub-job's.
- *job list*: jobs come and end while pages are read; a draw keeps what it can of the last.
  Correct when a list never passes for more than it read, and the table has its rows and
  keeps the reader's place.
- *stall check*: it runs beside the download and is waited for only so long.  Correct when
  it says nothing of uploads that work, and tells a stall that lasts.
- *commands*: Ctrl-C or an error in any call.  Correct when what is printed and the exit
  code are so of what was saved and asked for.
- *recipes*: a run is broken off and run again on its job; a script's wait fails.
  Correct when each batch is applied once to the weights it was sampled from, a plan's
  caches hold what they promise, and no job is left with its GPUs.

`PROJECT.json` lists the hazards, each at its line, with the properties that cover it.

## 2. The plan

Modules, most important behaviour first; those that are written are without a mark.

| | module | models | abstract specification, composition or proofs |
|---|---|---|---|
| 1 | `ArtifactResume` | the files of one sub-job | implements 2 and 3; `ArtifactResumeProofs` |
| 2 | `CommittedRows` | what a reader by the manifest is promised | - |
| 3 | `SavedFile` | one saved file as other programs see it | - |
| 4 | `SavedReaders` | the training, console and resource readers | extends 3 |
| 5 | `JobCache` | leases, locks, removal | with its proofs |
| 6 | `ArtifactSessions` | kept pool, shared connection, retries | `ArtifactSessionsProofs` |
| 7 | `ChunkPipeline` | window, preview, spool, cancel | its `out` is what 1 appends; `ChunkPipelineProofs` |
| 8 | `TrainingRequests` | submit, poll, training log | external service; `TrainingRequestsProofs` |
| - | `SamplingCalls` | calls to sampling sub-jobs | external service |
| 9 | `ClientAuth` | token renewal by several threads, fork | `ClientProofs` |
| 10 | `Telemetry`, `StreamedLog` | aggregates, queue, worker, close; the outcome of a call, streams | `ClientProofs` |
| 11 | `LogTail` | following a log through the cache | `LogTailProofs` |
| 12 | `LogScreen` | the log screen around its tails | - |
| 13 | `JobList`, `JobTable`, `JobWalk` | the list, its table and the walks that read it | - |
| 14 | `SeriesBins`, `ResourcePane` | the resource tab's data and its windows | reads what 4 reads |
| 15 | `DetailPanes`, `CheckpointTab` | the other tabs | - |
| 16 | `LogFiles`, `ExportFiles`, `StallNotices` | downloads that no lock guards, and what a download warns of | `ArtifactResumeProofs` |
| 17 | `TrainingLoops`, `Episodes` | the recipes | drives 8 |
| 18 | `JobConfig`, `CapPlanning` | the planning of a job | `CapPlanning` with its proofs |
| 19 | `JobRuns` | jobs created and released | `ClientProofs` |
| 20 | `Login`, `Convert`, `ConnectionChoice` | profiles, the old config, the place to connect to | `ClientProofs` (`Convert`) |
| 21 | `Commands` | one command of the command line | - |
| - | cache passes | which jobs a pass picks, by sizes and ages | *not written*; would extend 5 |
| - | database setup | `_database_setup.py` | *not written*; would extend 20 |

Theorems, in order of what they say about the system: the invariants and refinements of
1; the guards of 5; the order of 7; the ownership of 6; what 8 counts and logs; the
session of 9; the counts of 10; the cursor of 11; the files of 16; the plans of 18; the jobs
of 19; the conversion of 20 (all proved, section 5).  Of what is left, `NoRowTwice` and
`QuietLoadIsExact` (4) filter sequences.  No module declares a RECURSIVE operator.

## 3. The modules

`PROJECT.json` "map" gives the source lines of every definition.

### ArtifactResume and CommittedRows

One sub-job's destination and its `.partial` file.  `data[f]` holds rows, `manifest[f]`
the manifest, `synced[f]` how much would survive a power loss.  `pc`, `plan` and `writer`
are the locals of the one actor that has the directory: a download or a compaction.

Each file system call is an action.  `Start` plans (`_plan_gzip_download`): extend the
destination, continue the partial file, or rebuild.  `ClearManifest`/`ClearPartial` are
`_prepare_gzip_plan`.  `Open`, `StartAppend`, `EndAppend`, `Damaged`, `Gone`, `Advance`,
`Sync`, `Record`, `Finish`, `Abort`, `Drop` are `ChunkWriter` and `_commit_chunk`;
`UnlinkDest`, `ReplaceDest`, `ReplaceManifest` are `_promote_partial`; `Compact` and
`RecordCompacted` are `compact_window`.  `Crash` keeps, of each file, the synced rows and
any number of those that are not.  The stage changes through `Upload` and `Remove`.

A chunk is a number that sorts as its name, a row is a number, and byte counts count
rows.  A manifest's name list is sorted and free of duplicates, so it is a set.
Renames survive a power loss in the order they were made (the code fsyncs the directory
only in the compaction).

`CommittedRows` is what a reader that respects the manifest sees: rows grow at the end
with whole chunks, lose their oldest, or vanish until a complete file appears.  `View`
maps `ArtifactResume` to it; between the two steps of a compaction the view is already
the cut one.

### SavedFile and SavedReaders

`SavedFile` is what another program sees of a saved file: its rows (`Torn` stands for a
row without its newline, always the last), its manifest, and the manifest that is about
to be written for rows already in place (`coming`: between the renames of a promotion and
between the two writes of a compaction).  `Write` is a `ChunkWriter`'s append or cut,
`Commit` its checkpoint, `Hide`, `Promote` and `Describe` are `_promote_partial`,
`Compact` and `Describe` are `compact_window`, `Stop` and `PowerLoss` the crashes.
`Coming` and `Visible` map `ArtifactResume` to it.

`SavedReaders` puts the TUI's readers beside it.  `TrainingManifest`, `TrainingSize`,
`TrainingStat`, `TrainingRows` are the four looks by path of `TrainingLoader._read`;
`ConsoleOpen`, `ConsoleManifest`, `ConsoleRows` are `ConsoleReader._read`, which keeps one
descriptor while the path may get another file (`live`, `old`); both run with no lock.
`ResourceLoad` is `ResourceLoader.load`, one step, as it holds the download lock; only its
file is compacted.  `seen` is what a reader keeps between loads: inode, names, offset, the
rows (`held`), and for the resource reader the row at the end of what it read.  A reader
reads whole rows only (`WholeRows`).

Assumptions: every download reads the same rows from a chunk (`Lossy` is empty in the
run: no chunk is damaged for one download and whole for a later one), and a chunk that
left the stage does not come back.  The training and console readers know a file by its
inode number, and the run does not give that number to a new file between two loads; the
resource reader compares the last row too, and for it numbers are reused freely.  What
happens without these assumptions is in the hazards.  Between two loads that race a
download the training reader may hold rows not committed yet (it reads the manifest of one
file and the rows of the next): `QuietLoadIsExact` promises the exact rows of the next
load that nothing races.

### JobCache

One job's directory, with as many screens, downloads and cache passes as the instance
gives, in several processes.  A directory is an instance number: a flock belongs to an
instance (`fd`, `opened`, `lfd`, `rlease`, `rlock`), and `path` is the one now at the
job's path.  Every system call that can interleave is a step: `LeaseOpen`, `LeaseLock`,
`LeaseCompare`, `LeaseTouch` are `JobLease._lock` and what follows it; `RemoveStart` to
`RemoveRelease` are `_remove_unless_in_use`; `LoadThread`, `LoadOpen`, `LoadLock` are
`DownloadLock.acquire`.  Of the three parts that are locked alike, one is modelled.
`LeaseMayTimeOut` says whether a lease wait may run out; `PassesSerialized` whether the
pass lock's file can be made.

Assumptions: a live screen's marker is never stale, and at the end of the grace
(`release_later`, several minutes) the closed screen's reads have answered and its
threads have stopped waiting for a lock (`Release`).

### ArtifactSessions

The sessions of all downloads under one key.  `kept` is the pool; `conn`, `generation`,
`suspect`, `replaced`, `doubtful` are a `SharedConnection`; `wpc`, `on`, `onGen`, `tries`,
`lost` are a thread's `call_with_retry`.  `orphans` are sessions on which something runs
that nobody waits for.  `Lose(w, how)` stands for every way an attempt can fail;
`ReplaceStaleKept` and `Reopen` have the branches of the code, with a login that works or
fails.  `Checks` are threads the download does not wait for (the stall check); a session
is quiet while kept (`KeptIsQuiet`) where there are none.  A session found idle for too
long is a choice of how many of the oldest to drop.

### ChunkPipeline

`_write_gzip_plans` over all sub-jobs' new chunks: `Fill` tops up the window, `Commit`
takes the head's result, `CommitAgain` is the second fetch on the writer's thread,
`Shutdown`/`Fail` are the two ends, `EndFetch` is the done callback of
`Spool.remove_after`.  The preview (`Begin`, `Look`, `Shown`) comes first.  `out` records
what was accounted for under which name.  The pool starts fetches in the order they were
submitted, so its queue is the set of those not started, ordered by `Before`.  An attempt
that is given up while its GET is on the wire (transfer timeout, or the grace after a
cancel) is left out; `Spool.sweep` cleans up after it, and it is listed as a hazard.

### TrainingRequests

One training sub-job and one loop that submits `NumCalls` calls one after another.  `sub`
is the state of `_post_octet_request_chunks` and of `_send` (`tries`, `renewed`).
A POST ends as `PostAccepted`, `PostCached`, `PostRestart`, `PostConflict`,
`LoseAnswer` (handled, answer lost), `Delay` (not handled yet), `Expired` (token renewed)
or `Reject`.  `Page` is one iteration of `poll_request`'s loop with an answer;
`PollFails` its exceptions.  `Record` is the second half of `_log_training_result` with
`TrainingLog.record` or `forget_step`; the first half, the pop of the remembered call,
is part of `Page`, so other polls and other results come in between.  As calls are
submitted one at a time, the remembered calls are a set whose oldest is the least.  The
service (`Answer`, `Handle`, `Execute`, `Forget`, `Arrive`) is external: it is what the
client's code and `src/docs/reference/rest-api.md` expect of it.  POSTs still on their way
are a set, so a POST that is late twice arrives once.  A fwd-bwd's and a step's metrics
and a step's `global_steps` are always present.

### SamplingCalls

The calls whose groups have no identity under which they run once, and so are never
replayed.  `CheckLengths` and the steps before it hold a prompt against the sub-job's
window, which is looked up once; `Post` sends a frame whole or chunk by chunk; polls decode
as tensors only what this client asked for (`ids`).  A stream of `generate_stream` may be
closed early.

### ClientAuth

`SnowflakeProfileAuth` under `_send`'s attempts, in a parent and in a child that a fork
makes.  A session and its token are one number; `auth[p]` is a process's object (current
session, process id, lock, the refused sessions), `call[t]` a thread's request:
`EnsureKnown`, `EnsureForked` and `ForkSignsIn` are `_ensure_process`, `GetToken` is
`get_token`; an attempt's answer is chosen freely (`Answered`, `Refused`, `PostFails`);
`Refresh` and `Renew` are the renewal under the lock (`_refresh_locked`), `Raise` the second
refusal of one send.  The lock's state is copied by a fork, as in the code.

### LogFiles, ExportFiles and StallNotices

`LogFiles`: several downloads of one execution log, which may be staged in two places and
is replaced there meanwhile; `List`, `ListLogs`, `Compare`, `Fetch`, `Get`, `Unlink`,
`Replace`, `WriteManifest` are the steps of `download_execution_logs` and
`_save_execution_log`, with a kill between any two.  `ExportFiles`: one file of a
checkpoint's export, fetched by the command line (which goes on from `.partial`) and by
the TUI (which starts anew) one after the other; `SilentCuts` says whose short answers
look like an end.  The command line looks at the size it has (`_download_file`), so the run
lets its answers be short; the TUI does not, and relies on the HTTP library to raise.

`StallNotices` is what a download of chunks says beside its files.  `Look` tells by the
local clock which sub-jobs may have stalled; `ReadJob` holds them against the server's Date
and the job's status, and `ListConsole` asks whether one printed; the download takes the
check's answer or goes on without it.  Clocks drift, jobs and sub-jobs move on while the
check runs, and any call may fail.  A chunk is the time in its name.

### DetailPanes, SeriesBins, ResourcePane, CheckpointTab

What a job's screen does with the files.  `DetailPanes` (Training metrics, Serving): one
load at a time, what was asked for meanwhile, a worker that ends after its successor has
started, the local log.  It takes the first load of a tab to end within the 600 s after
which a job that ended is no longer looked at.  `SeriesBins` is `_Series`: rows that come
late or newest first are kept raw, folded into bins, trimmed and rebinned.
`ResourcePane`: whole and single-sub-job refreshes, rebuilds of a window picked later, and
the loader other screens share; it leaves out a rebuild that was cancelled too late and
answers after the next one failed, and, in its run, downloads of other programs
(section 6).  `CheckpointTab`: the list of checkpoints, the files of each read once, one
download at a time.

### LogTail and LogScreen

`LogTail` is one source's live tail: replay of the cache, polls from the saved cursor,
jumps when the cursor sticks or is refused, trimming, kills, and a second TUI on the same
cache.  A line is its number; `Gap` is a note in the pane; a kill in the middle of an append
(`StopInAppend`) leaves a torn line, which the next append joins to its first (`WholeLines`).
A trim writes back what it read (`old`), whatever was appended since, and notes the cut head
in a step of its own (`NoteTrim`).  Every write of the cache may fail, up to `MaxErrors`
times, and is passed over as `_safe_append` and `_safe_set_cursor` do: an append writes its
first lines, perhaps a torn one, or nothing (`PageFails`, `JumpFails`), a trim leaves the file
(`TrimFails`), a cursor or a cut head is not saved (`WritesCursor`, `WritesHead`); the tail
goes on as if it were.  `skipped` is a history of the lines that the cache has not got and
why: `window` and `jump`, left out by a read of the log's end; `trim`; `failed`, lines whose
append failed.  `RecordedLines` are those in the file or in `skipped`.  `LogScreen` is the
screen around it: which sub-job's console or tail is shown, status reads, downloads, paints that
come late.  A tab that is hidden, and search, are left out.

### JobList, JobTable and JobWalk

`JobList`: loads of the account-wide list or the schema's, searches, the switch between
the two, the fall back.  `JobTable`: the rows that a draw keeps, sorts or patches for the
list that is loaded, the jobs unfolded and the one highlighted.  `JobWalk`: the pages of one load, with the walk over active jobs
beside or after it, while jobs come and end.

### Telemetry and StreamedLog

`OtlpMetricEmitter` of a process that does not fork: `Record` and `Emit` by callers,
`Wake` for `_ensure_worker`, the worker's loop, `Flush` (take, lock, export, merge back)
by the worker or by `close()`.  `CachedSessionTokenProvider` and the cooldown after
failures are left out.  `StreamedLog` is `_track_operation` around the calls that follow a
sub-job's log or wait for its job: what a stream yielded, the lookup that a failed start
makes, retries, a renewed session, interrupts, and the outcome recorded of each call.

### TrainingLoops and Episodes

`TrainingLoops` runs the loops of the three recipes one after another on a job: pools and
orders, rollouts and the weights they are of, forward-backward, step, sync, evaluations,
checkpoints, calls that raise.  Router replay is on for reinforcement learning, and a
capture of a sample id used again takes the earlier one's place.  `Episodes` is one batch
of the distillation: turns of the student, the teacher's scores, the training rows.

### JobConfig and CapPlanning

`JobConfig` is `build_job`: catalog files, layers of overrides, replay settings of both
sides, windows, the record that builds the job again, and the inference job of its
checkpoint.  `CapPlanning` is the arithmetic of the router replay plans, in exact
integers: a factor is a fraction, a utilization is counted in the distances of
neighbouring floats.

### JobRuns, Login, Convert, ConnectionChoice, Commands

`JobRuns`: `running_job`, `running_jobs` and the deployment script under `_send`'s
retries, with jobs that fail and interrupts at any point.  A create whose answer is lost or
interrupted may have made a job: `JobsOf` are all jobs made for a script, `Unheard` those
it does not know, and the history `lost` has the scripts of such creates.  `Login`: two
`cortex-training login` on one profile file; the renaming of profiles of one name that comes
before it (`fix_duplicates`, `_login.py:488-516`, and `rename_duplicates`,
`_profiles.py:296-330`) is left out, so a name is used once in the file from the start.
`Convert`: the old config becomes a profile or every file is put back, beside another login.
`ConnectionChoice`: what the command line and the TUI (`Program`), a library caller of
`resolve_connection` (`Library`), a recipe (`Recipe`) and `from_configs` (`FromConfigs`)
make of the same flags, variables and files; the arguments `config=` and `connection=` stand
under the flags' names.  A recipe's `config=` is read alone and must hold a host and a PAT
(`FromFile` is `_legacy_json_connection`); the three old files of the run (`OldFiles`) are one
without a PAT, one without a database and a whole one.  `ProgramsAgree` asks that the
programs connect alike where their documents say so, and `OnlyTheFile` that a recipe with
`config=` connects by nothing but its file.  `Commands`: `main` and the `_cmd_` functions,
one command from its arguments to its exit code; stdout is the set of what was printed, of
stderr the last thing said counts, and an interrupt may come in any call.

## 4. The runs

Each passing run explores several *settings* side by side: which one is chosen at the
start and never changes, and the variables of the others keep their first values.

| run | settings | what it shows |
|---|---|---|
| `downloads` | `resume`: 2 chunks, one of two rows, checkpoint every 2; `log`: 2 downloads, 3 versions, 1 restart, 1 error; `export`: 3 blocks, 3 faults; `notices`: a sub-job, the local clock ahead or behind | manifests are right at every instant, a crash loses no saved progress, a replacement is complete, both abstract specifications are implemented, what is warned of is so, all downloads complete |
| `job_cache` | `cache`: 2 processes with a screen, a download and a pass each; `lease`: 1 screen, 2 unserialized passes, waits that time out; `tabs`, `tab`: `DetailPanes` with two sub-jobs and one | removal never takes a directory in use; one download; locks are on the directory at the path; an open screen gets its lock back; no descriptor is left; tabs say what is so |
| `sessions` | `pool`: 2 downloads, 1 thread each, pool of 2; `single`: 1 download, 2 threads, one of them a check, 2 attempts, 1 relogin | ownership, open while owned and under attempts; calls end |
| `saved_rows` | `pipeline`: 4 chunks, 2 previewed, 2 workers, window 2; `readers`: 3 chunks, 4 inode numbers; `consoles`: 2 chunks; `bins`: 3 rows at times 0..5 in 2 bins; `folds`: 4 rows in order in 4 bins; `chart`, `switch`: `ResourcePane` with one sub-job and two | order and window of the writes; what readers hold; series agree with rows; headers are honest |
| `training` | `connection`: 3 old files, 5 sources; `requests`: 3 calls, 3 chunks, 2 pages, 2 attempts, 1 late POST, cap 2; `loops`: 4 problems, 2 runs, 1 fault; `episodes`: 2 episodes of up to 3 turns; `caps`: sizes 1, 2, 4; `job`: 3 models, 2 layers; `sampling`: 2 calls of up to 2 chunks, 2 sub-jobs, 1 fault | runs once, whole results, one row each, tags in order; recipes apply each batch once; plans hold; programs connect alike |
| `tui` | `alone`: a tail, 3 lines, cache of 2, 1 failed write; `shared`: 2 tails, 3 lines, a restart window of 1, 1 failed write; `screen`, `moved`: `LogScreen` with one sub-job and two; `list`; `table`: 3 jobs; `walk`: 3 jobs, cap 2; `checkpoints`: 2 | no cursor passes a line the cache has not accounted for, no jump goes without a note, the pane is current, lists are honest, waits end |
| `client` | `fork`: up to 3 sessions; `threads`: 2 threads, 4 sessions; `telemetry`: 2 calls, 1 event, queue of 1; `logins`: 2; `convert`: 3 faults; `one`, `several`, `deploy`: `JobRuns` with up to 4 jobs, 2 faults, 1 interrupt; `command`: one of each kind; `stream`: 3 calls, 1 line, 2 faults | one session, calls return; counts are exact; nothing a script heard of is left behind; commands say what is so |
| `job_cache_timeout` | `cache`, with lease waits that time out | **violation** of `OneDownload` |
| `session_checks` | a stall check not waited for | **violation** of `KeptIsQuiet` |
| `training_tags` | 3 calls of one chunk | **violation** of `TagsMatch` |
| `auth_fork` | `fork` | **violation** of `ForkedChildIsApart` |
| `running_job` | `one` | **violation** of `GPUsComeBack` |

Bounds, and why they are enough.

- `resume`: two chunks give a prefix and a tail, and a hole when one is removed; a chunk
  with two rows lets a compaction cut inside a chunk; `CheckpointChunks = 2` makes both a
  checkpoint that is due and one that is not.  The theorems hold for any number.
- `readers`: three chunks let a file be replaced by one with other first chunks and
  by one that goes on from the same names; the chunk of two rows lets a compaction cut
  inside it.  At most three inode numbers are referred to at once (the file's, the
  reader's and an open descriptor's), and the fourth is the one for the new file.
- `cache`, `lease`: directory instances are reused when nobody refers to them, so the
  bound on them is that of the descriptors that can be open at once.
- `pool`, `single`: `MaxGeneration` bounds logins per download; past it a login fails,
  which the code must stand anyway.  Session numbers are reused like directories.
- `pipeline`: more chunks than the window and the workers, with half of them in the
  preview, as `_preview_paths` allows at most.
- `requests`: the action constraint `FollowsLoop` fixes the shape of the loop (a step,
  any call of one or three chunks, a fwd-bwd); a step first gives the log a step to tag
  with, three chunks give a group a middle one, `MaxOps = 2` makes the map overflow.
- `bins`: times five bins apart in a job of two bins make it rebin twice; a retention of
  two, a context and a margin of one let a row come before, in and after each of them.
- `alone`: three lines and a cache of two make it trim; one stuck and one refused cursor
  are all the service does to a read in flight; one write of the cache fails, any of them,
  which is the first that a tail passes over; lines are torn only in runs by hand
  (`MaxTorn = 0`).  `shared` has no trim, as two tails that trim one cache may lose lines
  (section 6), and no cursor that sticks; `CursorIsNotAhead` covers any number of tails that trim alone, with both.
- `checkpoints`: the first one's step is fixed, as only the equality of two steps is looked at.
- `table`: a list of two jobs and one of three, one row patched away at most, two keys.
- `notices`: one tick after the listing, thresholds a tick or two above the period.
- `sampling`: windows of two, so that a prompt may be too long; one chunk or two, one fault.
- `stream`: a request of two attempts, of which both may fail.
- `walk`: one job more than the cap; `list`: a search and a switch under way at once.
- `caps`: sizes that divide each other and, by the factor 3/2, some that do not.
- `threads`: four sign-ins let each thread renew once and once more after a death;
  `fork`: one death and three sessions are the parent's, the child's and one renewal.
- `one`, `several`, `deploy`: another program's job and three of a script's, two failures
  and an interrupt, so that a failure on the way out of a failure is included.

Deadlock is checked in `job_cache` and `sessions`.  In the other passing runs the modelled
programs stop: a pipeline's download, a loop, a script or a login ends, and an emitter is
closed; what must not stop has a liveness property there.

Fairness, and why the code justifies it.

- Downloads: one that began runs on (`Work`) - its thread is never parked
  without a timeout - and someone starts another (a tab's refresh or the command run
  again).  `Completes` only asks it once faults have stopped.
- `JobCache`: the scheduler thread and the heartbeat timer run what is due, and calls
  under way go on.  `ScreensSettle` is asked for once passes stop reaching this job:
  each of them may hold `.lease` just when the screen tries.
- Tabs, lists and log screens: timers fire, a worker thread that was started runs on, and
  the UI thread handles what was posted to it.  A thread's call ends by its timeout.
- `ArtifactSessions`: a thread that makes a call goes on, and an attempt ends
  (`run_bounded`'s timeout).  Nothing is assumed of logins or of the service.
- `ChunkPipeline`: the downloading thread goes on, the pool starts what it has room for,
  and each fetch ends (`run_bounded` and `RetryPolicy` bound it).
- `TrainingRequests`: the submitting thread goes on; each attempt has a request timeout.
- `ClientAuth` and `Telemetry`: the threads wait for a lock that others take again and
  again, so theirs is strong fairness: the lock is not fair, but the threads that compete
  for it are finitely many and the system's scheduler lets each win in the end.

A setting never changes, so one condition of fairness stands for one step of each.

Every property has a mutant: an operator just before the definition it alters, marked
as such, that changes it as a plausible bug would and makes TLC find the property
violated.

## 5. What is proved

TLAPS proves these for every value of the constants, under the assumptions the modules
name; the runs show them on small instances.

| theorem | module | states |
|---|---|---|
| `TypeCorrect` | `ArtifactResumeProofs` | `Spec => []TypeOK` |
| `CommittedRowsAreTheStream` | `ArtifactResumeProofs` | `Spec => []CommittedIsStream` |
| `CrashesKeepProgress` | `ArtifactResumeProofs` | `Spec => CrashKeepsProgress` |
| `ReplacementsAreWhole` | `ArtifactResumeProofs` | `Spec => ReplacedWhole` |
| `ReadersArePromised` | `ArtifactResumeProofs` | `Spec => ImplementsCommittedRows` |
| `OthersSeeSavedFile` | `ArtifactResumeProofs` | `Spec => ImplementsSavedFile` |
| `LogsAreAsListed` | `ArtifactResumeProofs` | `LogFilesAssumption`, a version at least, imply `LogFiles`'s `Spec => SavedIsListed` |
| `NamedFilesAreWhole` | `ArtifactResumeProofs` | `NoSilentCut` implies `ExportFiles`'s `FairSpec => []NamedIsWhole /\ WholeStays` |
| `CacheIsGuarded` | `JobCache` | `Patient` implies `Spec => []DownloadsAreGuarded` |
| `DescriptorsStayClosed` | `JobCache` | `Spec => []NoDescriptorLeaks` |
| `RowsStayInOrder` | `ChunkPipelineProofs` | `Spec => []OwnRowsInOrder` |
| `FetchesStayInTurn` | `ChunkPipelineProofs` | `Spec => []FetchesAwaitTheirTurn` |
| `SessionsStayOwned` | `ArtifactSessionsProofs` | `Spec => []SessionsAreOwned` |
| `RequestsStayExact` | `TrainingRequestsProofs` | `Spec => []RequestsAreExact` |
| `TagsFollowInOrder` | `TrainingRequestsProofs` | `Spec => []TagsMatchInOrder` |
| `RefusalsAreStruck` | `ClientProofs` | `Spec => []RefusedOnlyIfStruck` |
| `SessionsStayRight` | `ClientProofs` | `OneChild` implies `Spec => []AuthSafe` |
| `CursorIsNotAhead` | `LogTailProofs` | `MaxTorn = 0` implies `Spec /\ TrimsAlone => []CursorNotAhead` |
| `CursorOfOneTail` | `LogTailProofs` | one tail and `MaxTorn = 0` imply `Spec => []CursorNotAhead` |
| `LiveLinesDoFollow` | `LogTailProofs` | `Spec => LiveLinesFollow` |
| `PlansAlwaysHold` | `CapPlanning` | `Spec => []PlansHold` |
| `ProgramsLeaveNothing` | `ClientProofs` | `RunsAssumption` implies `JobRuns`'s `Spec => []NothingLeftBehind` |
| `ProgramsCancelTheirOwn` | `ClientProofs` | `RunsAssumption` implies `JobRuns`'s `Spec => []OnlyItsOwn` |
| `CallsAreCountedOnce` | `ClientProofs` | `EmitterAssumption` implies `Telemetry`'s `Spec => []CountedOnce` |
| `PendingStaysExact` | `ClientProofs` | `EmitterAssumption` implies `Telemetry`'s `Spec => []PendingIsExact` |
| `ConversionsAreWhole` | `ClientProofs` | `ConvertAssumption` implies `Convert`'s `Spec => []AllOrNothing` |
| `ConversionsAskFirst` | `ClientProofs` | `ConvertAssumption` implies `Convert`'s `Spec => NothingUnasked` |

Each proof has one lemma per action, over lemmas about the operators, and one step that
joins them; the last step combines these with temporal logic.  TLC checked each inductive
invariant on an instance first.

**ArtifactResume.**  For every finite set of chunks, every assignment of increasing rows
to them and every checkpoint spacing (`ChunksAssumption`, `RowsAssumption`,
`CheckpointAssumption`).  `CommittedIsStream` alone is not inductive: it says nothing
about the rows a download is writing, nor that a writer stays clear of what the manifest
beside its file claims.  `IInv` is `TypeOK` and six named parts.  `Sound`: each manifest
whose file is long enough describes it, and what it counts is fsynced (`CrashKeepsProgress`
follows from this).  `Planned`: while a download runs, the rows up to the writer's offset
are those of the chunks it accounted for, and the listing only adds chunks after them.
`Extends`: the manifest beside its file counts no more than the offset and no more than is
fsynced, so that no truncation takes committed rows.  `AtEnd`: between chunks the file
ends at the offset, and at a checkpoint all of it is fsynced.  `Moved` and `Compacted`:
what holds between the renames of a promotion and between the two writes of a compaction.

The refinements need more.  `ReaderInv`: a partial file is never compacted, so its rows
are all those of its chunks, in the manifest, in the writer and between the renames
(`PartialIsWhole`); only a finished listing is promoted (`ListingIsPromoted`); what the
writer recorded is what the manifest beside its file names (`RecordedIsSaved`); a
destination that is extended stays readable, with later chunks only (`DestIsExtended`,
`DestIsCut`).  Then each step of the code leaves what a reader sees, or is one step of
`CommittedRows`: `Record` is `Extend`, `UnlinkDest` is `Hide`, `ReplaceManifest` is `Show`,
`Compact` is `Trim`, and a crash in mid-compaction is `Hide`.  `ReplacedWhole` follows as
`ReplaceManifest` is the only step that makes an unreadable destination readable.  For
`SavedFile`, `CountInv` adds that a writer's file has a listing, what a manifest counts
were recorded, and what is promoted is all that was written.  A manifest of `SavedFile`
tells its rows by their set, and an increasing sequence is determined by its set
(`SameOrder`), so both modules mean the same rows (`RowsAre`, `WrittenRows`).

**JobCache.**  `CacheIsGuarded` has the hypothesis `Patient`: no lease wait times out and
passes are serialized.  The run `job_cache_timeout` shows that the first is needed; the
second holds unless the pass lock's file cannot be made.  `Guarded` says that one pass
runs (`OnePass`), a removal that is past its look holds the lease of the path and there is
no screen (`RemovesPath`, `LeaseExcludes`), an open screen is leased (`ScreensAreLeased`),
only a removal renames (`RenamesAlone`), a download writes at the path (`WritesAtPath`)
and holds its part alone (`PartExcludes`).  `DescriptorsStayClosed` needs no hypothesis.

**ChunkPipeline.**  For every number of chunks, workers and every window and preview.
`PendingIsNext`: the futures pending are the chunks next to be written; `TurnsToCome`: no
turn is submitted before its time; `HeldIsAwaited`: a fetched file that is held is one of
them, so that counting bounds the spool by the window; `FilesAreKept` and `SpoolWaits`:
the directory stays until the last fetch.

**ArtifactSessions.**  For every number of downloads, threads, attempts and sessions, of
which there must be finitely many.  `OneOwner` and `OpenIsOwned` say that a session is in
one place and open there; `Phases` and `ThreadsInPhase` tie a download's phase to its
threads; `QuietUnlessDoubtful`: a session on which an abandoned attempt may run is marked.

**TrainingRequests.**  For every number of calls, chunks, pages and attempts.
`ScheduleGrows`, `RunsAreOwn` and `PagesSoFar` say what the service has of a call, and
`LogsItsOwn` that a row is of a run.  For the tags, `LogFollows` carries, run by run, what
the service tags a run with (`Tags`) beside what the log will (`CallCounts`,
`StepStarts`): they agree as long as results were recorded in order (`InOrderSoFar`).

**ClientAuth.**  `RefusalsAreStruck` holds with any number of threads.  `RenewersLock`:
the lock is held by exactly the thread that signs in anew, for a session that was refused
or has aged.  `SessionsStayRight` has the hypothesis `OneChild` - one thread of the child
uses the client - and needs it: with two, the child may leave a session open (section 6).

**LogTail.**  For every number of tails, lines, polls and cache sizes.  `CursorNotAhead`, that
each line before the saved cursor is recorded, says nothing of the lines a tail carries from
its page to the file and from there to the cursor.  `CacheInv` adds `Fits` for every tail:
between append and save the page's lines are recorded, those whose append failed as passed over; a trim's copy of the file holds
what the cursor has passed; what a tail takes for the cursor's place is a place already
saved or covered by its page.  Recorded lines never become fewer, so a step of one tail
keeps what fits another.  A failed append needs no hypothesis of its own: it cuts the page
between two lines, and what it did not write is told by `skipped`.  Cut inside a line it
tears it, as a kill does, so `MaxTorn = 0` is about both.  Both hypotheses are needed, and TLC
shows what happens without them: a torn line takes the first line of the next page with it, and a tail that
writes back its copy of the file takes away what another has appended and saved the
cursor of.  `TrimsAlone` says that no trim does the latter; with one tail it follows
(`OneTailTrimsAlone`, from `AloneInv`: a tail that is to trim still has the file's text).
`LiveLinesDoFollow` has no hypothesis: `Follows` says that what is shown live is the page
read from the tail's cursor, or that a note was put before it.

**JobRuns.**  For every number of scripts of each kind, jobs, retries, failures and interrupts;
`RunsAssumption` says that a script is of one kind.  `RunsInv` says of every script that the
jobs it created are its own, and the same as those it waits for unless it attached to one or
is a set (`Knows`), that the request under way is for the job its place calls for
(`AsksRight`), that a script that has not entered its block has one job at most, or is a set
(`Enters`), and that on its way out what lies behind it is released or told (`Leaves`).  A
released job stays so (`Grown`), so a step of one script or of the service keeps what fits
another.  A script counts its calls to create, and a create whose answer is lost is not sent
again: so it has no more jobs than calls.  `HeardInv` is about the jobs that a script
never heard of: there is none as long as the script is not in `lost`, never two, and a script
in `lost` does not create again (`Keeps`, `LosingSteps`).  So `ProgramsLeaveNothing` speaks
of every job made for a script, and its exception of an unheard-of job is one job of a script
that lost an answer.

**Telemetry.**  For every number of calls, events and workers (finitely many) and every size
of the queue; `EmitterAssumption` says that names do not clash.  `OnePlace` tells where a
call is without counting: in no two batches, in a batch or the aggregate, accepted or in
neither unless an answer was lost; and nowhere before it is recorded.  It is kept because a
thread takes the aggregates into a batch that is empty (`BatchesInFlush`).  The queue's
events are counted by their positions, so that taking the first one off is a bijection
(`QueuedTail`).

**LogFiles.**  For every number of downloads, versions, restarts and failures.  What is
staged only becomes newer (`StagedIsNewest`), so what a download listed is no newer than what
it then fetches (`ListedWas`).  `SavedIsListed` needs more: a manifest that names a version
newer than the file would make a later download keep an old log.  `ManifestIsNotAhead`
excludes this; it is inductive because the manifest is unlinked before the log is replaced,
which `Apart` says of the one download that runs.  Overlapping downloads break it, which the
property allows for and the code does not guard.

**ExportFiles.**  For every size and number of faults.  `ExportInv` ties the place a download
writes at to the end of its file, and says that the TUI has all blocks when it names the file.
That last part is `NoSilentCut`: the TUI names a file whose size it does not look at, so the
theorem assumes that a short body raises, as the run does.

**Convert.**  For any profiles, names and number of faults; `ConvertAssumption` says that
profiles of before have no fresh name.  `SnapshotFirst`: once the conversion may have written, it
holds a snapshot that has nothing of its own in it, and before that the file has nothing.
`ChangesSoFar`: with no other writer, the files are the snapshot with the steps done so far,
and with those undone so far.  `CodesTell`: who restores does not end with 0.  `Agreed` has the
answers a place depends on.  `OriginalsStay` is about the file and the snapshot together, for
a restore writes the snapshot back.

**CapPlanning.**  Each plan's claim follows from its own integer arithmetic: a quotient
that is rounded up covers what was asked, one rounded down does not exceed what there is.

Only model-checked, and why:

- liveness (`DownloadsComplete`, `ScreensSettle`, `SharedCallsEnd`, `RowsArrive`,
  `SubmitsEnd`, `ViewsSettle`, `CallsAndCountsArrive`): fairness and ENABLED are out of the
  prover's reach;
- `ReadersCatchUp` (`SavedReaders`), `SeriesIsExact` (`SeriesBins`) and the table of
  `ListsAreHonest`: what they say is about sequences that are filtered, folded or sorted,
  which needs induction over data;
- `QuietLogIsWhole` of `ScreenIsTrue`: that a jump has its reason (a cursor refused or stuck,
  or lines whose append failed) counts polls against what the service did in between, a fact
  about the one tail of the run and not of any number;
- `SharedAttemptsRunOpen` is `SessionsAreOwned` of another instance, so
  `SessionsStayOwned` covers it; of `ScreensKeepTheirWord`, `DescriptorsStayClosed` covers
  the cache's descriptors, the rest is `DetailPanes`';
- `OneDownload`, `KeptIsQuiet`, `TagsMatch`, `ForkedChildIsApart` and `GPUsComeBack` are
  false of the code (section 6);
- the rest - `RecipesAreExact`, `JobsAreAsAsked`, `ScreenIsTrue`, `CheckpointsAreTrue`,
  `CountsAreExact`, `CommandsTellTheTruth`, `FilesAreWhole`, `NoticesAreTrue`,
  `NothingIsLeftBehind`, `ConversionIsWhole`, `ConnectionsAgree`, `ChartIsHonest`,
  `NothingGoesBack` - are of modules with a few actors whose data is finite by nature (a
  screen, a script, a command, two programs), where the instance that TLC explores is
  close to all there is.  `LiveLinesFollow`, a part of `NothingGoesBack`, what
  `NothingIsLeftBehind` says of scripts, what `CountsAreExact` says of the emitter, what
  `FilesAreWhole` says of logs and exports, and what is said of conversions
  (`ConversionIsWhole`) are proved.

## 6. Disagreements met

Shown by a run:

1. `job_cache_timeout`: `DownloadLock._try_file_lock` (`_download_lock.py:103`) does not
   check, after its flock, that the file it locked is still at the path, as
   `JobLease._lock` does.  A download whose screen's lease wait ran out can lock a file a
   removal has just moved aside, and a second process then downloads into the same
   directory beside it.  While no lease wait runs out (`job_cache`), the screen's
   `.lease` lock keeps removals away and the property holds.
2. `session_checks`: a download that succeeded gives its session back to the pool while
   its stall check may still run a LIST on it: setting the cancel event does not end a
   LIST that is running, and `abandon()` is not called there.
3. `training_tags`: rows are tagged by the order results are polled in.  With results
   polled in the order the calls ran (`TagsMatchInOrder`) the tags are the service's.
4. `auth_fork`: `_ensure_process` (`client/auth.py:228`) takes the child's process id and
   a new lock before the child has signed in.  When that sign-in fails, or a second thread
   calls meanwhile, the child goes on with the session of its parent.
5. `running_job`: `recipes/utils.py:839` waits for the job before its `try`, so a wait
   that fails leaves the job with its GPUs; `running_jobs` cancels there.

Met while modelling, without a run (each is outside an assumption stated in section 3 or
in a module, or about wording only):

- `client/auth.py:228-235`: with two threads of a forked child, one may renew (and close)
  the inherited session while the other signs in, and the second sign-in's session takes
  the place of the first's, which stays open.
- `tui/resource_view.py:261-269`: the late answer of a cancelled rebuild clears the error
  of a newer one, and the header says "refreshing" of a window that nothing refreshes;
  another program's download makes a window stale without asking for its rebuild; picking a
  sub-job (537-548) does not look whether its window is fresh; a preview is lost when the
  download fails and another sub-job has rows.
- `recipes/utils.py:2122-2123` says that a distillation has no router replay, but a
  catalog file may enable it; an override that disables it on one side is refused
  (docstring 1938-1939); a final model that is not in the catalog may have it on one side;
  a job taken from `job_config` is not checked for parallel sizes and replay.
- `client/core.py:5693-5697` says that a sub-job is checked only while it or its job runs;
  the branch for a job that has ended (5733-5743, `_recently_ended_warnings`) tells of its uploads too; `download_model_deployment_metrics` (6435-6464) raises "metrics download is
  missing" where there was nothing to save.
- `recipes/utils.py:109-117`: a recipe's `config=` is read alone, as its docstring says (102-103),
  where `--config` is completed by the environment: the command with `CORTEX_TRAINING_DATABASE`
  or `CORTEX_TRAINING_CONNECTION` beside the file goes to another place than the recipe called
  with that file, and a file without a PAT that serves the command is refused.  With
  `config_deprecated=False` the code passes `None` for `config` to `resolve_connection` (118-125), so
  the file is not read at all; the test of it (`tests/test_example_connection.py:448-452`) looks
  only at what is logged, no recipe passes it, and `Recipe` leaves it out.
- `recipes/utils.py:835` and 870-871: a job whose create's answer is lost or interrupted goes on
  with its GPUs, and nobody is told its id; the docstring (822) has them released on the way out.
- `connection.py:31` reads `SNOWFLAKE_DATABASE` without the note that older forms get; an
  incomplete `--host`/`--pat` is ignored beside a profile, and `--config` beside
  `CORTEX_TRAINING_CONNECTION`; the command line refuses a host and token without a
  database where `from_configs` takes `CORTEX_TRAINING_DB`.
- `_convert.py`: files are put back without the lock (`_profiles.py:352`); a name taken
  between plan and apply is overwritten; a restore that fails is passed over though the
  message says that every file was put back.
- two logins that give a new profile the same name: the second replaces the first's, where
  `_profiles.py:352` says that writers cannot lose each other's profiles; `NotChecked`
  (`_login.py:125`) may leave `run_login` as a traceback, where it promises an exit code (986).
- `tui/log_cache.py:534-535` and 640-650 disagree on whether lines that are gone before a
  log's head are announced; `tui/checkpoints.py:389-390` renames without a look at the size.
- `tui/job_list.py:1358-1375`: the schema is not always retained (`SchemaIsRetained` says when);
  the header says "loading older jobs" after a read that failed.
- `cli/commands.py`: Ctrl-C while the telemetry of a finished download is sent, or while its
  answer is printed, says "interrupted before any output was saved" (2487-2510, 2635-2643);
  `download-metrics` counts entries without files as saved (2259-2264); an interrupted
  `submit --wait` never prints the job's id, which `model-deployment create --wait` does.
- `client/core.py:7728-7732` says that a stream that has read ends without an error when the
  job ends; `_tail_hint` looks the job up once per call, so a job that ends between two
  attempts of one call makes the stream raise.
- `src/docs/reference/python-sdk.md:171`: a login on a download's worker thread is not among the
  operation's `connect_count`, which is kept per thread.
- `src/docs/reference/rest-api.md:1384-1386`: a second poll of one request gives the
  undecoded answer or tensors by what the client remembers (`client/core.py:7334-7336`,
  7494-7510); `OwnResultsAreConverted` says when.
- `tui/job_list.py:1883-1885`, 1932-1939: a refresh of a table that is hidden places the
  cursor by its row, which may by then be another job's.
- `tui/log_cache.py:277-332`: an append that a kill tears is joined by the next page's first
  line, and a load passes both over, while the cursor goes on past them (640-670:
  "a crash may repeat but never skips them").
- `tui/log_cache.py:432-436`: an append that fails is passed over and the cursor saved all the
  same (660-661, 602-603, 630-632), so one TUI's cursor, with no torn line, passes lines that
  no file has and nothing on disk tells of, where the docstring says "Entries are persisted
  before their cursor" (537-538; it speaks of crashes only).  The pane that read them shows them; one
  opened later does not, and may even take them for new when it reads the log's end, and
  jump back to them (`QuietLogIsWhole` allows for it).
- `tui/log_cache.py:371-376`: a kill, or a write that fails, between the replacement of a trimmed
  file and the note of its cut head leaves a file whose lost head no later pane announces.
- `tui/log_cache.py:350-366`: a trim replaces the file with what it read, without a lock, so
  the lines that another TUI appended since are lost while its cursor has passed them.

## 7. What is not modelled, and why

Request and response bodies, tensor frames, the definition of the command line's arguments,
formatting and layout are data or presentation.  Which jobs a cache pass picks, file sizes
and ages are left out of `JobCache`: it models the removal of a job once it is picked.  The
size cap and the pruning of the training log and `save` are left out of `TrainingRequests`:
`save` shares its submit and poll.  The stall check is in `ArtifactSessions` as a thread that
makes calls, and in `StallNotices` by what it says.  Database setup, account probing and the
bootstrapping of a recipe's job are I/O in a straight line; so is login's renaming of
profiles of one name (section 3).  A cache file of a log that cannot be read (`load_newest`
then answers with no lines, 322-323) and a cursor file that cannot be read are left out of
`LogTail`.  A refresh of the checkpoints reads its files in any order, where the code's worker
takes one after another.  The rows that the training log
adds on top of the stage's are in `DetailPanes` as one number.  Of the TUI, key handling,
search, widgets and the view of deployments are left out.
