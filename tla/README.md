# Verification of AIConvLab

This directory holds a formal model of AIConvLab: TLA+ modules for the parts of
the program where concurrency, failure or ordering decide whether it is right,
TLC configurations that check them on small instances, and TLAPS proofs for
every size. Source paths are relative to the repository. `PROJECT.json` maps
each definition to the lines it models.

## 1. The system

AIConvLab is a FastAPI backend with a React frontend for machine-learning
experiments. Its components:

| component | state it keeps | operations | talks to |
|---|---|---|---|
| Laboratory job queue, backend side (`backend/aps_ops/queue/sqs_queue.py`, `aps_ops/execution/execution_router.py`, `routers/jobs_router.py`, `routers/lab_worker_api.py`) | tables `jobs`, `job_events`, `lab_worker_heartbeats`; datasets in S3; two SQS queues | create and route a job, stage its CSV, publish it, apply a status post, record a heartbeat, show a job | SQS, S3, the worker over HTTP |
| Laboratory worker (`lab-worker/`) | the message in hand, a temporary file, a manifest in S3 | receive, report RUNNING, train, upload, report the outcome, delete; a heartbeat thread | SQS, S3, the backend |
| In-process job registry (`backend/main.py`, `JOBS`) | the dictionary `JOBS` under `JOBS_LOCK`, its JSON file or object, `ExperimentRun` rows, one daemon thread per job | submit, retry, cancel, run, persist, recover at start | object store, database, training code |
| Kernel registry (`backend/src/services/kernel_manager.py`, `src/api/kernel.py`) | `_kernels` under a class lock, a lock and `last_used` per kernel, kernel processes | start, execute, load file, interrupt, shut down, idle shutdown by a janitor | `jupyter_client` |
| Notebook sessions (`backend/notebook_service.py`) | a kernel and a lock per session | get or start, execute, shut down | `jupyter_client` |
| Object workspace (`backend/blob_storage/`, `user_workspace.py`) | objects per user, a local staging directory, history file | upload, fetch if missing, snapshot push, delete | S3, GCS, files |
| Accounts (`backend/routers/auth.py`, `admin.py`, `admin_panel.py`, `dependencies.py`) | users, verification codes, approval and suspension | register, verify, log in, approve, suspend | database, mail |
| Runtime dispatch (`backend/src/runtimes/`, `src/services/platform/`, `src/api/v1/`) | in-memory jobs of the v1 API | create, run, show | providers |
| Tracing store (`backend/src/services/tracing_store.py`) | an execution log with lineage | record, list, soft-delete | database |
| Model registry (`backend/routers/ml_platform.py`) | stages and tags of runs | patch, tag the best run, sweep | database, job registry |
| Browser application: routing and sign-in (`frontend/src/App.jsx`, `AuthContext.jsx`) | `currentPage` and two flags; a token in `localStorage`, a user per tab | open pages, sign in and out, confirm the user | the backend, other tabs |
| Browser: connection (`main.jsx`, `api/client.ts`, `services/`) | base URL, mode cookie, failure streak | requests with a timeout, health poll, probe of the form | proxy, backend |
| Browser: projects, data, training (`App.jsx`, `ProjectsPage.jsx`, `JobsPage.jsx`, ...) | selected project, brief, preview, target, features, results, jobs | select, register, upload, preview, train, predict, cancel, retry | the backend |
| Browser: lists and chat (`App.jsx`, `AiChatPage.jsx`) | lists loaded by three clocks, the conversation, a provider | load, ask, refresh after tools | the backend, other tabs |
| Browser: experiment page V3 (`pages/experimentV3/`) | stage, activity, cells, traces, one autosaved page | run cells, load files, move between stages | kernels, tracing, `localStorage` |
| Browser: experiment page V2, canvas, results panel | sheets, columns, simulated runs, ticked runs | run, stop, drag, compare | agents, RAG |
| Browser: operator pages | members, notices, forms, previews | approve, suspend, edit, probe, submit | admin and platform API |

Not core logic of its own: the portal (single-row table operations), mail, RAG,
agents and chat (request and response around a language model), the numerical
training code, migration scripts, `archive/`. `PROJECT.json` lists them with
the reason.

### Where it is hard

* **Job queue.** SQS delivers at least once. A training may outlast the
  visibility timeout, which nobody extends; a status post may be lost, or
  applied after the worker has given it up; the message is deleted in a
  `finally` block, reported or not; a worker may die between any two steps; the
  route was chosen from a heartbeat up to two minutes old. Right means: the row
  never announces a result that does not exist, the status a client polls
  follows a lifecycle, no published job is lost, no job runs twice at once when
  the timeout is long enough.
* **Job registry.** A job thread, a cancel handler and a retry handler act on
  one entry; the handler reads the status outside the lock; every write may
  fail after memory was changed; the process restarts, sometimes in the middle
  of a file write. Right means: no job is active with nobody working on it, a
  cancellation in time prevents the work, no training begins on a job that may
  already be retried, the registry forgets nothing and the run rows agree with it.
* **Kernel registry.** Handlers on a thread pool and a janitor thread share
  the dictionary; kernels are ended after the lock is released. Right means:
  the quota holds, no process is lost track of, executions on one kernel are
  serial, the janitor picks unused kernels only.
* **Object workspace.** Every file exists twice, in the bucket and in a
  temporary directory; requests and job threads copy between the two without
  locks, and a restart may lose one of them. Right means: users find what they
  last uploaded or deleted, and a model they were told of survives.

* **Accounts.** Handlers on a thread pool read a row into a session, work (a
  sign-in compares a password for a fraction of a second) and commit; the
  administrators, the panel with its own password, the mailed link, a script and
  the start of the server change the same row. Right means: one account per
  address, tokens only for those who were let in, no row that refers to nobody,
  no commit that undoes another.
* **Browser.** One thread, but every answer is an event of its own: it may be
  late, lost, overtaken by a later one, or find the user on another page, another
  user, or a deleted cell; clocks and debounce timers fire in between; several
  tabs share one storage. Right means: what is shown is of the last thing
  asked and of the user who is signed in, what is said to be saved is saved,
  and nothing waits for an answer that nobody will give.

All the places found, with the properties that guard them, are the `hazards` of
`PROJECT.json`.

## 2. Modules

| module | models |
|---|---|
| `LabQueue` | backend, SQS, worker and heartbeats of the laboratory queue, one composed state machine |
| `JobLifecycle` | abstract: what a client polling `GET /api/jobs/{id}` may see |
| `MCLabQueue` | symmetry for the runs of `LabQueue` |
| `LabQueueProofs` | theorems about `LabQueue` |
| `JobRegistry` | `JOBS`, its persistence, the threads, the handlers, restart |
| `JobRegistryProofs`, `KernelRegistryProofs`, `ObjectWorkspaceProofs` | theorems about the modules of those names |
| `KernelRegistry` | handlers, janitor and kernel processes |
| `ObjectWorkspace`, `MCObjectWorkspace` | bucket, staging directory and the requests that copy between them |
| `Accounts` | users of the server, their links and tokens, and the handlers that change them |
| `AccountsProofs` | theorems about `Accounts` |
| `MCFrontend` | `Accounts` and the modules below, one moving at a time |
| `Navigation`, `Session`, `Connection` | pages, who is signed in, the server and whether it answers |
| `ProjectSelection`, `ProjectBrief`, `DataGuide` | the current project, its brief, the advice on data |
| `TrainingDesk`, `TrainingRun`, `JobsConsole` | from a file to its columns, from those to a result, the queued jobs |
| `AppLists`, `Assistant`, `AiChoice` | lists and their clocks, the conversation, the provider |
| `ActivityPage`, `ActivityStore`, `ActivityGuide`, `FileLoad`, `TraceLog` | page V3: cells, autosave, stages and templates, the file in the kernel, traces |
| `NotebookV2`, `NotebookFrame` | page V2: sheets, columns and tabs |
| `CanvasRun`, `CanvasAgents` | the canvas: the simulated training, assistants and free cells |
| `ResultsPanel` | tabs of the results and the comparison of runs |
| `AdminDesk`, `OperatorPages` | members, notices, dialogs; reports, probe and platform forms |
| `PagesProofs`, `AnswersProofs` | what each part of the browser keeps: pages, sessions, stores, files, traces, places, choices and lists of the operator; answers that arrive in any order, cells, canvas and comparison |
| `FrontendProofs` | theorems about `MCFrontend`, composed from these and `AccountsProofs` |

In each module an operator named like a code path with a suffix
(`Receive_NoTimeout`) is a deliberately broken variant that no specification
uses; it documents which bug a property would catch.

### LabQueue

One row per job: `row` is the status column, `target`, `input`, `started`,
`ended` are the columns of those names, `events` the journal. `request` is the
step of the request that creates the job, so a crash or an exception between
the commit, the upload, the publish and the publish event is visible
(`AbortRequest`, the second branch of `Send`). `queue` and `visible` are the
laboratory queue and the part a receive may return. `holder` is the owner of the
latest receipt handle: a delete with an older handle may be ignored. A worker is
its program counter `pc` and the message `msg` in hand; the steps are the
statements of `process_message` and the loop of `main`. A status post (`Report`)
is applied and answered, lost, or put into `late`, from where `ApplyLate` may
apply it at any later time. The branch for which a worker dies in
`delete_message` is a `CrashWorker` at that step. A posted status overwrites
the row unconditionally because the handler does.

Left out: users and tokens, result summaries, GPU names, and the local file of
the downloaded CSV (nothing reads it across jobs). A
deploy without `APS_DISABLE_SQS_PUBLISH` is a behaviour that never takes
`SkipSend`.

### JobLifecycle

Created once, `QUEUED` or `FALLBACK_TO_AWS`; `RUNNING` only from `QUEUED`;
finished only from `RUNNING`. Under at-least-once delivery a finished job may be
run again and its outcome overwritten (`Redo`); without it a finished job is
final. `LabQueue` instantiates it twice with `status <- row`, as
`PolledStatusRerunnable` and `PolledStatusOnceOnly`.

### JobRegistry

`job` is `JOBS` (status and `cancel_requested`), `disk` what was persisted last,
`torn` a file left half written. `thread` is the step of a job's thread: each
`_set_job`, each log-and-row update, the two looks at `cancel_requested`, the
training. An exception before the `try` ends the thread, one inside it goes to
the `except` branch, as in the code. `submit` and `cancel` are the steps of the
handlers; `cancel_job` reads the status twice without the lock before it
writes. `pending` and `trained` are the two `ExperimentRun` rows a job may have.
`Crash` drops the memory; `Restart` is `_load_jobs` with
`_recover_jobs_on_startup`.

Bound: one cancel handler per job at a time, and as many jobs as `Jobs` has ids
(a retry takes a fresh one).

### KernelRegistry

`kernels` is `_kernels`; `lock` is the class lock in the one place where it is
held over a wait, the constructor of `UserKernel`. `busy` is the lock of a kernel,
`old` says its `last_used` is beyond the idle timeout (time is one bit), `proc`
is the operating-system process. `pc`, `user`, `k` are the handler's step,
user and kernel reference; `stale` holds the kernels the janitor has popped and
not yet ended. Kernel ids are reused once nothing refers to them.
A kernel lost by `Die` stays registered, as in the code. `shutdown_all` has no
caller and is not modelled; `interrupt` and `status` do not change this state.

### ObjectWorkspace

`store` is the bucket, `staging` the temporary directory of the backend process,
`req` what each request or job thread is doing. `fetch_file_if_missing` is `Fetch`
and `Save`, a snapshot push is `ListDirectory`, `PushRead` and `PushPut` for each
file; the loops keep the files left in `todo` and the step after them in `then`.
A file is torn from the truncation by `write_bytes`, `joblib.dump` or
`write_text` to its end. `Restart` loses the staging directory (a new container)
or keeps it.
The synchronous handlers `POST /api/train` and `POST /api/predict` push the
workspace; the job threads and `POST /train`, which are the kind "train job",
do not.

Nothing keeps requests apart: any of them overlap, as the code has no lock. Four
history variables say what the properties may then expect. `may[f]` is what may be
found under a dataset's name: the result of the last answered change (upload or
delete) that was quiet, and of those after it. A change is quiet (`quiet`) while no
other request changes the dataset or holds bytes of it, read and not yet written;
`Accept` decides it at the start, `Disturb` at each read, `Settle` at the answer.
`soiled` are the files of which a push has read a half-written copy, `synced` the
models of answered requests that push the workspace.

Left out: charts, predictions and the history file, which are copied by the same
operators; the local mode, which has no second copy; a second backend
process with a staging directory of its own.

### Accounts

`userRow` is the table `users` with the columns that decide who may do what: `lead`
is a role of `ALL_ACCESS_ROLES`, `active`, `verified`, `approved` are the flags.
`born` are the keys given out, `portalRows` says whether other tables refer to the
user (they do after the first visit to the portal), `hasToken` who has been given an
access token, `mailLink` what became of the mailed link. A handler is a request with
a database session: `LoadRow` reads the row (`handling`, `userId`, `rowSeen`), and
the step named for the handler (`Verify`, `Approve`, `Suspend`, ...) commits. A
commit writes the columns that differ from what was read and fails if the row is
gone (`Written`); the unique index on the address and the foreign keys are the
database's. `MemberReady` is `reset_user_password.py --member-ready`,
`RestartServer` a start of the server, with whatever addresses are listed as leads
by then; both are single steps, because the first runs by hand and the second
before the server takes requests.

`NaiveExpiry` says whether the expiry of a link comes back from the database
without its time zone. It does from the column that `create_all` makes
(`DateTime`), and then no link verifies anybody (section 3). The run assumes a
column with a time zone, so that `Verify` takes part in the races; the theorems
hold for both.

Left out: passwords and their change, the password file of the panel,
announcements, the activity log except that it may stop a deletion, the seed of
demonstration users.

### The browser application

A module for each part that has state of its own. All follow one
scheme. A React state variable is a TLA+ variable of (nearly) the same name. A
handler runs to its first `await` in one step; each `await` ends in steps of its
own, one per outcome, and what a handler reads after it is what its closure
captured before it, unless it reads a ref or `localStorage`. Requests under way
are a sequence or a set that the server reads and answers in any order. An
effect is part of the step that changes what it depends on. Leaving a page
drops its state, and the answers that were under way find nobody. A
variable marked *history* is not in the code: it remembers that
answers crossed in a way the code does not defend against, and the properties
make an exception for exactly that (`disturbed`, `newest`, `newestLog`, `cutOff`, `restarted`, `overtaken`, `foreign`,
`restored`, `overlapped`, `swapped`, `unstored`, `twice`, `stuckCells`, `grown`, `astray`,
`refolded`, `dynRestored`, `behind`, `lateEdit`, `aiCrossed`, `previewMixed`, `formMixed`).
Without the exception each of these properties fails, because the code takes the
answers as they come: section 3 says what happens then, and where a document of the
repository says otherwise.

The parts share no variable: what one needs of another (a session, an open page,
an answer) is an input of its actions, taken in every way the other can
give it. So `MCFrontend` lets one part move (`part`) and leaves the others
where they begin; the state spaces add up, and nothing is lost, because a
product of independent parts violates a property of one only if that one does.

## 3. Runs

| run | instance | checks |
|---|---|---|
| `lab_faults` | 1 job, 2 workers, 2 copies of its message, API faults, trainings beyond the timeout | `TypeOK`, `CompletedHasArtifacts`, `QueueFollowsRoute`, `RowAgreesWithJournal`, `PolledStatusRerunnable` |
| `lab_crashes` | 1 job, 2 workers, worker crashes, dependable API, trainings within the timeout | `NoConcurrentTraining`, `GoneMeansFinished`, `EventuallyFinished` |
| `lab_unrecorded` | 1 job, 1 worker, API faults | violates `DeletedAfterRecording` |
| `jobs_sound` | 2 jobs, object store, no faults, restarts | `ActiveHasOwner`, `NewestRunAgrees`, `RegistryIsDurable`, `UncancelledJobSettles` |
| `jobs_faults` | 2 jobs, local file, failing and torn writes, restarts | `TypeOK`, `RetryableStartsNoTraining`, `CancelInTimePreventsWork` |
| `jobs_late_cancel` | 1 job | violates `OnlyActiveIsCancelled` |
| `kernels` | 2 users, 2 handlers, 3 kernel ids, quota 1; one kernel may fail to start or to end and may execute beyond the timeout | `TypeOK`, `WithinQuota`, `OneExecutionAtATime`, `NoKernelIsReplaced`, `NoOrphanProcess`, `JanitorPicksUnused`, `UnregisteredDies` |
| `kernels_idle_kill` | 1 user, 2 handlers | violates `IdleShutdownOnlyIdle` |
| `workspace` | 1 dataset, 1 model, 2 requests or threads that overlap anyhow, two uploads or an upload and a training, API faults, restarts; 3.85 million states, about three minutes | `TypeOK`, `DatasetIsRecent`, `SyncedModelSurvives` |
| `workspace_unsynced` | 1 dataset, 1 model, 1 thread | violates `TrainedModelIsSynced` |
| `selection_lock` | 1 project, 1 new one, 2 profile requests | violates `LockStands` |
| `frontend` | the parts of the browser and two of the accounts, one at a time; 380,000 states, below three minutes | `FrontendTypeOK`, `ScreenFitsSession`, `LockHolds`, `SettledAgree`, `RequestsMakeSense`, `LatestAnswerShown`, `WhatIsSavedIsStored`, `TabIsItsUsers`, `CellsShowTheirRuns`, `BannerIsFounded`, `AdminSeesServer`, `PlacesAndChoicesAgree`, `ListsCatchUp`; `AccountsAgree`, `NothingIsWrittenBack` |

**Why the bounds are enough.** Jobs of the queue interact only through the
choice of the message a worker takes next, so one job with two workers shows
every race about it, and the proofs cover many jobs. Two copies stand for any
resend: they already put both workers on one job. Two registry jobs are the one
written and another whose entry is persisted with it, or the retried job and
its successor. Two handlers of two users race for a quota of one, and the
janitor and a shut-down are further actors; the third kernel id lets a process
that failed linger beside the registered one and the one being made. `Faulty` and
`Slow` name one kernel, so that the properties about the others are checked in its
presence. In the workspace `MaxWork` bounds uploads and trainings together by two:
an upload over an upload, or a training beside an upload; deletions, reads,
predictions, pushes and restarts are not bounded. Two requests are the mover and
the one it disturbs.

In `frontend` two of each thing show a race: two files, two versions, two runs, two
cells, two tabs, two tokens, two users, two requests of a kind, two visits; a third
(messages, edits, providers, listed runs) where one has to come between two
others. `MaxTries` is 2 of the code's 4: each attempt reads the stored token
anew, and one repetition shows that. The value sets of `MCFrontend` are chosen so
that the cases differ: one column in common to two versions, a metric that one
run lacks, widths that a drag can exceed. What is narrowed further: `TwoTabs` has one
user and lets one tab listen to the network's return, `TwoUsers` has one tab;
`cancel` and `retry` are two parts because both buttons are disabled together;
the brief is three (`brief`, `files`, `titles`): the registration form without the file
advice, and the file advice and the registration each beside the analysis, because all
of them at once are too many states; in `desk` the second file has one new version;
`CellTypes` has two of the four types, of which SQL behaves as a prompt and
markdown does not run; `SheetKinds` has one; `OpenedActivities` two of
twenty-three; the poll of the health and the frame of the results panel move on
their own because nothing else reads them. Of the accounts, the part
`accounts` has the master, one member and two handlers that race for its row, with
everything there is; `addresses` has a third key, for the member registered beside
or after another, and the handlers that register, verify and delete. Deadlock is not
checked in `frontend`: a user may do nothing more within the bounds.

**Why some properties are checked without some faults.** These are what the
code promises, not more:
`GoneMeansFinished` and `EventuallyFinished` need a dependable API (else
`lab_unrecorded` happens). `NoConcurrentTraining` needs trainings within the
visibility timeout. `ActiveHasOwner`, `NewestRunAgrees`, `RegistryIsDurable`
need writes that work: an exception before the `try` of `_run_train_job` leaves
a running job without a thread, and a torn JSON file is read as an empty
registry. `NoOrphanProcess` and `UnregisteredDies` speak of kernels outside
`Faulty`: after a timeout of `wait_for_ready` the process has no owner; and
`JanitorPicksUnused` of those outside `Slow`. `DatasetIsRecent` promises nothing newer
of a change that another request disturbed, and `SyncedModelSurvives` nothing of a file
in `soiled`: no document says that requests of one workspace may overlap safely.
`RetryableStartsNoTraining` does not say that a retry runs alone: a job cancelled after
its thread's last look is retryable (`main.py:2990`) while that thread goes on.
`NewestRunAgrees` compares the newest run row; the pending row of an older attempt
stays open in the code.

**Fairness.** Workers loop for ever and SQS ends every visibility timeout
(`LabQueue`); job threads and accepted requests run on and the platform restarts
the process (`JobRegistry`); handler threads and the janitor run on, executions
end by their timeout (`KernelRegistry`). In `AppLists` the browser's
intervals go on ticking (strongly fair, because a tick is disabled while the
bound on loads is reached), the server reads each load and the load ends (the
client's timeout). Elsewhere only weak fairness is assumed, and none
for users, operators, crashes or faults. `EventuallyFinished` speaks of
behaviours in which every worker is eventually either up or down for good and
one is up: a worker that crashes in every training never finishes a job.

### What the code does that its documents do not say

* `lab_unrecorded`: `docs/lab-gpu-worker-setup.md:67` says that after an
  exception FAILED is recorded and the message is then deleted. The `finally`
  block deletes it also when the RUNNING or the FAILED post itself raised; the
  row then stays QUEUED or RUNNING and no message is left.
* `jobs_late_cancel`: `cancel_job` says that only queued and running jobs can be
  cancelled, but decides without the lock, so a job that completes in between is
  shown as cancelled or, for good, as cancelling.
* `kernels_idle_kill`: `docs/EXPERIMENT_V3.md:64` promises a shutdown after 30
  minutes without use. A request that looked its kernel up just before the
  janitor's scan executes on a kernel that the janitor then ends.
* `workspace_unsynced`: `snapshot_push_workspace` calls itself the
  synchronisation after the end of the work, but a training job and
  `POST /train` end without it. `GET /api/models`, which reads the bucket, does not
  list the model, and a new container has lost it.
* `selection_lock`: the comment at `App.jsx:448` says that leaving a project locks the
  empty selection so that a synchronisation answer cannot revert it. The answer of a
  profile request that was under way is judged by the lock of the render that made it
  (413): it puts the project back, the picker goes on showing none (882-885), and
  trainings are sent with it.
* Not a run: two requests of one workspace that overlap may undo an upload or a
  deletion, when a download begun before it is written after it (`sync_io.py:49-53`), and
  a push that reads a file while another request writes it puts the torn copy over the
  object. Nothing in the repository says otherwise; the properties say in which
  cases this happens and that it happens in no other.
* Not a run: `sqs_queue.py:78` tells the user of a job that falls back that it runs
  on AWS ('AWS에서 실행합니다'), and `docs/aws-deploy-runbook.md:26` calls that queue the one
  an AWS worker consumes. The repository has no such worker: nothing in it receives
  from `SQS_AWS_JOBS_URL`, so the status of these jobs stays `FALLBACK_TO_AWS` unless something
  outside of it reports. `QueueFollowsRoute` says only what the code decides: each
  message is on the queue of its target, and the laboratory never works on such a job.
* Not a run: `main.py:2990` takes a cancelled job for a retry although its thread may
  be training still, so two trainings of one request may run at once.
* Not a run, but visible in the model: `KernelRegistry.shutdown` pops a kernel
  before it ends its process, so a user may for a moment have two processes
  (`docs/EXPERIMENT_V3.md:61` says one).
* Not runs either, in `Accounts`. The expiry of a mailed link is read back without
  time zone and compared with a time that has one (`auth.py:88`), which raises: every
  link opened in time is answered with 500, though the answer to the registration
  (`auth.py:70`) says to verify the address with it; only an operator can. A
  suspended member listed in `DIRECTOR_EMAILS` becomes a suspended lead at the next
  start, whom `activate_user` refuses because leads need no such change
  (`admin.py:133`). An activation that read the row before a suspension was
  committed sets the flag to the value it has read: the session writes nothing, and
  the answer (`admin.py:138`) is that the suspension is lifted.

### What the browser code leaves open

These are the crossings the history variables stand for, and other behaviour that
reading the code for the model brought up. Most of them contradict no document.
These do:

| the repository says | the code does | exception |
|---|---|---|
| `App.jsx:448`: no synchronisation answer reverts the lock | one asked for before the lock does | run `selection_lock`; `LockHolds` speaks of the time after the last such answer (`FromTheLock`) |
| `useTracing.js:95`: if the server fails the local record stays | `writeLocal` (31-38) swallows a full storage, then there is no local record either | `unstored` in `NewestTracesKept` |
| `activities.config.js:17`: snippets can be executed in the session's kernel at once | the one of `data.ingest` (145) reads `FILE_PATH`, which nothing defines | `GuideCanBeFollowed` says that it misses exactly this name and every other snippet none |
| `useAiProvider.js:4-5`: the choice is shared with other pages such as the chat | an open chat page keeps the provider it read when it was opened, and hears of no other | `ChoiceIsShared` speaks of experiment pages |
| `CenterNotebookWorkspace.jsx:666` (not routed): the new cell is run | `submitInstruction` looks for it among the cells of its render, where it is not | none needed: `SheetShowsItsRun` speaks of runs that began |
| `useExperimentV3State.js:16`: `dirty` says whether saving is needed | a change that an answer queued in the turn of the timer (115-120) is unsaved and not dirty | `SavedPageIsStored` speaks of what the screen shows |

The first is a run of its own. The next three and the hint of the page that is not routed
show in the lines of the code without any interleaving; `dirty` is described there,
not promised.

* *Navigation.* A member on an operator's page sees a blank one. The strip's
  sub-menu, and the pages `datasets_catalog`, `notebook` and `monitor`, cannot be
  reached; App.jsx 1338 and 1352-1628 are behind `false &&`.
* *Selection.* A profile asked for before the selection was locked is taken over
  after it.
* *Sign-in.* No tab listens to `storage`: a tab sends requests with the token
  another tab stored. The listener for the network's return takes an answer for
  a token that was replaced; a late 401 for an old token clears the new one; a
  sign-in over a session shows the old user until `/me` answers. The timeout of
  `client.ts` (67-88) covers the headers, not the body (158).
* *Connection.* The proxy knows the cookies `render` and `aws`, which
  `setStoredBackendMode` no longer writes; it exists only when the base is unset,
  so the route `render` always answers 503.
* *Training.* An older preview, or an older log in the console of jobs, replaces
  the newer one when it comes after it. The end of an older job, told by a late poll,
  stops the poll of the newer one. A focused job's dialog opens again with every list.
* *Brief and chat.* An analysis of an older form, and a handler of a form that was
  left, store what they had; the word "saved" then stands over that until the next
  autosave. An answer asked for before a conversation was begun anew joins the new one.
  A refusal of the refinement loses the user's message. A chat that is open
  elsewhere does not hear of a provider chosen in another tab.
* *Lists.* Lists are not emptied at sign-out. Knowledge, templates and reports
  have no clock and catch up only on a reload or a button. Every change of the
  project lock loads all lists again. The knowledge form may be sent
  twice, and its answer clears what was typed meanwhile.
* *Page V3.* `runningCellId` is one for all cells and Ctrl+Enter goes past the
  disabled button; a cell stored as running stays so. Leaving within 500 ms of a
  change loses it; an answer that arrives as the timer fires is marked saved and
  is not; a full storage is never tried again, and the traces it refuses are
  only on the server, if anywhere. `FileUploader` shows `preview.rows`, the
  backend returns `data`. The snippet of `data.ingest` reads `FILE_PATH`, which
  nothing defines, although its file calls the snippets immediately executable.
* *Page V2 (not routed).* `submitInstruction` uses the cells of its render, so the
  new cell never runs, although the hint (CenterNotebookWorkspace.jsx:666) says it
  does; removing the first active cell leaves its id active; a stored "running"
  disables Run after a reload.
* *Canvas (not routed).* Cancelling leaves the record queued; a reset stops no
  loop; folding a block forgets its request; a second answer without concerns
  brings the old warnings back.
* *Results panel.* Runs are ticked by place in a reversed list: when the history
  grows, other runs are compared. `showCompare` survives the last tick.
* *Operator pages.* Saving an announcement clears whatever the form holds by
  then; a failed list after a change is not said; a late password answer shows
  in the next opening of the panel; the late preview of a closed report appears under
  the name of another; the platform forms share one error and one message.

## 4. Proofs

### The laboratory queue

`LabQueueProofs` proves, for every set of jobs and workers:

| theorem | statement |
|---|---|
| `TypeCorrect` | `Spec => []TypeOK` |
| `CompletedIsBacked` | `Spec => []CompletedHasArtifacts` |
| `QueuesFollowRoutes` | `Spec => []QueueFollowsRoute` |
| `JournalIsComplete` | `Spec => []RowAgreesWithJournal` |
| `StatusImplementsLifecycle` | `Spec => PolledStatusRerunnable`, the refinement of `JobLifecycle` |
| `NoConcurrentWhenOrderly` | `Spec => []NoConcurrentTraining`, assuming `Orderly` |
| `OnceOnlyWhenFaultFree` | `Spec => PolledStatusOnceOnly`, assuming `FaultFree` |
| `NoJobIsLost` | `Spec => []GoneMeansFinished`, assuming `Orderly` and `~ApiFaults` |

The first five assume `ConstantsOK` only: every combination of resends,
crashes, API faults and overlong trainings is covered. `Orderly` is one copy of a
send and trainings within the visibility timeout; `FaultFree` adds no crashes and
no API faults.

*The inductive invariant* `Inv`. `CompletedHasArtifacts` is not inductive: the
report COMPLETED is made from what a worker, or a report under way, claims.
`Addressed` says that messages, workers and late reports are about laboratory
jobs only. `Begun` says that whoever may report an outcome is about a job whose
row a worker has already written; this is why FAILED never follows QUEUED, even
late. `Staged` carries the presence of the artifacts from the message to the
worker to the late report. `Routed` ties the status to the target. With them a
report is `Truthful`, and one lemma (`PostEffect`) shows that a truthful report,
on time or late, keeps the row in order.

*The refinement* reuses `Inv`: each backend step that writes a row is
`Create`, each truthful report is `Start`, `Finish`, `Redo` or a stutter.

*Mutual exclusion* needs `HandInv`: a job has at most one message
(`OneMessage`), and a busy worker holds it hidden and alone (`Exclusive`).

*Finality* needs in addition that a hidden message is in the hand of its
receiver, that a job is QUEUED until that worker reports, and RUNNING
until it reports again (`FinalInv`).

*No job is lost* although workers crash: `KeptInv` adds that a job is sent before
it reads as published, that its message goes only with the outcome recorded, and
that a worker about to delete has recorded one. It needs `HandInv`, because the
message a worker deletes must be the only one of its job.

### The kernel registry

`KernelRegistryProofs`, for every finite set of users, any kernels and handlers,
and every quota. `NoneIsNobody` (the placeholder of "nothing" is no kernel and no
handler; users are finitely many) is assumed besides `ConstantsOK`.

| theorem | statement |
|---|---|
| `RegistryTypeCorrect` | `Spec => []TypeOK` |
| `ExecutionsExclude` | `Spec => []OneExecutionAtATime` |
| `QuotaHolds` | `Spec => []WithinQuota` |
| `KernelsAreNotReplaced` | `Spec => NoKernelIsReplaced` |
| `NoProcessIsLost` | `Spec => []NoOrphanProcess` |
| `JanitorSparesExecutions` | `Spec => JanitorPicksUnused` |

The invariant `Inv` says what a handler refers to at each step
(`HandlersRefer`), that exactly the handler that creates a kernel holds the class
lock and that its user has none (`CreatorHoldsLock`), and that whoever executes
holds the lock of its kernel (`RunnerHoldsKernel`). The last is why two
executions exclude each other although a shut-down or a restart may take the
kernel away between them. `CreatorHoldsLock` is the reason for the other two: a
registration never finds a kernel of that user, and only one place can be
reserved. The quota counts the users who own a kernel and the reserved place: a
creation turns the one into the other, so the sum grows only in `StartProcess`,
where the code compares it with the limit. For orphans the argument follows each
kernel from the registry to the handler or the janitor that popped it
(`HandlerLosesNone`); a process that does not become ready, or does not die,
is the only one that gets lost, hence `Faulty`.

### The job registry

`JobRegistryProofs`, for every set of jobs.

| theorem | statement |
|---|---|
| `JobsTypeCorrect` | `Spec => []TypeOK` |
| `RetryablesStartNoTraining` | `Spec => []RetryableStartsNoTraining` |
| `CancelInTimeHolds` | `Spec => CancelInTimePreventsWork` |
| `ActiveJobsAreOwned` | `Spec => []ActiveHasOwner`, assuming `~Faults` |
| `RunRowsAgree` | `Spec => []NewestRunAgrees`, assuming `~Faults` |
| `JobsAreDurable` | `Spec => RegistryIsDurable`, assuming `~Faults` and `AtomicStore` |

The first three hold whatever write fails; all six include crashes and restarts.
`Inv` adds to the types that a thread exists only after its handler is done
(`ThreadsAreSubmitted`), that nothing of a process outlives it (`DownIsEmpty`),
and that a job being submitted can only be cancelled (`SubmittedIsFresh`); without
the last one the handler could start the thread of a job that may already be
retried. All the threads' steps are first reduced to a table of moves and
raises (`ThreadStep`), which the other proofs use instead of the actions.

*A cancellation in time* is a property of pairs of moments. `Averted(j)` is the
invariant that starts to hold when the request is recorded before the second
look: no thread unsets the flag, and a job past its training is not started
again, not even after a restart.

*Ownership* needs that a thread past the outcome has left the active states
(`OverIsInactive`), *agreement of the rows* that at `publish` and `closefail`
the entry already says what the row is about to say (`Recorded`), *durability*
that the object equals the memory while the process is up and that no handler can
set a completed job back but a cancellation (`DurableInv`).

### The accounts

`AccountsProofs`, for any addresses, keys and handlers and both values of
`NaiveExpiry`, from `AccountsAssumption` (the master has an address, and `NoOne` is
neither an address nor a key):

| theorem | statement |
|---|---|
| `AccountsTypeCorrect` | `AccountsSpec => []AccountsTypeOK` |
| `AccountsStayConsistent` | `AccountsSpec => []AccountsAgree` |
| `CommitsSurvive` | `AccountsSpec => NothingIsWrittenBack` |

`AccountsAgree` is that an address has one account (`OneAccountPerAddress`), that who
holds a token is cleared (`SignedInIsCleared`) and that no row refers to a missing
user (`RowsHaveOwner`). `AccountsInv` adds what handlers remember: `HandlersRefer`
(a handler works on a key that was given out, or holds a new member to insert),
`BornFirst` (a key not given out has neither row nor token, so that a row is never
inserted under a key somebody still refers to) and `SeenHolds`: what a
handler has read of the role, the verification and the approval still holds while
the row exists. That is why a token may be issued on flags read earlier, and it
holds because every other step only grows rows (`RowsGrow`, `InvGrows`); standing
(`active`) is not among them, which is how an activation can come to nothing.
`CommitEffect` says what one commit does to a row, and the action property is
proved handler by handler from it (`KeptCommit`).

### The object workspace

`ObjectWorkspaceProofs`, for any datasets, uploads, models and requests:

| theorem | statement |
|---|---|
| `WorkspaceTypeCorrect` | `Spec => []TypeOK` |
| `DatasetsAreRecent` | `Spec => []DatasetIsRecent` |
| `SyncedModelsSurvive` | `Spec => []SyncedModelSurvives` |

All three assume `ConstantsOK` only: requests overlap, fail and are cut off by restarts in
every order. `Shape` is the type with `Fits` (what a request is doing fits its kind and
its step).

Only the request that moves changes files and its own row of `req`. So for each
action one lemma (`ArriveEffect`, `FetchEffect`, ...) says what it does to each field, and what remains is
seen from one file: `KeptBy` and `ModelKeptBy` are what the request that moves must
establish, `DatasetKept` and `ModelFileKept` conclude for the others.

`DatasetIsRecent` is not inductive, because bytes in the hands of a request will be
found later. `DataInv` adds that they may be found too (`HandsHold`), and what a quiet
change can rely on (`QuietHolds`): nobody else has bytes of its dataset in hand or changes it,
an upload past its write finds its own number staged, and past its push in the bucket,
a deletion past `Erase` finds no object. So when a quiet change is answered, every
copy is its result, and `Settle` may forget what was before.

`ModelInv` says of each model file that it is torn in the bucket, or on its way to it, only if
a push has read it so (`ModelFileHolds`), and of a training or prediction that pushes that both files are
staged before it lists them and then in the bucket or still to be put there (`SyncHolds`).
A model file, unlike a dataset, is never taken away but by a restart, and then the request
that relied on it is gone (`Remain`).

### The browser

`FrontendProofs` proves, of `MCFrontend` and for any values of its constants that satisfy
the assumptions of the parts and `NamedAssumption` (the tab and the user that `TwoTabs` names
are among the tabs and users):

| theorem | property |
|---|---|
| `BannerNeedsTwoFailures` | `BannerIsFounded` |
| `OneScreenPerSession` | `ScreenFitsSession` |
| `SavedMeansStored` | `WhatIsSavedIsStored` |
| `TabsActAsTheirUsers` | `TabIsItsUsers` |
| `RequestsAlwaysMakeSense` | `RequestsMakeSense` |
| `OperatorSeesServer` | `AdminSeesServer` |
| `LatestAnswersWin` | `LatestAnswerShown` |
| `CellsTellTheirRuns` | `CellsShowTheirRuns` |
| `PlacesAlwaysAgree` | `PlacesAndChoicesAgree` |
| `LockedSelectionStaysEmpty` | `LockHolds` |
| `SelectionSettles` | `SettledAgree` |
| `FrontendTypeCorrect` | `FrontendTypeOK` |

Each is `Spec => []...`, or `Spec => ...` of an action property, with the exceptions the
property names; the comment of each theorem repeats them. That answers come in order is
proved nowhere, because the code takes them as they come. The arguments are about the parts: `PagesProofs` and `AnswersProofs`
have for each an invariant (`...Inv`), that it holds at the start (`...InvInit`), and that each step
of the part keeps it (`...InvStep`), whatever the rest of the application does and
whatever the bounds are. `FrontendProofs` only adds that a step of `Spec` is a step of the part
or leaves it alone (`...OrStill`). That also covers the steps that section 3 leaves out of the run, such as
those of the whole brief at once. Why the properties alone are not inductive:

* *Session.* A request for the user that is out asks about the token its tab holds, unless another
  tab's token got in between, and a tab that is loading has one due or out (`SessionInv`).
* *Members and notices.* While the list shown is an old one, a request is under way that will
  bring the news (`BringsNews`); the deletion of the notice in the form was asked for with that
  notice in the form, so its answer clears it (`DeletionsClear`).
* *Brief.* A page that was left has no timer and says nothing of saving (`AwayIsQuiet`).
* *Page of cells.* The timer that is set is of the version on the screen (`TimerIsOfScreen`), so whatever an
  answer queues, what it stores is what is seen (`StoreStepSaves`).
* *Previews.* What the newest request has read, and what is shown of it, is the current version of the
  selected file (`IsCurrent`), or an upload of that file is past the store and will ask again
  (`Superseded`).
* *Training and its jobs.* One handler runs at a time (`WorkInv`); a poll tells
  the truth about the end of its job, and goes on only while that job is watched
  (`WatchInv`, `Faithful`).
* *Log of a job.* The newest request is for the job that is open, and what became of it (`newestLog`)
  says whether the log shown is its answer (`ConsoleInv`).
* *Platform forms.* Unless several were mixed there is at most one request (`FormInv`).
* *Selection.* Unless something was lost or overtaken, the selection posted last is
  the one shown; when all are stored it is the profile's, or a profile request that will
  be taken over is under way (`PostedOrStored`, `Awaited`). A request made under the lock is judged by
  it (`FromTheLock`, `LockStep`).
* *Conversation.* A message of the user stands unanswered only as the last one, while the model
  is at work: `EveryMessageAnswered` counts questions and answers in every state, also under a
  request, because the weaker form that looked only at what is sent was not inductive.

* *Cells of an activity.* Unless a cell was run under a run, only its newest run is on,
  and a cell that is not there is as new: an answer to a deleted cell leaves nothing behind
  (`PageInv`, `CellTells`).
* *Notebook.* The number of a sheet is given once, nothing is out while the page is
  left, and a prompt is out alone for its cell (`NbInv`, `SheetTells`).
* *Canvas run.* Of the loops that are on, only the one whose token was not cancelled
  drives the block, the newest record and the stop button (`LoopsFit`, `Drives`); what is
  stored when the page is left is as tidy as what is shown (`Tidy`).
* *Blocks and free cells.* A block has at most one request, which its buttons know of
  (`BlocksInv`); the component of a cell knows of the prompt of this visit (`DynInv`).
* *File and traces.* What is loaded is what is named, unless another file was chosen under the
  load (`LoadInv`); the newest traces of a list are among the newest of any longer list
  that has them, so trimming never takes one that should stay (`TracesInv`, `NewestInList`,
  `NewestGrows`).
* *Comparison.* What is ticked are the runs under the places picked, unless the list grew in
  between (`PanelInv`). The column with the star is found by a recursion over two or three
  columns: the proof gives the values of each step, and each keeps that no column so far
  beats the one found (`BestSoFar`, `BestStep`, `BestColumnIsBest`).

* *Places.* What is open, recorded or under way names a stage and one of its activities, and
  a load began in the data stage (`PlacesInv`); that the stage of an activity is the one that
  lists it is computed from the catalogue (`NamesApart`, `StageIsOwn`).
* *Snippets.* What was followed has left its names in the kernel (`SnippetsInv`). Each snippet
  stands at one place of the guide (`GuidePlaces`, from the five lists joined), and those that
  give the names it reads stand before it (`NeedsComeEarlier`, `NeedsSuffice`).
* *Provider.* The last news on its way to a tab is of the stored choice, unless the tab chose
  under older news (`ChoiceInv`).
* *Columns.* A drag is of a side and began with some width (`ColumnsInv`).

Answers leave the queues in any order, and cells are inserted, swapped and deleted while they
run: a few lemmas say what each leaves of a sequence, and that the elements stay apart
(`RemoveAt...`, `InsertAt...`, `SwapApart`, `AppendApart`).

The types are no by-product: many are bounds that only hold because of something else. A
`...Type` predicate beside each invariant says what is missing, and `...TypeSound` that both
give the type:

* The list of messages stays within its bound because a request leaves room for its
  answer (`ChatFits`); a version of a file within its bound because an upload that is sent is
  one of the allowed ones (`DeskType`); a probe never makes a fourth attempt because one that
  pauses has tries left (`ConnType`).
* The unfolded entry of a trace is one of the trace, because the trace only grows (`FrameType`);
  a load of a list carries a version the list has had, also when several loads are dropped
  at once (`ListsFit`, `LoadFits`).
* A free cell is busy only while it is in the order (`DynType`), the record of a run keeps its
  shape through additions and patches (`AddRunFits`, `PatchFits`), and what the results panel
  shows is one of the facts it was given, or nothing (`BodyIsFact`).
* Notes and cells are kept only under names of the catalogue (`NotesType`).

`FrontendTypeCorrect` combines them with the types of the accounts (`AccountsInv`) in four groups
(`ScreenTypes`, `ServiceTypes`, `WorkTypes`, `CellTypesFit`). It needs a few assumptions that the
values of `Frontend.cfg` had without saying so: `CellTypes` and `SheetKinds` are among the code's
types, `MaxUploads` and `MaxEvents` are positive, the bounds of `AppLists` are numbers.
Two lines of the types proved true of the checked instance only and were corrected: the requests
of the selection in flight have no fixed bound, since every registration activates twice whatever
is still out, and the badges of traces belong to activities of the catalogue, not only to those a
run of the model opens.

### Only model-checked

Liveness (`EventuallyFinished`, `UncancelledJobSettles`, `UnregisteredDies`,
`ListsCatchUp`) and everything about fairness is beyond the proof system used here.
Every invariant and every action property the passing runs check is a theorem.

## 5. Plan

1. `ObjectWorkspace`: the prediction files and the history file, a refinement to
   one set of files per user, a second backend process.

## 6. Not modelled

* **Layout and rendering** of the browser: markup, styles, icons, texts, charts
  and the static panels of the page V2. They have no state beyond what the modules
  take from them.
* **Copies**: `archive/` and `pages/UI_backup_0424/` are snapshots of former code,
  and the `false &&` block of App.jsx cannot run.
* **Notebook sessions** of the backend (`notebook_service.py`): the page that used
  them is not routed; the registry of the page V3, which is, is `KernelRegistry`.
* **Accounts**: passwords, the password file of the panel, announcements, the
  activity log and the seed of demonstration users; each is a row or a file
  with one writer at a time, but for two changes of one password at once, of which the
  later commit wins.
* **Runtime dispatch, tracing store, model registry, portal**: single-row
  operations or an in-memory dictionary without concurrent writers of one entry; the
  browser's side of them is in `OperatorPages`, `TraceLog`, `AppLists`.
* **Machine learning core, RAG, agents, LLM gateway, mail, scripts**: numerical
  code, text retrieval, calls of external services, things run once by hand.
