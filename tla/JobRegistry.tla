---------------------------- MODULE JobRegistry ----------------------------
(***************************************************************************)
(* The in-process job registry of backend/main.py: JOBS and JOBS_LOCK, the *)
(* file or object that keeps them, the thread of each train or predict     *)
(* job, the handlers that submit, cancel and retry jobs, the ExperimentRun *)
(* rows, and the restart of the process.                                   *)
(*                                                                        *)
(* Left out of a registry entry: progress, phase, payload and timestamps.  *)
(* A train job and a predict job follow the same protocol; only a train    *)
(* job may insert a second ExperimentRun row (Work).                       *)
(***************************************************************************)
EXTENDS Naturals, FiniteSets

CONSTANTS
    Jobs,         \* ids uuid4 may return
    Faults,       \* may a write of the registry, the log or the database fail
    AtomicStore   \* the registry is an object (TRUE) or a file (FALSE)

ASSUME ConstantsOK == Faults \in BOOLEAN /\ AtomicStore \in BOOLEAN

VARIABLES
    up,       \* the backend process is serving
    job,      \* JOBS
    disk,     \* the registry as it was persisted last
    torn,     \* the process ended inside write_text
    pending,  \* ExperimentRun row inserted by _ensure_run_for_job
    trained,  \* ExperimentRun row inserted by _train_impl
    submit,   \* step of the handler that submits the job
    cancel,   \* step of a handler that cancels the job
    thread    \* step of the job's thread

registry == <<job, disk, torn>>
runs == <<pending, trained>>
vars == <<up, job, disk, torn, pending, trained, submit, cancel, thread>>

-----------------------------------------------------------------------------
Active == {"queued", "running"}
Retryable == {"failed", "cancelled", "recovered"}
JobStatus == Active \cup Retryable \cup {"completed", "cancelling"}
Entry == [status : {"absent"} \cup JobStatus, cancel_requested : BOOLEAN]
Absent == [status |-> "absent", cancel_requested |-> FALSE]
RunStatus == {"none", "queued", "running", "completed", "failed", "cancelled"}
BeforeCheck == {"begin", "start", "mark", "load", "check"}
Alive == BeforeCheck \cup {"closing", "work", "done", "publish", "except",
                           "closefail", "finally"}

TypeOK ==
    /\ up \in BOOLEAN
    /\ job \in [Jobs -> Entry]
    /\ disk \in [Jobs -> Entry]
    /\ torn \in BOOLEAN
    /\ pending \in [Jobs -> RunStatus]
    /\ trained \in [Jobs -> RunStatus]
    /\ submit \in [Jobs -> {"free", "insert", "link", "spawn", "over"}]
    /\ cancel \in [Jobs -> {"idle", "checked", "cancelling", "cancelled"}]
    /\ thread \in [Jobs -> {"none", "end"} \cup Alive]

Init ==
    /\ up = TRUE
    /\ job = [j \in Jobs |-> Absent]
    /\ disk = job
    /\ torn = FALSE
    /\ pending = [j \in Jobs |-> "none"]
    /\ trained = pending
    /\ submit = [j \in Jobs |-> "free"]
    /\ cancel = [j \in Jobs |-> "idle"]
    /\ thread = [j \in Jobs |-> "none"]

-----------------------------------------------------------------------------
(* _set_job: under JOBS_LOCK, update the entry, then persist all of JOBS.  *)
(* When persisting raises, the entry in memory is changed all the same.    *)

\* A bug: the entry is replaced, so earlier fields are lost.
Updated_Replaced(j, s) ==
    [job EXCEPT ![j] = [status |-> s, cancel_requested |-> FALSE]]

Updated(j, s) == [job EXCEPT ![j].status = s]

Persisted == disk' = job' /\ torn' = FALSE

\* Nothing is written, the object is written and the reply lost, or the file
\* is left truncated.
NotPersisted ==
    /\ Faults
    /\ \/ UNCHANGED <<disk, torn>>
       \/ AtomicStore /\ disk' = job' /\ UNCHANGED torn
       \/ ~AtomicStore /\ torn' = TRUE /\ UNCHANGED disk

Go(j, from, to) == thread[j] = from /\ thread' = [thread EXCEPT ![j] = to]

\* A thread step that sets the status: next on success, raised if it raises.
SetStep(j, from, s, next, raised) ==
    /\ job' = Updated(j, s)
    /\ \/ Go(j, from, next) /\ Persisted
       \/ Go(j, from, raised) /\ NotPersisted
    /\ UNCHANGED <<up, runs, submit, cancel>>

\* _update_run_by_job_id: the newest row of the job, if there is one.
UpdateRun(j, s) ==
    IF trained[j] # "none"
    THEN trained' = [trained EXCEPT ![j] = s] /\ UNCHANGED pending
    ELSE /\ UNCHANGED trained
         /\ pending' = IF pending[j] = "none" THEN pending
                       ELSE [pending EXCEPT ![j] = s]

\* A thread step that appends to the log and updates the run row.
RunStep(j, from, s, next, raised) ==
    /\ \/ Go(j, from, next) /\ UpdateRun(j, s)
       \/ Faults /\ Go(j, from, raised) /\ UNCHANGED runs
    /\ UNCHANGED <<up, registry, submit, cancel>>

-----------------------------------------------------------------------------
(* _run_train_job and _run_predict_job.                                   *)

\* First look at cancel_requested; a job cancelled here keeps its run row.
Begin(j) ==
    \/ job[j].cancel_requested /\ SetStep(j, "begin", "cancelled", "end", "end")
    \/ /\ ~job[j].cancel_requested
       /\ Go(j, "begin", "start")
       /\ UNCHANGED <<up, registry, runs, submit, cancel>>

\* The two steps before the try block: an exception ends the thread.
SetRunning(j) == SetStep(j, "start", "running", "mark", "end")
MarkRun(j) == RunStep(j, "mark", "running", "load", "end")

\* A train job saves its progress and then loads its user; a predict job does
\* neither here.
LoadUser(j) ==
    \/ SetStep(j, "load", job[j].status, "check", "except")
    \/ /\ Go(j, "load", "check") \/ (Faults /\ Go(j, "load", "except"))
       /\ UNCHANGED <<up, registry, runs, submit, cancel>>

\* Second look; without a cancellation the progress is saved and work starts.
Check(j) ==
    \/ /\ job[j].cancel_requested
       /\ SetStep(j, "check", "cancelled", "closing", "except")
    \/ /\ ~job[j].cancel_requested
       /\ SetStep(j, "check", job[j].status, "work", "except")

\* A bug: the run row is given the status the entry has by now.
CloseCancelled_Copied(j) ==
    RunStep(j, "closing", job[j].status, "finally", "except")

CloseCancelled(j) == RunStep(j, "closing", "cancelled", "finally", "except")

\* _train_impl inserts a row of its own for a regular training, none for a
\* time series, an anomaly detection or a prediction; it may raise.
Work(j) ==
    /\ Go(j, "work", "done") \/ Go(j, "work", "except")
    /\ trained' \in {trained, [trained EXCEPT ![j] = "completed"]}
    /\ UNCHANGED <<up, registry, pending, submit, cancel>>

SetCompleted(j) == SetStep(j, "done", "completed", "publish", "except")
PublishRun(j) == RunStep(j, "publish", "completed", "finally", "except")

\* A bug: an exception is only logged.
SetFailed_Omitted(j) ==
    /\ Go(j, "except", "finally")
    /\ UNCHANGED <<up, registry, runs, submit, cancel>>

\* A bug: a job that raised is trained once more by the same thread.
SetFailed_Again(j) == SetStep(j, "except", "failed", "work", "finally")

SetFailed(j) == SetStep(j, "except", "failed", "closefail", "finally")

\* A bug: the run row of a failed job is not updated.
CloseFailed_Omitted(j) ==
    /\ Go(j, "closefail", "finally")
    /\ UNCHANGED <<up, registry, runs, submit, cancel>>

CloseFailed(j) == RunStep(j, "closefail", "failed", "finally", "finally")

\* finished_at; the status stays what it is.
Finally(j) == SetStep(j, "finally", job[j].status, "end", "end")

Thread(j) ==
    \/ Begin(j)
    \/ SetRunning(j)
    \/ MarkRun(j)
    \/ LoadUser(j)
    \/ Check(j)
    \/ CloseCancelled(j)
    \/ Work(j)
    \/ SetCompleted(j)
    \/ PublishRun(j)
    \/ SetFailed(j)
    \/ CloseFailed(j)
    \/ Finally(j)

-----------------------------------------------------------------------------
(* The handlers.                                                          *)

SubmitTo(j, from, to) ==
    /\ submit[j] = from
    /\ submit' = [submit EXCEPT ![j] = to]

\* Submit: the job is listed as queued before it has a run row or a thread.
Enlist(j) ==
    /\ up
    /\ SubmitTo(j, "free", "insert")
    /\ job' = [job EXCEPT ![j] = [Absent EXCEPT !.status = "queued"]]
    /\ Persisted
    /\ UNCHANGED <<up, runs, cancel, thread>>

submit_job(j) == Enlist(j)

\* Retry makes a new job out of the payload of one that is over.
retry_job(old, j) ==
    /\ job[old].status \in Retryable
    /\ Enlist(j)

InsertRun(j) ==
    /\ SubmitTo(j, "insert", "link")
    /\ pending' = [pending EXCEPT ![j] = "queued"]
    /\ UNCHANGED <<up, registry, trained, cancel, thread>>

\* run_id is saved in the entry.
LinkRun(j) ==
    /\ SubmitTo(j, "link", "spawn")
    /\ UNCHANGED job
    /\ Persisted
    /\ UNCHANGED <<up, runs, cancel, thread>>

StartThread(j) ==
    /\ SubmitTo(j, "spawn", "over")
    /\ Go(j, "none", "begin")
    /\ UNCHANGED <<up, registry, runs, cancel>>

\* A step of the handler raises: the entry stays as it is, with no thread.
SubmitFails(j) ==
    /\ Faults
    /\ \/ /\ up
          /\ SubmitTo(j, "free", "over")
          /\ job' = [job EXCEPT ![j] = [Absent EXCEPT !.status = "queued"]]
          /\ NotPersisted
       \/ /\ SubmitTo(j, "insert", "over") \/ SubmitTo(j, "spawn", "over")
          /\ UNCHANGED registry
       \/ SubmitTo(j, "link", "over") /\ UNCHANGED job /\ NotPersisted
    /\ UNCHANGED <<up, runs, cancel, thread>>

CancelTo(j, from, to) ==
    /\ cancel[j] = from
    /\ cancel' = [cancel EXCEPT ![j] = to]

\* cancel_job reads the status without the lock to accept the request ...
CancelCheck(j) ==
    /\ job[j].status \in Active
    /\ CancelTo(j, "idle", "checked")
    /\ UNCHANGED <<up, registry, runs, submit, thread>>

\* ... reads it again to choose the new status ...
CancelChoose(j) ==
    /\ CancelTo(j, "checked",
          IF job[j].status = "running" THEN "cancelling" ELSE "cancelled")
    /\ UNCHANGED <<up, registry, runs, submit, thread>>

\* ... and writes it under the lock, over whatever the thread wrote since.
\* The handler closes the run row only if the entry, which is the object
\* _set_job has just changed, still says queued.
CancelSet(j) ==
    /\ cancel[j] \in {"cancelling", "cancelled"}
    /\ cancel' = [cancel EXCEPT ![j] = "idle"]
    /\ job' = [job EXCEPT ![j] = [status |-> cancel[j],
                                  cancel_requested |-> TRUE]]
    /\ \/ Persisted
       \/ NotPersisted
    /\ IF job'[j].status = "queued" THEN UpdateRun(j, "cancelled")
                                    ELSE UNCHANGED runs
    /\ UNCHANGED <<up, submit, thread>>

-----------------------------------------------------------------------------
(* The process ends and starts again.                                     *)

Writing == \E j \in Jobs :
    \/ submit[j] \in {"insert", "link"}
    \/ cancel[j] \in {"cancelling", "cancelled"}
    \/ thread[j] \in Alive

\* Threads are daemons and JOBS is memory; a file may be left half written.
Crash ==
    /\ up
    /\ up' = FALSE
    /\ job' = [j \in Jobs |-> Absent]
    /\ \/ UNCHANGED torn
       \/ ~AtomicStore /\ Writing /\ torn' = TRUE
    /\ submit' = [j \in Jobs |-> IF submit[j] = "free" THEN "free" ELSE "over"]
    /\ cancel' = [j \in Jobs |-> "idle"]
    /\ thread' = [j \in Jobs |-> "none"]
    /\ UNCHANGED <<disk, runs>>

\* A bug: jobs that were still queued are not marked.
Recovered_RunningOnly(e) ==
    IF e.status = "running" THEN [e EXCEPT !.status = "recovered"] ELSE e

Recovered(e) ==
    IF e.status \in Active THEN [e EXCEPT !.status = "recovered"] ELSE e

\* A bug: every entry is marked, whatever its status.
Loaded_AllMarked ==
    IF torn THEN [j \in Jobs |-> Absent]
    ELSE [j \in Jobs |-> IF disk[j] = Absent THEN Absent
                         ELSE [disk[j] EXCEPT !.status = "recovered"]]

\* _load_jobs and _recover_jobs_on_startup: a file that is no JSON counts as
\* an empty registry.
Loaded ==
    IF torn THEN [j \in Jobs |-> Absent]
    ELSE [j \in Jobs |-> Recovered(disk[j])]

Restart ==
    /\ ~up
    /\ up' = TRUE
    /\ job' = Loaded
    /\ Persisted
    /\ UNCHANGED <<runs, submit, cancel, thread>>

\* The process ends again while it saves what it loaded.
RestartTorn ==
    /\ ~up /\ ~AtomicStore
    /\ torn' = TRUE
    /\ UNCHANGED <<up, job, disk, runs, submit, cancel, thread>>

-----------------------------------------------------------------------------
Handlers(j) ==
    \/ InsertRun(j)
    \/ LinkRun(j)
    \/ StartThread(j)
    \/ CancelChoose(j)
    \/ CancelSet(j)

Next ==
    \/ \E j \in Jobs : \/ Thread(j)
                       \/ submit_job(j)
                       \/ \E old \in Jobs : retry_job(old, j)
                       \/ Handlers(j)
                       \/ SubmitFails(j)
                       \/ CancelCheck(j)
    \/ Crash
    \/ Restart
    \/ RestartTorn

Spec == Init /\ [][Next]_vars

\* Threads and accepted requests run to their end, and the platform starts
\* the process again.  Nobody has to submit, cancel or crash.
FairSpec ==
    /\ Spec
    /\ \A j \in Jobs : WF_vars(Thread(j)) /\ WF_vars(Handlers(j))
    /\ WF_vars(Restart)

-----------------------------------------------------------------------------
(* Properties.                                                            *)

\* A job shown as queued or running has a thread that will move it on, or the
\* handler that will start one: neither cancellations nor restarts leave a
\* job active for ever (_recover_jobs_on_startup).
ActiveHasOwner ==
    \A j \in Jobs : job[j].status \in Active =>
        thread[j] \in Alive \/ submit[j] \in {"insert", "link", "spawn"}

\* The registry never forgets a job, and a completed job stays completed in
\* it across restarts and the writes of other jobs; only a cancel request
\* for that very job may overwrite it (_persist_jobs, _load_jobs).
RegistryIsDurable ==
    [][\A j \in Jobs :
        /\ disk[j] # Absent => disk'[j] # Absent
        /\ disk[j].status = "completed" /\ disk'[j].status # "completed"
              => CancelSet(j)]_vars

\* When the thread of a job nobody cancelled has ended, the newest run row
\* says the same as the registry (_update_run_by_job_id).
NewestRun(j) == IF trained[j] # "none" THEN trained[j] ELSE pending[j]
NewestRunAgrees ==
    \A j \in Jobs : thread[j] = "end" /\ ~job[j].cancel_requested =>
        job[j].status = NewestRun(j)

\* A cancellation recorded before the thread's second look keeps the job from
\* ever being trained, restarts and failing writes included.
CancelInTimePreventsWork ==
    \A j \in Jobs :
        []((job[j].cancel_requested /\ thread[j] \in BeforeCheck)
              => [](thread[j] # "work"))

\* No training begins on a job that may already be retried (retry_job takes
\* failed, cancelled and recovered ones): the thread of such a job has stopped,
\* or its next look finds the request to cancel.  One that is still at work is
\* about a job cancelled after the thread's last look, which _run_train_job
\* lets finish: only then does a retry run beside the job it replaces.
RetryableStartsNoTraining ==
    \A j \in Jobs : job[j].status \in Retryable =>
        /\ thread[j] \in BeforeCheck => job[j].cancel_requested
        /\ thread[j] = "work" => job[j].status = "cancelled"

\* A submitted job that nobody cancels settles: it completes, fails, or is
\* marked recovered after a restart.
Settled == {"completed", "failed", "recovered"}
UncancelledJobSettles ==
    \A j \in Jobs : job[j].status = "queued"
        ~> job[j].status \in Settled \/ job[j].cancel_requested

\* The message of cancel_job: only queued and running jobs can be cancelled.
OnlyActiveIsCancelled ==
    [][\A j \in Jobs : CancelSet(j) => job[j].status \in Active]_vars
=============================================================================
