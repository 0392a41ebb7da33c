------------------------------ MODULE LabQueue ------------------------------
(***************************************************************************)
(* The laboratory GPU job queue: the backend creates a row of table jobs  *)
(* and publishes it to SQS (jobs_router, execution_router, sqs_queue); a  *)
(* laboratory worker receives the message, trains, uploads a manifest and *)
(* reports the status over HTTP (lab-worker/worker.py).                   *)
(*                                                                        *)
(* SQS is the standard queue the deployment guide asks for: at least once *)
(* delivery, a visibility timeout that nobody extends, and a delete that  *)
(* may be ignored when the receipt handle is not the latest one.          *)
(***************************************************************************)
EXTENDS Naturals, FiniteSets

CONSTANTS
    Jobs,       \* ids of table jobs
    Workers,    \* laboratory worker processes
    MaxCopies,  \* bound: copies SQS may hold of one send (a resent request)
    ApiFaults,  \* may a status or heartbeat POST fail or be applied late
    Crashes,    \* may a worker process end between two of its steps
    LongRuns    \* may a training outlast the visibility timeout

ASSUME ConstantsOK ==
    /\ MaxCopies \in Nat \ {0}
    /\ ApiFaults \in BOOLEAN
    /\ Crashes \in BOOLEAN
    /\ LongRuns \in BOOLEAN

VARIABLES
    row,       \* column status of table jobs, "none" when there is no row
    target,    \* column resolved_target
    input,     \* jobs with column input_s3_uri set
    started,   \* jobs with column started_at set
    ended,     \* jobs with column completed_at set
    events,    \* event types of table job_events, per job
    request,   \* step of the backend request that creates the job
    queue,     \* messages of the laboratory queue
    awsQueue,  \* jobs with a message on the AWS queue
    visible,   \* messages a receive may return
    holder,    \* worker that received the message last
    dataset,   \* jobs whose CSV is in the datasets bucket
    manifest,  \* jobs whose manifest.json is in the artifacts bucket
    late,      \* status POSTs given up by the worker, still under way
    pc,        \* step of the worker process
    msg,       \* message the worker is processing
    fresh      \* workers whose heartbeat row is younger than stale_sec

rowVars == <<row, started, ended, events>>
sqsVars == <<queue, visible, holder>>
workerVars == <<pc, msg>>
createVars == <<target, input, request, awsQueue, dataset>>
vars == <<row, target, input, started, ended, events, request, queue, awsQueue,
          visible, holder, dataset, manifest, late, pc, msg, fresh>>

-----------------------------------------------------------------------------
Finished == {"COMPLETED", "FAILED"}
WorkerStatus == {"RUNNING"} \cup Finished
Status == {"none", "QUEUED", "FALLBACK_TO_AWS"} \cup WorkerStatus
WorkerEvent == [RUNNING   |-> "worker_running",
                COMPLETED |-> "worker_completed",
                FAILED    |-> "worker_failed"]
EventType == {"FALLBACK_TO_AWS", "dataset_uploaded_to_s3", "queue_error",
              "sqs_publish", "sqs_publish_skipped",
              "worker_running", "worker_completed", "worker_failed"}
Message == [job : Jobs, copy : 1..MaxCopies, input : BOOLEAN]
Nobody == "nobody"
NoMessage == [job |-> "none", copy |-> 0, input |-> FALSE]
OpenRequest == {"staging", "ready", "sent"}
WorkerStep == {"off", "poll", "received", "running", "trained", "uploaded",
               "raised", "delete"}

TypeOK ==
    /\ row \in [Jobs -> Status]
    /\ target \in [Jobs -> {"none", "aws", "lab_gpu"}]
    /\ input \subseteq Jobs
    /\ started \subseteq Jobs
    /\ ended \subseteq Jobs
    /\ events \in [Jobs -> SUBSET EventType]
    /\ request \in [Jobs -> {"none", "done", "error"} \cup OpenRequest]
    /\ queue \subseteq Message
    /\ awsQueue \subseteq Jobs
    /\ visible \subseteq queue
    /\ holder \in [Message -> Workers \cup {Nobody}]
    /\ dataset \subseteq Jobs
    /\ manifest \subseteq Jobs
    /\ late \subseteq [job : Jobs, status : WorkerStatus]
    /\ pc \in [Workers -> WorkerStep]
    /\ msg \in [Workers -> Message \cup {NoMessage}]
    /\ fresh \subseteq Workers

Init ==
    /\ row = [j \in Jobs |-> "none"]
    /\ target = [j \in Jobs |-> "none"]
    /\ input = {} /\ started = {} /\ ended = {}
    /\ events = [j \in Jobs |-> {}]
    /\ request = [j \in Jobs |-> "none"]
    /\ queue = {} /\ awsQueue = {} /\ visible = {}
    /\ holder = [m \in Message |-> Nobody]
    /\ dataset = {} /\ manifest = {} /\ late = {}
    /\ pc = [w \in Workers |-> "off"]
    /\ msg = [w \in Workers |-> NoMessage]
    /\ fresh = {}

-----------------------------------------------------------------------------
(* Routing and the rows a request commits.                                *)

\* The newest heartbeat is fresh exactly when some heartbeat is; the worker
\* reports no status but "idle", which counts as available.
lab_worker_available == fresh # {}

\* A bug: the requested target is stored unresolved.
Resolved_AsRequested(requested) == requested

Resolved(requested) ==
    IF requested # "aws" /\ lab_worker_available THEN "lab_gpu" ELSE "aws"

Log(j, e) == events' = [events EXCEPT ![j] = @ \cup {e}]

Goto(j, step) == request' = [request EXCEPT ![j] = step]

\* POST /api/jobs/experiment: route, commit the row, then the fallback notice
\* in a commit of its own.
CreateExperimentJob(j) ==
    /\ request[j] = "none"
    /\ \E requested \in {"aws", "lab_gpu", "auto"} :
          LET fallback == requested = "lab_gpu" /\ ~lab_worker_available IN
          /\ target' = [target EXCEPT ![j] = Resolved(requested)]
          /\ row' = [row EXCEPT ![j] =
                        IF fallback THEN "FALLBACK_TO_AWS" ELSE "QUEUED"]
          /\ \/ Goto(j, "ready") /\ ~fallback /\ UNCHANGED events
             \/ Goto(j, "ready") /\ fallback /\ Log(j, "FALLBACK_TO_AWS")
             \/ Goto(j, "error") /\ fallback /\ UNCHANGED events
    /\ UNCHANGED <<input, started, ended, queue, awsQueue, visible, holder,
                   dataset, manifest, late, workerVars, fresh>>

\* POST /api/train routed to the laboratory: commit the row, upload later.
ScheduleTraining(j) ==
    /\ request[j] = "none"
    /\ lab_worker_available
    /\ target' = [target EXCEPT ![j] = "lab_gpu"]
    /\ row' = [row EXCEPT ![j] = "QUEUED"]
    /\ Goto(j, "staging")
    /\ UNCHANGED <<input, started, ended, events, sqsVars, awsQueue, dataset,
                   manifest, late, workerVars, fresh>>

StageDataset(j) ==
    /\ request[j] = "staging"
    /\ dataset' = dataset \cup {j}
    /\ input' = input \cup {j}
    /\ Log(j, "dataset_uploaded_to_s3")
    /\ Goto(j, "ready")
    /\ UNCHANGED <<row, target, started, ended, sqsVars, awsQueue, manifest,
                   late, workerVars, fresh>>

\* The request stops: an exception of S3, SQS or the database, or the backend
\* instance going away.  schedule_lab_training_job logs a RuntimeError, the
\* other exceptions and POST /api/jobs/experiment leave no trace.
AbortRequest(j) ==
    /\ request[j] \in OpenRequest
    /\ Goto(j, "error")
    /\ \/ UNCHANGED dataset
       \/ request[j] = "staging" /\ dataset' = dataset \cup {j}
    /\ \/ UNCHANGED events
       \/ /\ request[j] = "staging" \/ (request[j] = "ready" /\ j \in input)
          /\ Log(j, "queue_error")
    /\ UNCHANGED <<row, target, input, started, ended, sqsVars, awsQueue,
                   manifest, late, workerVars, fresh>>

-----------------------------------------------------------------------------
(* Publishing.                                                            *)

Copies(j, n) == {[job |-> j, copy |-> c, input |-> j \in input] : c \in 1..n}

\* A bug: every job goes to the laboratory queue.
PutOnLabQueue(j) ==
    \E n \in 1..MaxCopies :
       /\ queue' = queue \cup Copies(j, n)
       /\ visible' = visible \cup Copies(j, n)
       /\ UNCHANGED awsQueue

\* enqueue_job: the queue follows resolved_target.
Put(j) ==
    \/ target[j] = "lab_gpu" /\ PutOnLabQueue(j)
    \/ /\ target[j] = "aws"
       /\ awsQueue' = awsQueue \cup {j}
       /\ UNCHANGED <<queue, visible>>

\* send_message succeeds, or SQS keeps the message and the reply is lost.
Send(j) ==
    /\ request[j] = "ready"
    /\ "sqs_publish" \notin events[j]
    /\ Put(j)
    /\ \/ Goto(j, "sent") /\ UNCHANGED events
       \/ /\ Goto(j, "error")
          /\ IF j \in input THEN Log(j, "queue_error") ELSE UNCHANGED events
    /\ UNCHANGED <<row, target, input, started, ended, holder, dataset,
                   manifest, late, workerVars, fresh>>

\* APS_DISABLE_SQS_PUBLISH is set in the environment of this instance.
SkipSend(j) ==
    /\ request[j] = "ready"
    /\ Log(j, "sqs_publish_skipped")
    /\ Goto(j, "done")
    /\ UNCHANGED <<row, target, input, started, ended, sqsVars, awsQueue,
                   dataset, manifest, late, workerVars, fresh>>

\* The publish event is committed only after SQS accepted the message.
RecordPublish(j) ==
    /\ request[j] = "sent"
    /\ Log(j, "sqs_publish")
    /\ Goto(j, "done")
    /\ UNCHANGED <<row, target, input, started, ended, sqsVars, awsQueue,
                   dataset, manifest, late, workerVars, fresh>>

-----------------------------------------------------------------------------
(* POST /api/jobs/{id}/status, and the ways a worker sees it end.         *)

\* A bug: completed_at is written for COMPLETED only.
SetEnded_CompletedOnly(j, s) ==
    ended' = IF s = "COMPLETED" THEN ended \cup {j} ELSE ended

SetEnded(j, s) == ended' = IF s \in Finished THEN ended \cup {j} ELSE ended

\* The handler writes whatever status it is given over the current one.
post_job_status(j, s) ==
    /\ row' = [row EXCEPT ![j] = s]
    /\ started' = IF s = "RUNNING" THEN started \cup {j} ELSE started
    /\ SetEnded(j, s)
    /\ Log(j, WorkerEvent[s])

\* The worker goes to step ok when the POST is answered, else to step failed:
\* the request was lost, or it is still under way.
Report(w, s, ok, failed) ==
    /\ \/ /\ post_job_status(msg[w].job, s)
          /\ pc' = [pc EXCEPT ![w] = ok]
          /\ UNCHANGED late
       \/ /\ ApiFaults
          /\ pc' = [pc EXCEPT ![w] = failed]
          /\ late' \in {late, late \cup {[job |-> msg[w].job, status |-> s]}}
          /\ UNCHANGED rowVars
    /\ UNCHANGED <<createVars, sqsVars, manifest, msg, fresh>>

\* A POST the worker gave up on reaches the handler after all.
ApplyLate(r) ==
    /\ late' = late \ {r}
    /\ post_job_status(r.job, r.status)
    /\ UNCHANGED <<createVars, sqsVars, manifest, workerVars, fresh>>

-----------------------------------------------------------------------------
(* The worker process.                                                    *)

Step(w, from, to) == pc[w] = from /\ pc' = [pc EXCEPT ![w] = to]

StartWorker(w) ==
    /\ Step(w, "off", "poll")
    /\ UNCHANGED <<rowVars, createVars, sqsVars, manifest, late, msg, fresh>>

\* The process ends; its message stays hidden until the timeout.
CrashWorker(w) ==
    /\ Crashes
    /\ pc[w] # "off"
    /\ pc' = [pc EXCEPT ![w] = "off"]
    /\ msg' = [msg EXCEPT ![w] = NoMessage]
    /\ UNCHANGED <<rowVars, createVars, sqsVars, manifest, late, fresh>>

\* A bug: the message is received with no visibility timeout.
Receive_NoTimeout(w) ==
    /\ Step(w, "poll", "received")
    /\ \E m \in visible :
          /\ holder' = [holder EXCEPT ![m] = w]
          /\ msg' = [msg EXCEPT ![w] = m]
    /\ UNCHANGED <<rowVars, createVars, queue, visible, manifest, late, fresh>>

\* A bug: the message is deleted when it is received.
Receive_AutoDelete(w) ==
    /\ Step(w, "poll", "received")
    /\ \E m \in visible :
          /\ queue' = queue \ {m}
          /\ visible' = visible \ {m}
          /\ msg' = [msg EXCEPT ![w] = m]
    /\ UNCHANGED <<rowVars, createVars, holder, manifest, late, fresh>>

Receive(w) ==
    /\ Step(w, "poll", "received")
    /\ \E m \in visible :
          /\ visible' = visible \ {m}
          /\ holder' = [holder EXCEPT ![m] = w]
          /\ msg' = [msg EXCEPT ![w] = m]
    /\ UNCHANGED <<rowVars, createVars, queue, manifest, late, fresh>>

\* A bug: the start of the training is not reported.
PostRunning_Omitted(w) ==
    /\ Step(w, "received", "running")
    /\ UNCHANGED <<rowVars, createVars, sqsVars, manifest, late, msg, fresh>>

\* RUNNING is posted outside the try block of process_message.
PostRunning(w) ==
    /\ pc[w] = "received"
    /\ Report(w, "RUNNING", "running", "delete")

\* Without an input URI in the message the runner raises, whatever the model.
Train(w) ==
    /\ \/ Step(w, "running", "raised")
       \/ /\ Step(w, "running", "trained")
          /\ msg[w].input /\ msg[w].job \in dataset
    /\ UNCHANGED <<rowVars, createVars, sqsVars, manifest, late, msg, fresh>>

\* A bug: a failed upload of the manifest is swallowed.
UploadManifest_Swallowed(w) ==
    /\ Step(w, "trained", "uploaded")
    /\ manifest' \in {manifest, manifest \cup {msg[w].job}}
    /\ UNCHANGED <<rowVars, createVars, sqsVars, late, msg, fresh>>

UploadManifest(w) ==
    /\ \/ Step(w, "trained", "raised") /\ UNCHANGED manifest
       \/ /\ Step(w, "trained", "uploaded")
          /\ manifest' = manifest \cup {msg[w].job}
    /\ UNCHANGED <<rowVars, createVars, sqsVars, late, msg, fresh>>

PostCompleted(w) ==
    /\ pc[w] = "uploaded"
    /\ Report(w, "COMPLETED", "delete", "raised")

\* A bug: the exception handler does not report the failure.
PostFailed_Silent(w) ==
    /\ Step(w, "raised", "delete")
    /\ UNCHANGED <<rowVars, createVars, sqsVars, manifest, late, msg, fresh>>

\* The except block; a second exception leaves process_message as well.
PostFailed(w) ==
    /\ pc[w] = "raised"
    /\ Report(w, "FAILED", "delete", "delete")

\* The finally block.  SQS may ignore a receipt handle that is not the latest.
DeleteMessage(w) ==
    /\ Step(w, "delete", "poll")
    /\ \/ /\ queue' = queue \ {msg[w]}
          /\ visible' = visible \ {msg[w]}
       \/ holder[msg[w]] # w /\ UNCHANGED <<queue, visible>>
    /\ msg' = [msg EXCEPT ![w] = NoMessage]
    /\ UNCHANGED <<rowVars, createVars, holder, manifest, late, fresh>>

\* The visibility timeout of a received message runs out.
VisibilityExpires(m) ==
    /\ m \in queue \ visible
    /\ LongRuns \/ \A w \in Workers : msg[w] # m
    /\ visible' = visible \cup {m}
    /\ UNCHANGED <<rowVars, createVars, queue, holder, manifest, late,
                   workerVars, fresh>>

-----------------------------------------------------------------------------
(* Heartbeats: posted every 30 s by a thread of the worker process, stale *)
(* after 120 s.                                                           *)

Heartbeat(w) ==
    /\ pc[w] # "off"
    /\ fresh' = fresh \cup {w}
    /\ UNCHANGED <<rowVars, createVars, sqsVars, manifest, late, workerVars>>

GoStale(w) ==
    /\ w \in fresh
    /\ pc[w] = "off" \/ ApiFaults
    /\ fresh' = fresh \ {w}
    /\ UNCHANGED <<rowVars, createVars, sqsVars, manifest, late, workerVars>>

-----------------------------------------------------------------------------
Backend(j) ==
    \/ CreateExperimentJob(j)
    \/ ScheduleTraining(j)
    \/ StageDataset(j)
    \/ AbortRequest(j)
    \/ Send(j)
    \/ SkipSend(j)
    \/ RecordPublish(j)

WorkerProgress(w) ==
    \/ Receive(w)
    \/ PostRunning(w)
    \/ Train(w)
    \/ UploadManifest(w)
    \/ PostCompleted(w)
    \/ PostFailed(w)
    \/ DeleteMessage(w)

Next ==
    \/ \E j \in Jobs : Backend(j)
    \/ \E w \in Workers : \/ StartWorker(w)
                          \/ WorkerProgress(w)
                          \/ CrashWorker(w)
                          \/ Heartbeat(w)
                          \/ GoStale(w)
    \/ \E r \in late : ApplyLate(r)
    \/ \E m \in queue : VisibilityExpires(m)

Spec == Init /\ [][Next]_vars

\* The loop of worker.py keeps going, and SQS ends every visibility timeout.
\* Users, operators and crashes are under no obligation.
Fairness ==
    /\ \A w \in Workers : WF_vars(WorkerProgress(w))
    /\ \A m \in Message : WF_vars(VisibilityExpires(m))

FairSpec == Spec /\ Fairness

-----------------------------------------------------------------------------
(* Properties.                                                            *)

\* A job reads COMPLETED only when its training data had reached S3, its
\* message carried the URI and its manifest is stored: redelivery, lost and
\* late reports never announce a result that does not exist
\* (worker.py process_message, jobs_router post_job_status_worker).
CompletedHasArtifacts ==
    \A j \in Jobs : row[j] = "COMPLETED" =>
        j \in manifest /\ j \in dataset /\ j \in input

\* Each of the two queues carries the jobs that were routed to it and no
\* other, whatever fails between the commit of the route, the upload, the send
\* and its record; so a laboratory worker, and a report it gave up on, is never
\* about a job whose owner was told it runs on AWS (docstring of sqs_queue.py,
\* enqueue_aws_job and enqueue_lab_gpu_job).  What becomes of a job on the AWS
\* queue is not stated: nothing in the repository receives from that queue.
QueueFollowsRoute ==
    /\ \A m \in queue : target[m.job] = "lab_gpu"
    /\ \A j \in awsQueue : target[j] = "aws"
    /\ \A w \in Workers : pc[w] \notin {"off", "poll"} => target[msg[w].job] = "lab_gpu"
    /\ \A r \in late : target[r.job] = "lab_gpu"

\* The status column, its timestamps and the journal of a job agree: a status
\* reported by a worker has its event, a finished job has both timestamps.
RowAgreesWithJournal ==
    \A j \in Jobs :
        /\ row[j] \in WorkerStatus => WorkerEvent[row[j]] \in events[j]
        /\ row[j] \in Finished => j \in started /\ j \in ended
        /\ j \in ended <=> \E s \in Finished : WorkerEvent[s] \in events[j]

\* The status a client polls behaves as JobLifecycle says, for at-least-once
\* delivery: in particular FAILED and COMPLETED only ever follow RUNNING.
Rerunnable == INSTANCE JobLifecycle WITH status <- row, AtLeastOnce <- TRUE
PolledStatusRerunnable == Rerunnable!Spec

\* Without crashes, API faults, resends and overlong trainings a finished
\* job is final.
OnceOnly == INSTANCE JobLifecycle WITH status <- row, AtLeastOnce <- FALSE
PolledStatusOnceOnly == OnceOnly!Spec

\* When trainings fit the visibility timeout and SQS holds one copy of each
\* message, two workers never process the same job, crashes included.
Processing(w, j) == msg[w] # NoMessage /\ msg[w].job = j
NoConcurrentTraining ==
    \A j \in Jobs, v, w \in Workers :
        Processing(v, j) /\ Processing(w, j) => v = w

\* The row of a published job whose message is gone is final: with a
\* dependable API, no crash of a worker loses a job (receive, report, delete
\* in this order).
Published(j) == "sqs_publish" \in events[j]
MessageGone(j) == \A m \in queue : m.job # j
GoneMeansFinished ==
    \A j \in Jobs : Published(j) /\ target[j] = "lab_gpu" /\ MessageGone(j)
        => row[j] \in Finished

\* The deployment guide: when processing raises, FAILED is recorded and then
\* the message is deleted.  Stated of the worker's loop: it never deletes the
\* message of a job that is not finished.
DeletedAfterRecording ==
    [][\A w \in Workers : DeleteMessage(w) => row[msg[w].job] \in Finished]_vars

\* Once workers stop crashing and some worker stays up, every published
\* laboratory job finishes and stays finished, whatever crashed before.
CrashesCease == \A w \in Workers : <>[](pc[w] = "off") \/ <>[](pc[w] # "off")
EventuallyFinished ==
    CrashesCease /\ (\E w \in Workers : <>[](pc[w] # "off")) =>
        \A j \in Jobs : Published(j) /\ target[j] = "lab_gpu"
            ~> [](row[j] \in Finished)
=============================================================================
