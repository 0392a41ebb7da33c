--------------------------- MODULE LabQueueProofs ---------------------------
(***************************************************************************)
(* Proofs about LabQueue, for any sets of jobs and workers, any number of  *)
(* copies, and every combination of the fault constants.                   *)
(***************************************************************************)
EXTENDS LabQueue, TLAPS

Busy(w) == pc[w] \notin {"off", "poll"}

\* A worker past its receive has a message in hand.
MessageInHand == \A w \in Workers : Busy(w) => msg[w] \in Message

TypeInv == TypeOK /\ MessageInHand

-----------------------------------------------------------------------------
(* What the two helpers shared by several actions preserve.               *)

\* Every status a worker reports has an event type of its own.
LEMMA WorkerEventType == \A s \in WorkerStatus : WorkerEvent[s] \in EventType
  BY DEF WorkerStatus, Finished, WorkerEvent, EventType

\* A status POST keeps the types of the row.
LEMMA PostTypes ==
  ASSUME TypeOK, NEW j \in Jobs, NEW s \in WorkerStatus, post_job_status(j, s)
  PROVE  /\ row' \in [Jobs -> Status]
         /\ started' \subseteq Jobs
         /\ ended' \subseteq Jobs
         /\ events' \in [Jobs -> SUBSET EventType]
<1>1. row' \in [Jobs -> Status] /\ started' \subseteq Jobs /\ ended' \subseteq Jobs
  BY DEF TypeOK, post_job_status, SetEnded, Status
<1>2. events' \in [Jobs -> SUBSET EventType]
  BY WorkerEventType DEF TypeOK, post_job_status, Log
<1> QED
  BY <1>1, <1>2

\* A report keeps all types and leaves the message in hand.
LEMMA ReportTypes ==
  ASSUME TypeInv, NEW w \in Workers, Busy(w), NEW s \in WorkerStatus,
         NEW ok \in WorkerStep, NEW failed \in WorkerStep, Report(w, s, ok, failed)
  PROVE  TypeInv'
<1>1. msg[w] \in Message /\ msg[w].job \in Jobs
  BY DEF TypeInv, MessageInHand, Message
<1>2. /\ row' \in [Jobs -> Status]
      /\ started' \subseteq Jobs
      /\ ended' \subseteq Jobs
      /\ events' \in [Jobs -> SUBSET EventType]
  <2>1. CASE post_job_status(msg[w].job, s)
    BY <2>1, <1>1, PostTypes DEF TypeInv
  <2>2. CASE UNCHANGED rowVars
    BY <2>2 DEF TypeInv, TypeOK, rowVars
  <2> QED
    BY <2>1, <2>2 DEF Report
<1>3. late' \subseteq [job : Jobs, status : WorkerStatus]
  BY <1>1 DEF TypeInv, TypeOK, Report
<1>4. pc' \in [Workers -> WorkerStep] /\ \A v \in Workers \ {w} : pc'[v] = pc[v]
  BY DEF TypeInv, TypeOK, Report
<1>5. UNCHANGED <<createVars, sqsVars, manifest, msg, fresh>>
  BY DEF Report
<1> QED
  BY <1>1, <1>2, <1>3, <1>4, <1>5
  DEF TypeInv, TypeOK, MessageInHand, Busy, createVars, sqsVars

LEMMA PostTypesLate ==
  ASSUME TypeInv, NEW r \in late, ApplyLate(r)
  PROVE  TypeInv'
<1>1. r.job \in Jobs /\ r.status \in WorkerStatus
  BY DEF TypeInv, TypeOK
<1>2. /\ row' \in [Jobs -> Status]
      /\ started' \subseteq Jobs
      /\ ended' \subseteq Jobs
      /\ events' \in [Jobs -> SUBSET EventType]
  BY <1>1, PostTypes DEF TypeInv, ApplyLate
<1> QED
  BY <1>2 DEF TypeInv, TypeOK, MessageInHand, Busy, ApplyLate,
              createVars, sqsVars, workerVars

\* The messages of a send are typed.
LEMMA CopiesType ==
  \A j \in Jobs, n \in 1..MaxCopies : Copies(j, n) \subseteq Message
<1> SUFFICES ASSUME NEW j \in Jobs, NEW n \in 1..MaxCopies, NEW c \in 1..n
             PROVE  [job |-> j, copy |-> c, input |-> j \in input] \in Message
  BY Zenon DEF Copies
<1>1. c \in 1..MaxCopies
  BY ConstantsOK
<1>2. (j \in input) \in BOOLEAN
  BY SMT
<1>3. ASSUME NEW b \in BOOLEAN
      PROVE  [job |-> j, copy |-> c, input |-> b] \in Message
  BY <1>1 DEF Message
<1> QED
  BY <1>2, <1>3, Zenon

-----------------------------------------------------------------------------
(* Type correctness.                                                      *)

LEMMA TypeInit == Init => TypeInv
  BY DEF Init, TypeInv, TypeOK, MessageInHand, Busy, Status, NoMessage, WorkerStep

\* The steps of the backend.
LEMMA TypeBackend ==
  ASSUME TypeInv, NEW j \in Jobs, Backend(j)
  PROVE  TypeInv'
<1> USE DEF TypeInv, TypeOK, MessageInHand, Busy, sqsVars, workerVars
<1>1. CASE CreateExperimentJob(j)
  BY <1>1 DEF CreateExperimentJob, Resolved, Goto, Log, Status, EventType, OpenRequest
<1>2. CASE ScheduleTraining(j)
  BY <1>2 DEF ScheduleTraining, Goto, Status, OpenRequest
<1>3. CASE StageDataset(j)
  BY <1>3 DEF StageDataset, Goto, Log, EventType, OpenRequest
<1>4. CASE AbortRequest(j)
  BY <1>4 DEF AbortRequest, Goto, Log, EventType
<1>5. CASE Send(j)
  <2>1. /\ queue' \subseteq Message
        /\ awsQueue' \subseteq Jobs
        /\ visible' \subseteq queue'
    BY <1>5, CopiesType DEF Send, Put, PutOnLabQueue
  <2>2. /\ events' \in [Jobs -> SUBSET EventType]
        /\ request' \in [Jobs -> {"none", "done", "error"} \cup OpenRequest]
    BY <1>5 DEF Send, Goto, Log, EventType, OpenRequest
  <2> QED
    BY <1>5, <2>1, <2>2 DEF Send
<1>6. CASE SkipSend(j)
  BY <1>6 DEF SkipSend, Goto, Log, EventType
<1>7. CASE RecordPublish(j)
  BY <1>7 DEF RecordPublish, Goto, Log, EventType
<1> QED
  BY <1>1, <1>2, <1>3, <1>4, <1>5, <1>6, <1>7 DEF Backend

\* The steps of a worker.
LEMMA TypeWorker ==
  ASSUME TypeInv, NEW w \in Workers, WorkerProgress(w)
  PROVE  TypeInv'
<1> USE DEF TypeInv, TypeOK, MessageInHand, Busy, WorkerStep,
            rowVars, createVars, sqsVars, Step
<1>1. CASE Receive(w)
  BY <1>1 DEF Receive
<1>2. CASE PostRunning(w)
  BY <1>2, ReportTypes DEF PostRunning, WorkerStatus
<1>3. CASE Train(w)
  BY <1>3 DEF Train
<1>4. CASE UploadManifest(w)
  BY <1>4 DEF UploadManifest, Message
<1>5. CASE PostCompleted(w)
  BY <1>5, ReportTypes DEF PostCompleted, WorkerStatus, Finished
<1>6. CASE PostFailed(w)
  BY <1>6, ReportTypes DEF PostFailed, WorkerStatus, Finished
<1>7. CASE DeleteMessage(w)
  BY <1>7 DEF DeleteMessage
<1> QED
  BY <1>1, <1>2, <1>3, <1>4, <1>5, <1>6, <1>7 DEF WorkerProgress

LEMMA TypeStep ==
  ASSUME TypeInv, [Next]_vars
  PROVE  TypeInv'
<1> USE DEF TypeInv, TypeOK, MessageInHand, Busy,
            rowVars, createVars, sqsVars, workerVars
<1>1. ASSUME NEW j \in Jobs, Backend(j) PROVE TypeInv'
  BY <1>1, TypeBackend
<1>2. ASSUME NEW w \in Workers, StartWorker(w) PROVE TypeInv'
  BY <1>2 DEF StartWorker, Step, WorkerStep
<1>3. ASSUME NEW w \in Workers, WorkerProgress(w) PROVE TypeInv'
  BY <1>3, TypeWorker
<1>4. ASSUME NEW w \in Workers, CrashWorker(w) PROVE TypeInv'
  BY <1>4 DEF CrashWorker, WorkerStep
<1>5. ASSUME NEW w \in Workers, Heartbeat(w) PROVE TypeInv'
  BY <1>5 DEF Heartbeat
<1>6. ASSUME NEW w \in Workers, GoStale(w) PROVE TypeInv'
  BY <1>6 DEF GoStale
<1>7. ASSUME NEW r \in late, ApplyLate(r) PROVE TypeInv'
  BY <1>7, PostTypesLate
<1>8. ASSUME NEW m \in queue, VisibilityExpires(m) PROVE TypeInv'
  BY <1>8 DEF VisibilityExpires
<1>9. CASE UNCHANGED vars
  BY <1>9 DEF vars
<1> QED
  BY <1>1, <1>2, <1>3, <1>4, <1>5, <1>6, <1>7, <1>8, <1>9 DEF Next

\* The variables of the queue keep their types, and a busy worker has a
\* message, whatever the API, SQS and the workers do.
THEOREM TypeCorrect == Spec => []TypeOK
<1>1. TypeInv /\ [Next]_vars => TypeInv'
  BY TypeStep
<1>2. TypeInv => TypeOK
  BY DEF TypeInv
<1> QED
  BY TypeInit, <1>1, <1>2, PTL DEF Spec

-----------------------------------------------------------------------------
(* The inductive invariant behind the safety properties.                  *)

\* The row follows the target chosen when the row was created.
Routed == \A j \in Jobs :
    /\ request[j] = "none" => target[j] = "none"
    /\ target[j] = "none" => row[j] = "none"
    /\ target[j] = "aws" => row[j] \in {"QUEUED", "FALLBACK_TO_AWS"}
    /\ target[j] = "lab_gpu" => row[j] \in {"QUEUED"} \cup WorkerStatus

\* Messages, workers and late reports are about laboratory jobs only, and the
\* other queue holds AWS jobs only.
Addressed ==
    /\ \A m \in queue : target[m.job] = "lab_gpu"
    /\ \A j \in awsQueue : target[j] = "aws"
    /\ \A w \in Workers : Busy(w) => target[msg[w].job] = "lab_gpu"
    /\ \A r \in late : target[r.job] = "lab_gpu"

\* A worker past its RUNNING report, and a report of an outcome, are about a
\* job whose row a worker has already written.
Reporting(w) == pc[w] \in {"running", "trained", "uploaded", "raised"}
Begun ==
    /\ \A w \in Workers : Reporting(w) => row[msg[w].job] \in WorkerStatus
    /\ \A r \in late : r.status \in Finished => row[r.job] \in WorkerStatus
    /\ \A j \in Jobs : row[j] \in WorkerStatus => j \in started

\* Where the artifacts of a job are, seen from a message, from a worker and
\* from a report under way.
Artifacts(j) == j \in manifest /\ j \in dataset /\ j \in input
Staged ==
    /\ input \subseteq dataset
    /\ \A m \in queue : m.input => m.job \in input
    /\ \A w \in Workers : Busy(w) /\ msg[w].input => msg[w].job \in input
    /\ \A w \in Workers : pc[w] \in {"trained", "uploaded"} => msg[w].input
    /\ \A w \in Workers : pc[w] = "uploaded" => msg[w].job \in manifest
    /\ \A r \in late : r.status = "COMPLETED" => Artifacts(r.job)

Inv ==
    /\ TypeInv
    /\ Routed
    /\ Addressed
    /\ Begun
    /\ Staged
    /\ CompletedHasArtifacts
    /\ RowAgreesWithJournal

LEMMA InvInit == Init => Inv
<1> SUFFICES ASSUME Init PROVE Inv
  OBVIOUS
<1>1. Routed /\ Addressed /\ Begun /\ Staged
  BY DEF Init, Routed, Addressed, Begun, Staged, Busy, Reporting, WorkerStatus, Finished
<1>2. CompletedHasArtifacts /\ RowAgreesWithJournal
  BY DEF Init, CompletedHasArtifacts, RowAgreesWithJournal, WorkerStatus, Finished
<1> QED
  BY TypeInit, <1>1, <1>2 DEF Inv

-----------------------------------------------------------------------------
(* A status POST, on time or late.                                        *)

\* The report s about job j tells the truth.
Truthful(j, s) ==
    /\ target[j] = "lab_gpu"
    /\ s \in Finished => row[j] \in WorkerStatus
    /\ s = "COMPLETED" => Artifacts(j)

\* The events of two reports differ.
LEMMA WorkerEventsDiffer ==
  \A s, t \in WorkerStatus : WorkerEvent[s] = WorkerEvent[t] => s = t
  BY DEF WorkerStatus, Finished, WorkerEvent

\* A truthful report keeps the row of the job in order.
LEMMA PostEffect ==
  ASSUME Inv, NEW j \in Jobs, NEW s \in WorkerStatus, Truthful(j, s),
         post_job_status(j, s), UNCHANGED <<createVars, manifest>>
  PROVE  /\ \A i \in Jobs : row[i] \in WorkerStatus => row'[i] \in WorkerStatus
         /\ row'[j] = s
         /\ \A i \in Jobs : row'[i] \in WorkerStatus => i \in started'
         /\ Routed'
         /\ CompletedHasArtifacts'
         /\ RowAgreesWithJournal'
<1> USE DEF createVars
<1>1. /\ row' = [row EXCEPT ![j] = s] /\ row \in [Jobs -> Status]
      /\ events' = [events EXCEPT ![j] = @ \cup {WorkerEvent[s]}]
      /\ events \in [Jobs -> SUBSET EventType]
  BY DEF Inv, TypeInv, TypeOK, post_job_status, Log
<1>2. \A i \in Jobs : row'[i] = IF i = j THEN s ELSE row[i]
  BY <1>1
<1>3. \A i \in Jobs : events'[i] = IF i = j THEN events[i] \cup {WorkerEvent[s]}
                                              ELSE events[i]
  BY <1>1
<1>4. started' = IF s = "RUNNING" THEN started \cup {j} ELSE started
  BY DEF post_job_status
<1>5. \A i \in Jobs : row'[i] \in WorkerStatus => i \in started'
  BY <1>2, <1>4 DEF Inv, Begun, Truthful, WorkerStatus
<1>6. Routed'
  BY <1>2 DEF Inv, Routed, Truthful, WorkerStatus, Finished
<1>7. CompletedHasArtifacts'
  BY <1>2 DEF Inv, CompletedHasArtifacts, Truthful, Artifacts
<1>8. RowAgreesWithJournal'
  <2> SUFFICES ASSUME NEW i \in Jobs
               PROVE  /\ row'[i] \in WorkerStatus => WorkerEvent[row'[i]] \in events'[i]
                      /\ row'[i] \in Finished => i \in started' /\ i \in ended'
                      /\ i \in ended' <=> \E t \in Finished : WorkerEvent[t] \in events'[i]
    BY DEF RowAgreesWithJournal
  <2>1. CASE i # j
    <3>1. row'[i] = row[i] /\ events'[i] = events[i]
      BY <2>1, <1>2, <1>3
    <3>2. (i \in started' <=> i \in started) /\ (i \in ended' <=> i \in ended)
      BY <2>1, <1>4 DEF post_job_status, SetEnded
    <3> QED
      BY <3>1, <3>2 DEF Inv, RowAgreesWithJournal
  <2>2. CASE i = j
    <3>1. row'[i] = s /\ events'[i] = events[i] \cup {WorkerEvent[s]}
      BY <2>2, <1>2, <1>3
    <3>2. i \in ended' <=> i \in ended \/ s \in Finished
      BY <2>2 DEF post_job_status, SetEnded
    <3>3. s \in Finished => i \in started'
      BY <2>2, <1>2, <1>5
    <3>4. i \in ended <=> \E t \in Finished : WorkerEvent[t] \in events[i]
      BY DEF Inv, RowAgreesWithJournal
    <3>5. Finished \subseteq WorkerStatus
      BY DEF WorkerStatus
    <3> QED
      BY <3>1, <3>2, <3>3, <3>4, <3>5, WorkerEventsDiffer
  <2> QED
    BY <2>1, <2>2
<1> QED
  BY <1>2, <1>5, <1>6, <1>7, <1>8

\* A report that is answered, or lost, or left under way.
LEMMA ReportKeeps ==
  ASSUME Inv, NEW w \in Workers, Busy(w), NEW s \in WorkerStatus,
         Truthful(msg[w].job, s),
         NEW ok \in WorkerStep \ {"trained", "uploaded"},
         NEW failed \in WorkerStep \ {"trained", "uploaded"},
         failed \in {"running", "raised"} => row[msg[w].job] \in WorkerStatus,
         Report(w, s, ok, failed)
  PROVE  Inv'
<1> DEFINE j == msg[w].job
<1>1. j \in Jobs
  BY DEF Inv, TypeInv, MessageInHand, Message
<1>2. TypeInv'
  BY ReportTypes DEF Inv
<1>3. UNCHANGED <<target, input, dataset, manifest, queue, awsQueue, msg>>
  BY DEF Report, createVars, sqsVars
<1>4. /\ \A i \in Jobs : row[i] \in WorkerStatus => row'[i] \in WorkerStatus
      /\ \A i \in Jobs : row'[i] \in WorkerStatus => i \in started'
      /\ Routed'
      /\ CompletedHasArtifacts'
      /\ RowAgreesWithJournal'
  <2>1. CASE post_job_status(j, s)
    BY <2>1, <1>1, PostEffect DEF Report
  <2>2. CASE UNCHANGED rowVars
    BY <2>2 DEF Report, rowVars, createVars, Inv, Begun, Routed,
                CompletedHasArtifacts, RowAgreesWithJournal
  <2> QED
    BY <2>1, <2>2 DEF Report
<1>5. \A v \in Workers \ {w} : pc'[v] = pc[v]
  BY DEF Report, Inv, TypeInv, TypeOK
<1>6. \/ /\ pc'[w] = ok
         /\ row'[j] = s
      \/ /\ pc'[w] = failed
         /\ row'[j] = row[j]
  BY <1>1, PostEffect DEF Report, rowVars, Inv, TypeInv, TypeOK
<1>7. Addressed' /\ Begun' /\ Staged'
  <2>1. \A r \in late' : r \in late \/ (r.job = j /\ r.status = s)
    BY DEF Report
  <2>2. \A r \in late' : r.job \in Jobs
    BY <1>2 DEF TypeInv, TypeOK
  <2>3. \A v \in Workers : Busy(v)' => Busy(v)
    BY <1>5 DEF Busy
  <2>4. \A v \in Workers : Busy(v) => msg[v].job \in Jobs
    BY DEF Inv, TypeInv, MessageInHand, Message
  <2>5. Addressed'
    BY <1>3, <2>1, <2>3 DEF Inv, Addressed, Truthful
  <2>6. Begun'
    <3>1. \A v \in Workers : Reporting(v)' => row'[msg[v].job] \in WorkerStatus
      BY <1>4, <1>5, <1>6, <2>4 DEF Inv, Begun, Reporting, Busy
    <3>2. \A r \in late' : r.status \in Finished => row'[r.job] \in WorkerStatus
      BY <1>4, <2>1, <2>2 DEF Inv, Begun, Truthful
    <3> QED
      BY <1>3, <1>4, <3>1, <3>2 DEF Begun
  <2>7. Staged'
    BY <1>3, <1>5, <1>6, <2>1, <2>3 DEF Inv, Staged, Artifacts, Truthful
  <2> QED
    BY <2>5, <2>6, <2>7
<1> QED
  BY <1>2, <1>4, <1>7 DEF Inv

LEMMA ApplyLateKeeps ==
  ASSUME Inv, NEW r \in late, ApplyLate(r)
  PROVE  Inv'
<1>1. r.job \in Jobs /\ r.status \in WorkerStatus
  BY DEF Inv, TypeInv, TypeOK
<1>2. Truthful(r.job, r.status)
  BY DEF Inv, Addressed, Begun, Staged, Truthful
<1>3. TypeInv'
  BY PostTypesLate DEF Inv
<1>4. post_job_status(r.job, r.status) /\ late' \subseteq late
      /\ UNCHANGED <<createVars, sqsVars, manifest, workerVars>>
  BY DEF ApplyLate
<1>5. /\ \A i \in Jobs : row[i] \in WorkerStatus => row'[i] \in WorkerStatus
      /\ \A i \in Jobs : row'[i] \in WorkerStatus => i \in started'
      /\ Routed'
      /\ CompletedHasArtifacts'
      /\ RowAgreesWithJournal'
  BY <1>1, <1>2, <1>4, PostEffect
<1>6. Addressed' /\ Staged'
  BY <1>4 DEF Inv, Addressed, Staged, Artifacts, Busy, createVars, sqsVars, workerVars
<1>7. Begun'
  <2>1. \A x \in late : x.job \in Jobs
    BY DEF Inv, TypeInv, TypeOK
  <2>2. \A w \in Workers : Reporting(w) => msg[w].job \in Jobs
    BY DEF Inv, TypeInv, MessageInHand, Message, Busy, Reporting
  <2> QED
    BY <1>4, <1>5, <2>1, <2>2 DEF Inv, Begun, Reporting, workerVars
<1> QED
  BY <1>3, <1>5, <1>6, <1>7 DEF Inv

-----------------------------------------------------------------------------
(* The other steps.                                                       *)

\* Every step of the backend leaves the workers and the reports alone.
LEMMA BackendFrame ==
  ASSUME NEW j \in Jobs, Backend(j)
  PROVE  UNCHANGED <<started, ended, holder, manifest, late, workerVars>>
  BY DEF Backend, CreateExperimentJob, ScheduleTraining, StageDataset, AbortRequest,
         Send, SkipSend, RecordPublish, sqsVars, workerVars

\* A request that has not begun has no message, no worker and no report.
LEMMA UntouchedBefore ==
  ASSUME Inv, NEW j \in Jobs, request[j] = "none"
  PROVE  /\ \A m \in queue : m.job # j
         /\ \A w \in Workers : Busy(w) => msg[w].job # j
         /\ \A r \in late : r.job # j
  BY DEF Inv, Routed, Addressed

\* The backend creates a row for a job that had none.
LEMMA CreateKeeps ==
  ASSUME Inv, NEW j \in Jobs, TypeInv', request[j] = "none",
         \E t \in {"aws", "lab_gpu"}, s \in {"QUEUED", "FALLBACK_TO_AWS"} :
            /\ target' = [target EXCEPT ![j] = t]
            /\ row' = [row EXCEPT ![j] = s]
            /\ t = "lab_gpu" => s = "QUEUED",
         \E q \in {"ready", "staging", "error"} : request' = [request EXCEPT ![j] = q],
         (UNCHANGED events) \/ Log(j, "FALLBACK_TO_AWS"),
         UNCHANGED <<input, started, ended, queue, awsQueue, dataset, manifest, late, workerVars>>
  PROVE  Inv'
<1> PICK t \in {"aws", "lab_gpu"}, s \in {"QUEUED", "FALLBACK_TO_AWS"} :
       /\ target' = [target EXCEPT ![j] = t]
       /\ row' = [row EXCEPT ![j] = s]
       /\ t = "lab_gpu" => s = "QUEUED"
  OBVIOUS
<1> PICK q \in {"ready", "staging", "error"} : request' = [request EXCEPT ![j] = q]
  OBVIOUS
<1>0. /\ \A m \in queue : m.job # j
      /\ \A w \in Workers : Busy(w) => msg[w].job # j
      /\ \A r \in late : r.job # j
  BY UntouchedBefore
<1>1. \A i \in Jobs :
         /\ target'[i] = IF i = j THEN t ELSE target[i]
         /\ row'[i] = IF i = j THEN s ELSE row[i]
         /\ request'[i] = IF i = j THEN q ELSE request[i]
  <2>1. /\ target \in [Jobs -> {"none", "aws", "lab_gpu"}]
        /\ row \in [Jobs -> Status]
        /\ request \in [Jobs -> {"none", "done", "error"} \cup OpenRequest]
    BY DEF Inv, TypeInv, TypeOK
  <2> QED
    BY <2>1
<1>2. Routed'
  BY <1>1 DEF Inv, Routed
<1>3. /\ \A m \in queue : m.job \in Jobs
      /\ \A w \in Workers : Busy(w) => msg[w].job \in Jobs
      /\ \A r \in late : r.job \in Jobs
      /\ \A i \in awsQueue : i \in Jobs /\ i # j
  BY DEF Inv, TypeInv, TypeOK, MessageInHand, Message, Routed, Addressed
<1>4. Addressed'
  BY <1>0, <1>1, <1>3 DEF Inv, Addressed, Busy, workerVars
<1>5. Begun'
  BY <1>0, <1>1, <1>3 DEF Inv, Begun, Busy, Reporting, WorkerStatus, Finished, workerVars
<1>6. Staged'
  BY DEF Inv, Staged, Artifacts, Busy, workerVars
<1>7. CompletedHasArtifacts'
  BY <1>1 DEF Inv, CompletedHasArtifacts
<1>8. RowAgreesWithJournal'
  <2>1. \A i \in Jobs, e \in {WorkerEvent[x] : x \in WorkerStatus} :
           e \in events'[i] <=> e \in events[i]
    BY DEF Log, WorkerEvent, WorkerStatus, Finished, Inv, TypeInv, TypeOK
  <2>2. Finished \subseteq WorkerStatus
    BY DEF WorkerStatus
  <2>3. s \notin WorkerStatus
    BY DEF WorkerStatus, Finished
  <2> QED
    BY <1>1, <2>1, <2>2, <2>3 DEF Inv, RowAgreesWithJournal
<1> QED
  BY <1>2, <1>4, <1>5, <1>6, <1>7, <1>8 DEF Inv

\* The other steps of the backend write no row and report nothing.
LEMMA BackendKeeps ==
  ASSUME Inv, NEW j \in Jobs, Backend(j)
  PROVE  Inv'
<1>1. TypeInv'
  BY TypeBackend DEF Inv
<1>2. CASE CreateExperimentJob(j)
  <2>1. PICK requested \in {"aws", "lab_gpu", "auto"} :
           LET fallback == requested = "lab_gpu" /\ ~lab_worker_available IN
           /\ target' = [target EXCEPT ![j] = Resolved(requested)]
           /\ row' = [row EXCEPT ![j] =
                         IF fallback THEN "FALLBACK_TO_AWS" ELSE "QUEUED"]
           /\ \/ Goto(j, "ready") /\ ~fallback /\ UNCHANGED events
              \/ Goto(j, "ready") /\ fallback /\ Log(j, "FALLBACK_TO_AWS")
              \/ Goto(j, "error") /\ fallback /\ UNCHANGED events
    BY <1>2 DEF CreateExperimentJob
  <2>2. /\ UNCHANGED <<input, started, ended, queue, awsQueue, dataset, manifest, late, workerVars>>
        /\ request[j] = "none"
        /\ (UNCHANGED events) \/ Log(j, "FALLBACK_TO_AWS")
    BY <1>2, <2>1 DEF CreateExperimentJob
  <2>3. \E q \in {"ready", "staging", "error"} : request' = [request EXCEPT ![j] = q]
    BY <2>1 DEF Goto
  <2>4. \E t \in {"aws", "lab_gpu"}, s \in {"QUEUED", "FALLBACK_TO_AWS"} :
           /\ target' = [target EXCEPT ![j] = t]
           /\ row' = [row EXCEPT ![j] = s]
           /\ t = "lab_gpu" => s = "QUEUED"
    BY <2>1 DEF Resolved
  <2> QED
    BY <1>1, <2>2, <2>3, <2>4, CreateKeeps
<1>3. CASE ScheduleTraining(j)
  BY <1>1, <1>3, CreateKeeps DEF ScheduleTraining, Goto, sqsVars
<1>4. ASSUME StageDataset(j) \/ AbortRequest(j) \/ Send(j) \/ SkipSend(j) \/ RecordPublish(j)
      PROVE  Inv'
  <2>1. /\ UNCHANGED <<row, target, started, ended, manifest, late, workerVars>>
        /\ request[j] # "none"
        /\ \E q \in {"done", "error", "ready", "sent"} :
              request' = [request EXCEPT ![j] = q]
    BY <1>4 DEF StageDataset, AbortRequest, Send, SkipSend, RecordPublish,
                Goto, OpenRequest
  <2>2. input \subseteq input' /\ dataset \subseteq dataset' /\ input' \subseteq dataset'
    BY <1>4 DEF StageDataset, AbortRequest, Send, SkipSend, RecordPublish, Inv, Staged
  <2>3. \A m \in queue' : m \in queue \/
           (m.job = j /\ m.input = (j \in input) /\ target[j] = "lab_gpu")
    BY <1>4 DEF StageDataset, AbortRequest, Send, Put, PutOnLabQueue, Copies,
                SkipSend, RecordPublish, sqsVars
  <2>9. \A i \in awsQueue' : i \in awsQueue \/ target[i] = "aws"
    BY <1>4 DEF StageDataset, AbortRequest, Send, Put, PutOnLabQueue,
                SkipSend, RecordPublish
  <2>4. \A i \in Jobs, e \in {WorkerEvent[x] : x \in WorkerStatus} :
           e \in events'[i] <=> e \in events[i]
    BY <1>4 DEF StageDataset, AbortRequest, Send, SkipSend, RecordPublish, Log,
                WorkerEvent, WorkerStatus, Finished, Inv, TypeInv, TypeOK
  <2>5. Routed'
    BY <2>1 DEF Inv, Routed, TypeInv, TypeOK
  <2>6. Addressed' /\ Begun' /\ CompletedHasArtifacts'
    BY <2>1, <2>2, <2>3, <2>9 DEF Inv, Addressed, Begun, CompletedHasArtifacts,
                            Busy, Reporting, workerVars
  <2>7. Staged'
    BY <2>1, <2>2, <2>3 DEF Inv, Staged, Artifacts, Busy, workerVars
  <2>8. RowAgreesWithJournal'
    <3>1. Finished \subseteq WorkerStatus
      BY DEF WorkerStatus
    <3> QED
      BY <2>1, <2>4, <3>1 DEF Inv, RowAgreesWithJournal
  <2> QED
    BY <1>1, <2>5, <2>6, <2>7, <2>8 DEF Inv
<1> QED
  BY <1>2, <1>3, <1>4 DEF Backend

\* The steps of a worker that report nothing: only Train and UploadManifest
\* bring it nearer to a result.
LEMMA WorkerKeeps ==
  ASSUME Inv, NEW w \in Workers, WorkerProgress(w)
  PROVE  Inv'
<1> USE DEF Step
<1>1. TypeInv'
  BY TypeWorker DEF Inv
<1>2. Busy(w) => msg[w] \in Message /\ msg[w].job \in Jobs
  BY DEF Inv, TypeInv, MessageInHand, Message
<1>3. CASE PostRunning(w)
  <2>1. Busy(w) /\ Truthful(msg[w].job, "RUNNING")
    BY <1>3 DEF PostRunning, Busy, Truthful, Inv, Addressed, Finished
  <2> QED
    BY <1>3, <2>1, ReportKeeps DEF PostRunning, WorkerStatus, WorkerStep
<1>4. CASE PostCompleted(w)
  <2>1. Busy(w) /\ Truthful(msg[w].job, "COMPLETED")
    BY <1>4 DEF PostCompleted, Busy, Reporting, Truthful, Artifacts, Inv,
                Addressed, Begun, Staged
  <2>2. row[msg[w].job] \in WorkerStatus
    BY <1>4 DEF PostCompleted, Reporting, Inv, Begun
  <2> QED
    BY <1>4, <2>1, <2>2, ReportKeeps DEF PostCompleted, WorkerStatus, Finished, WorkerStep
<1>5. CASE PostFailed(w)
  <2>1. Busy(w) /\ Truthful(msg[w].job, "FAILED")
    BY <1>5 DEF PostFailed, Busy, Reporting, Truthful, Inv, Addressed, Begun
  <2> QED
    BY <1>5, <2>1, ReportKeeps DEF PostFailed, WorkerStatus, Finished, WorkerStep
<1>6. ASSUME Receive(w) \/ Train(w) \/ UploadManifest(w) \/ DeleteMessage(w)
      PROVE  Inv'
  <2>1. UNCHANGED <<rowVars, createVars, late>> /\ queue' \subseteq queue
    BY <1>6 DEF Receive, Train, UploadManifest, DeleteMessage, sqsVars
  <2>2. \A v \in Workers \ {w} : pc'[v] = pc[v] /\ msg'[v] = msg[v]
    BY <1>6 DEF Receive, Train, UploadManifest, DeleteMessage, Inv, TypeInv, TypeOK
  <2>3. manifest \subseteq manifest'
    BY <1>6 DEF Receive, Train, UploadManifest, DeleteMessage
  <2>4. Routed' /\ CompletedHasArtifacts' /\ RowAgreesWithJournal'
    BY <2>1, <2>3 DEF Inv, Routed, CompletedHasArtifacts, RowAgreesWithJournal,
                      rowVars, createVars
  <2>5. CASE Receive(w)
    <3>1. pc'[w] = "received" /\ msg'[w] \in queue
      BY <2>5 DEF Receive, Inv, TypeInv, TypeOK
    <3> QED
      BY <1>1, <2>1, <2>2, <2>3, <2>4, <3>1
      DEF Inv, Addressed, Begun, Staged, Artifacts, Busy, Reporting, rowVars, createVars
  <2>6. CASE Train(w)
    <3>1. /\ pc[w] = "running" /\ msg' = msg /\ manifest' = manifest
          /\ pc'[w] = "raised" \/ (pc'[w] = "trained" /\ msg[w].input)
      BY <2>6 DEF Train, Inv, TypeInv, TypeOK
    <3> QED
      BY <1>1, <2>1, <2>2, <2>3, <2>4, <3>1
      DEF Inv, Addressed, Begun, Staged, Artifacts, Busy, Reporting, rowVars, createVars
  <2>7. CASE UploadManifest(w)
    <3>1. /\ pc[w] = "trained" /\ msg' = msg
          /\ pc'[w] = "raised" \/ (pc'[w] = "uploaded" /\ msg[w].job \in manifest')
      BY <2>7 DEF UploadManifest, Inv, TypeInv, TypeOK
    <3> QED
      BY <1>1, <2>1, <2>2, <2>3, <2>4, <3>1
      DEF Inv, Addressed, Begun, Staged, Artifacts, Busy, Reporting, rowVars, createVars
  <2>8. CASE DeleteMessage(w)
    <3>1. pc'[w] = "poll" /\ manifest' = manifest
      BY <2>8 DEF DeleteMessage, Inv, TypeInv, TypeOK
    <3> QED
      BY <1>1, <2>1, <2>2, <2>3, <2>4, <3>1
      DEF Inv, Addressed, Begun, Staged, Artifacts, Busy, Reporting, rowVars, createVars
  <2> QED
    BY <1>6, <2>5, <2>6, <2>7, <2>8
<1> QED
  BY <1>3, <1>4, <1>5, <1>6 DEF WorkerProgress

\* Workers that start or stop, heartbeats and visibility timeouts.
LEMMA RestKeeps ==
  ASSUME Inv, TypeInv',
         UNCHANGED <<rowVars, createVars, queue, manifest, late>>,
         \A w \in Workers : \/ pc'[w] = pc[w] /\ msg'[w] = msg[w]
                            \/ pc'[w] \in {"off", "poll"}
  PROVE  Inv'
<1>1. Routed' /\ CompletedHasArtifacts' /\ RowAgreesWithJournal'
  BY DEF Inv, Routed, CompletedHasArtifacts, RowAgreesWithJournal, rowVars, createVars
<1>2. Addressed' /\ Begun' /\ Staged'
  BY DEF Inv, Addressed, Begun, Staged, Artifacts, Busy, Reporting, rowVars, createVars
<1> QED
  BY <1>1, <1>2 DEF Inv

LEMMA InvStep ==
  ASSUME Inv, [Next]_vars
  PROVE  Inv'
<1> USE DEF sqsVars, workerVars
<1>1. TypeInv'
  BY TypeStep DEF Inv
<1>2. /\ pc \in [Workers -> WorkerStep]
      /\ msg \in [Workers -> Message \cup {NoMessage}]
  BY DEF Inv, TypeInv, TypeOK
<1>3. ASSUME NEW j \in Jobs, Backend(j) PROVE Inv'
  BY <1>3, BackendKeeps
<1>4. ASSUME NEW w \in Workers, StartWorker(w) PROVE Inv'
  BY <1>1, <1>2, <1>4, RestKeeps DEF StartWorker, Step
<1>5. ASSUME NEW w \in Workers, WorkerProgress(w) PROVE Inv'
  BY <1>5, WorkerKeeps
<1>6. ASSUME NEW w \in Workers, CrashWorker(w) PROVE Inv'
  BY <1>1, <1>2, <1>6, RestKeeps DEF CrashWorker
<1>7. ASSUME NEW w \in Workers, Heartbeat(w) PROVE Inv'
  BY <1>1, <1>7, RestKeeps DEF Heartbeat
<1>8. ASSUME NEW w \in Workers, GoStale(w) PROVE Inv'
  BY <1>1, <1>8, RestKeeps DEF GoStale
<1>9. ASSUME NEW r \in late, ApplyLate(r) PROVE Inv'
  BY <1>9, ApplyLateKeeps
<1>10. ASSUME NEW m \in queue, VisibilityExpires(m) PROVE Inv'
  BY <1>1, <1>10, RestKeeps DEF VisibilityExpires
<1>11. CASE UNCHANGED vars
  BY <1>1, <1>11, RestKeeps DEF vars, rowVars, createVars
<1> QED
  BY <1>3, <1>4, <1>5, <1>6, <1>7, <1>8, <1>9, <1>10, <1>11 DEF Next

LEMMA Invariance == Spec => []Inv
<1>1. Inv /\ [Next]_vars => Inv'
  BY InvStep
<1> QED
  BY InvInit, <1>1, PTL DEF Spec

-----------------------------------------------------------------------------
(* What a client of the job API can rely on.                              *)

\* No job ever reads COMPLETED without its data and its manifest in S3: a
\* COMPLETED report, even a late one, is only sent by a worker past Train and
\* UploadManifest, and nothing removes what they needed.
THEOREM CompletedIsBacked == Spec => []CompletedHasArtifacts
<1>1. Inv => CompletedHasArtifacts
  BY DEF Inv
<1> QED
  BY Invariance, <1>1, PTL

\* Each queue carries the jobs routed to it and no other, and no laboratory
\* worker has, or reports on, a job that was routed to AWS.
THEOREM QueuesFollowRoutes == Spec => []QueueFollowsRoute
<1>1. Inv => QueueFollowsRoute
  BY DEF Inv, TypeInv, Busy, Addressed, QueueFollowsRoute
<1> QED
  BY Invariance, <1>1, PTL

\* Status, timestamps and journal of a job agree in every state.
THEOREM JournalIsComplete == Spec => []RowAgreesWithJournal
<1>1. Inv => RowAgreesWithJournal
  BY DEF Inv
<1> QED
  BY Invariance, <1>1, PTL

-----------------------------------------------------------------------------
(* The polled status implements JobLifecycle with at-least-once delivery. *)

\* A report moves the status as Start, Finish or Redo does, or not at all.
LEMMA PostRefines ==
  ASSUME Inv, NEW j \in Jobs, NEW s \in WorkerStatus, Truthful(j, s),
         row' = [row EXCEPT ![j] = s]
  PROVE  [Rerunnable!Next]_row
<1> USE DEF Rerunnable!Next, Rerunnable!Move, Rerunnable!Finished, Rerunnable!WorkerStatus
<1>1. row \in [Jobs -> Status] /\ row[j] \in {"QUEUED"} \cup WorkerStatus
  BY DEF Inv, TypeInv, TypeOK, Routed, Truthful
<1>2. CASE s = "RUNNING" /\ row[j] = "QUEUED"
  BY <1>2 DEF Rerunnable!Start
<1>3. CASE s = "RUNNING" /\ row[j] = "RUNNING"
  BY <1>1, <1>3
<1>4. CASE row[j] \in Finished
  BY <1>4 DEF Rerunnable!Redo, Finished, WorkerStatus
<1>5. CASE s \in Finished /\ row[j] = "RUNNING"
  BY <1>5 DEF Rerunnable!Finish, Finished
<1> QED
  BY <1>1, <1>2, <1>3, <1>4, <1>5 DEF Truthful, Finished, WorkerStatus

\* The steps that change the row either create it or report a status.
LEMMA StepRefines ==
  ASSUME Inv, [Next]_vars
  PROVE  [Rerunnable!Next]_row
<1>1. ASSUME NEW j \in Jobs, Backend(j) PROVE [Rerunnable!Next]_row
  <2>1. \/ UNCHANGED row
        \/ /\ request[j] = "none"
           /\ \E s \in {"QUEUED", "FALLBACK_TO_AWS"} : row' = [row EXCEPT ![j] = s]
    BY <1>1 DEF Backend, CreateExperimentJob, ScheduleTraining, StageDataset,
                AbortRequest, Send, SkipSend, RecordPublish
  <2>2. request[j] = "none" => row[j] = "none"
    BY DEF Inv, Routed
  <2> QED
    BY <2>1, <2>2 DEF Rerunnable!Next, Rerunnable!Create, Rerunnable!Move,
                      Rerunnable!InitialStatus
<1>2. ASSUME NEW w \in Workers, WorkerProgress(w) PROVE [Rerunnable!Next]_row
  <2>1. Busy(w) => msg[w].job \in Jobs
    BY DEF Inv, TypeInv, MessageInHand, Message
  <2>2. CASE PostRunning(w)
    BY <2>1, <2>2, PostRefines
    DEF PostRunning, Report, post_job_status, rowVars, Busy, Truthful, Inv, Addressed,
        WorkerStatus, Finished
  <2>3. CASE PostCompleted(w)
    <3>1. Truthful(msg[w].job, "COMPLETED") /\ Busy(w)
      BY <2>3 DEF PostCompleted, Busy, Reporting, Truthful, Artifacts, Inv,
                  Addressed, Begun, Staged
    <3> QED
      BY <2>1, <2>3, <3>1, PostRefines
      DEF PostCompleted, Report, post_job_status, rowVars, WorkerStatus, Finished
  <2>4. CASE PostFailed(w)
    <3>1. Truthful(msg[w].job, "FAILED") /\ Busy(w)
      BY <2>4 DEF PostFailed, Busy, Reporting, Truthful, Inv, Addressed, Begun
    <3> QED
      BY <2>1, <2>4, <3>1, PostRefines
      DEF PostFailed, Report, post_job_status, rowVars, WorkerStatus, Finished
  <2>5. CASE Receive(w) \/ Train(w) \/ UploadManifest(w) \/ DeleteMessage(w)
    BY <2>5 DEF Receive, Train, UploadManifest, DeleteMessage, rowVars
  <2> QED
    BY <1>2, <2>2, <2>3, <2>4, <2>5 DEF WorkerProgress
<1>3. ASSUME NEW r \in late, ApplyLate(r) PROVE [Rerunnable!Next]_row
  <2>1. r.job \in Jobs /\ r.status \in WorkerStatus
    BY DEF Inv, TypeInv, TypeOK
  <2>2. Truthful(r.job, r.status)
    BY DEF Inv, Addressed, Begun, Staged, Truthful
  <2> QED
    BY <1>3, <2>1, <2>2, PostRefines DEF ApplyLate, post_job_status
<1>4. CASE \/ \E w \in Workers : \/ StartWorker(w) \/ CrashWorker(w)
                                 \/ Heartbeat(w) \/ GoStale(w)
           \/ \E m \in queue : VisibilityExpires(m)
           \/ UNCHANGED vars
  BY <1>4 DEF StartWorker, CrashWorker, Heartbeat, GoStale, VisibilityExpires,
              rowVars, vars
<1> QED
  BY <1>1, <1>2, <1>3, <1>4 DEF Next

\* What GET /api/jobs/{id} shows is a behaviour of JobLifecycle: created once,
\* never back to QUEUED, COMPLETED and FAILED only after RUNNING.
THEOREM StatusImplementsLifecycle == Spec => PolledStatusRerunnable
<1>1. Init => Rerunnable!Init
  BY DEF Init, Rerunnable!Init
<1>2. Inv /\ [Next]_vars => [Rerunnable!Next]_row
  BY StepRefines
<1> QED
  BY Invariance, <1>1, <1>2, PTL DEF Spec, PolledStatusRerunnable, Rerunnable!Spec

-----------------------------------------------------------------------------
(* When no job is processed twice at the same time.                       *)

\* The laboratory queue holds at most one message of a job, sent once.
OneMessage ==
    /\ \A m, n \in queue : m.job = n.job => m = n
    /\ \A m \in queue : request[m.job] \notin {"none", "staging", "ready"}

\* A message in hand is on the queue, hidden, and in nobody else's hand.
Exclusive ==
    /\ \A w \in Workers : Busy(w) => msg[w] \in queue \ visible
    /\ \A w \in Workers : ~Busy(w) => msg[w] = NoMessage
    /\ \A v, w \in Workers : Busy(v) /\ msg[v] = msg[w] => v = w

HandInv == TypeInv /\ OneMessage /\ Exclusive

\* The assumptions of NoConcurrentTraining: SQS holds one copy of a send, and
\* a training ends before its visibility timeout.
Orderly == MaxCopies = 1 /\ ~LongRuns

LEMMA NoMessageIsNone == NoMessage \notin Message
  BY ConstantsOK DEF NoMessage, Message

LEMMA HandStep ==
  ASSUME Orderly, HandInv, [Next]_vars
  PROVE  HandInv'
<1> USE DEF Orderly, HandInv, OneMessage, Exclusive, Busy
<1>1. TypeInv'
  BY TypeStep
<1>2. ASSUME NEW j \in Jobs, Backend(j) PROVE HandInv'
  <2>1. UNCHANGED workerVars
    BY <1>2, BackendFrame
  <2>2. CASE Send(j)
    <3>1. /\ request[j] = "ready"
          /\ request' = [request EXCEPT ![j] = "sent"] \/ request' = [request EXCEPT ![j] = "error"]
      BY <2>2 DEF Send, Goto
    <3>2. \/ /\ queue' = queue \cup Copies(j, 1)
             /\ visible' = visible \cup Copies(j, 1)
          \/ UNCHANGED <<queue, visible>>
      <4>1. 1..1 = {1}
        OBVIOUS
      <4> QED
        BY <2>2, <4>1 DEF Send, Put, PutOnLabQueue
    <3>3. PICK new : Copies(j, 1) = {new} /\ new.job = j
      <4>1. 1..1 = {1}
        OBVIOUS
      <4>2. Copies(j, 1) = {[job |-> j, copy |-> 1, input |-> j \in input]}
        BY <4>1 DEF Copies
      <4> WITNESS [job |-> j, copy |-> 1, input |-> j \in input]
      <4> QED
        BY <4>2
    <3>4. \A m \in queue : m.job # j
      BY <3>1
    <3>5. OneMessage'
      <4>1. \A m \in queue' : m \in queue \/ m = new
        BY <3>2, <3>3
      <4>2. request'[j] \notin {"none", "staging", "ready"}
            /\ \A i \in Jobs \ {j} : request'[i] = request[i]
        BY <3>1 DEF TypeInv, TypeOK
      <4>3. \A m \in queue : m.job \in Jobs
        BY DEF TypeInv, TypeOK, Message
      <4> QED
        BY <3>3, <3>4, <4>1, <4>2, <4>3
    <3>6. Exclusive'
      BY <2>1, <3>2, <3>3, <3>4 DEF workerVars
    <3> QED
      BY <1>1, <3>5, <3>6
  <2>3. CASE ~Send(j)
    <3>1. UNCHANGED <<queue, visible>>
      BY <1>2, <2>3 DEF Backend, CreateExperimentJob, ScheduleTraining, StageDataset,
                        AbortRequest, SkipSend, RecordPublish, sqsVars
    <3>2. \A m \in queue : m.job # j \/ request[j] = "sent" \/ request'[j] = "error"
      BY <1>2, <2>3 DEF Backend, CreateExperimentJob, ScheduleTraining, StageDataset,
           AbortRequest, SkipSend, RecordPublish, OpenRequest, Goto, TypeInv, TypeOK
    <3>3. request'[j] \in {"done", "error", "ready", "staging"}
          /\ \A i \in Jobs \ {j} : request'[i] = request[i]
      BY <1>2, <2>3 DEF Backend, CreateExperimentJob, ScheduleTraining, StageDataset,
           AbortRequest, SkipSend, RecordPublish, Goto, TypeInv, TypeOK
    <3>4. request[j] = "sent" => request'[j] \in {"done", "error"}
      BY <1>2, <2>3 DEF Backend, CreateExperimentJob, ScheduleTraining, StageDataset,
           AbortRequest, SkipSend, RecordPublish, Goto, TypeInv, TypeOK
    <3>5. \A m \in queue : m.job \in Jobs
      BY DEF TypeInv, TypeOK, Message
    <3>6. OneMessage'
      BY <3>1, <3>2, <3>3, <3>4, <3>5
    <3> QED
      BY <1>1, <2>1, <3>1, <3>6 DEF workerVars
  <2> QED
    BY <2>2, <2>3
<1>3. ASSUME NEW w \in Workers, StartWorker(w) PROVE HandInv'
  BY <1>1, <1>3 DEF StartWorker, Step, createVars, sqsVars, TypeInv, TypeOK
<1>4. ASSUME NEW w \in Workers, WorkerProgress(w) PROVE HandInv'
  <2>1. CASE Receive(w)
    BY <1>1, <2>1, NoMessageIsNone DEF Receive, Step, createVars, TypeInv, TypeOK
  <2>2. CASE DeleteMessage(w)
    <3>1. /\ pc'[w] = "poll" /\ msg'[w] = NoMessage /\ Busy(w)
          /\ \A v \in Workers \ {w} : pc'[v] = pc[v] /\ msg'[v] = msg[v]
      BY <2>2 DEF DeleteMessage, Step, TypeInv, TypeOK
    <3>2. /\ queue' \subseteq queue /\ queue \ {msg[w]} \subseteq queue'
          /\ visible' \subseteq visible
          /\ request' = request
      BY <2>2 DEF DeleteMessage, createVars
    <3>3. OneMessage'
      BY <3>2
    <3>4. \A v \in Workers : Busy(v) => msg[v] # NoMessage
      BY NoMessageIsNone DEF TypeInv, MessageInHand
    <3> QED
      BY <1>1, <3>1, <3>2, <3>3, <3>4
  <2>3. CASE PostRunning(w) \/ Train(w) \/ UploadManifest(w) \/ PostCompleted(w) \/ PostFailed(w)
    <3>1. /\ Busy(w) /\ pc'[w] \notin {"off", "poll"}
          /\ \A v \in Workers \ {w} : pc'[v] = pc[v]
      BY <2>3 DEF PostRunning, Train, UploadManifest, PostCompleted, PostFailed,
                  Report, Step, TypeInv, TypeOK
    <3>2. UNCHANGED <<msg, queue, visible, request>>
      BY <2>3 DEF PostRunning, Train, UploadManifest, PostCompleted, PostFailed,
                  Report, createVars, sqsVars
    <3> QED
      BY <1>1, <3>1, <3>2
  <2> QED
    BY <1>4, <2>1, <2>2, <2>3 DEF WorkerProgress
<1>5. ASSUME NEW w \in Workers, CrashWorker(w) PROVE HandInv'
  <2>1. \A v \in Workers : Busy(v) => msg[v] # NoMessage
    BY NoMessageIsNone DEF TypeInv, MessageInHand
  <2> QED
    BY <1>1, <1>5, <2>1 DEF CrashWorker, createVars, sqsVars, TypeInv, TypeOK
<1>6. ASSUME NEW w \in Workers, Heartbeat(w) \/ GoStale(w) PROVE HandInv'
  BY <1>1, <1>6 DEF Heartbeat, GoStale, createVars, sqsVars, workerVars
<1>7. ASSUME NEW r \in late, ApplyLate(r) PROVE HandInv'
  BY <1>1, <1>7 DEF ApplyLate, createVars, sqsVars, workerVars
<1>8. ASSUME NEW m \in queue, VisibilityExpires(m) PROVE HandInv'
  BY <1>1, <1>8 DEF VisibilityExpires, createVars, workerVars
<1>9. CASE UNCHANGED vars
  BY <1>1, <1>9 DEF vars
<1> QED
  BY <1>2, <1>3, <1>4, <1>5, <1>6, <1>7, <1>8, <1>9 DEF Next

\* Two workers never process one job at the same time, crashes and API faults
\* included, provided SQS holds one copy of each send and every training ends
\* within the visibility timeout; nothing in worker.py ensures the latter.
THEOREM NoConcurrentWhenOrderly ==
  ASSUME Orderly PROVE Spec => []NoConcurrentTraining
<1>1. Init => HandInv
  BY TypeInit DEF Init, HandInv, OneMessage, Exclusive, Busy
<1>2. HandInv /\ [Next]_vars => HandInv'
  BY HandStep
<1>3. HandInv => NoConcurrentTraining
  BY NoMessageIsNone DEF HandInv, OneMessage, Exclusive, NoConcurrentTraining, Processing,
     TypeInv, MessageInHand
<1> QED
  BY <1>1, <1>2, <1>3, PTL DEF Spec

-----------------------------------------------------------------------------
(* When the outcome of a job is final.                                    *)

\* No status post is lost or late and no worker crashes, on top of Orderly.
FaultFree == Orderly /\ ~ApiFaults /\ ~Crashes

\* A laboratory job is QUEUED until a worker reports on its only message, and
\* RUNNING until that worker reports again; a hidden message is in the hand of
\* the worker that received it last.
NotSent(j) == request[j] \in {"staging", "ready"} /\ target[j] = "lab_gpu"
HiddenIsHeld == \A m \in queue \ visible : \E w \in Workers : Busy(w) /\ msg[w] = m
HeldByReceiver == \A w \in Workers : Busy(w) => holder[msg[w]] = w
WaitingIsQueued ==
    /\ \A j \in Jobs : NotSent(j) => row[j] = "QUEUED"
    /\ \A m \in visible : row[m.job] = "QUEUED"
    /\ \A w \in Workers : pc[w] = "received" => row[msg[w].job] = "QUEUED"
TrainingIsRunning == \A w \in Workers : Reporting(w) => row[msg[w].job] = "RUNNING"

FinalInv ==
    /\ HandInv
    /\ Inv
    /\ late = {}
    /\ HiddenIsHeld
    /\ HeldByReceiver
    /\ WaitingIsQueued
    /\ TrainingIsRunning

\* The part of FinalInv that the steps below have to restore.
Placed ==
    late = {} /\ HiddenIsHeld /\ HeldByReceiver /\ WaitingIsQueued /\ TrainingIsRunning

\* The message a worker has in hand is the only trace of its job.
LEMMA OnlyTrace ==
  ASSUME FinalInv
  PROVE  /\ row \in [Jobs -> Status] /\ pc \in [Workers -> WorkerStep]
         /\ \A m \in queue : m.job \in Jobs
         /\ visible \subseteq queue
         /\ \A w \in Workers : Busy(w) =>
               /\ msg[w] \in queue \ visible
               /\ msg[w].job \in Jobs
               /\ request[msg[w].job] \notin {"staging", "ready"}
               /\ \A v \in Workers \ {w} : Busy(v) => msg[v].job # msg[w].job
               /\ \A m \in visible : m.job # msg[w].job
  BY DEF FinalInv, HandInv, OneMessage, Exclusive, TypeInv, TypeOK, MessageInHand, Message

\* A worker's report is applied at once; w posts s and goes on to step next.
LEMMA FinalReport ==
  ASSUME FaultFree, FinalInv, NEW w \in Workers, Busy(w), NEW s \in WorkerStatus,
         NEW next \in {"running", "delete"}, NEW failed \in WorkerStep,
         Report(w, s, next, failed),
         s = "RUNNING" => pc[w] = "received" /\ next = "running",
         s \in Finished => Reporting(w) /\ next = "delete"
  PROVE  Placed' /\ [OnceOnly!Next]_row
<1> DEFINE j == msg[w].job
<1>1. /\ \A i \in Jobs : row'[i] = IF i = j THEN s ELSE row[i]
      /\ row' = [row EXCEPT ![j] = s]
  BY OnlyTrace DEF FaultFree, Report, post_job_status
<1>2. /\ pc'[w] = next
      /\ \A v \in Workers \ {w} : pc'[v] = pc[v]
  BY OnlyTrace DEF FaultFree, Report
<1>3. UNCHANGED <<late, request, target, queue, visible, holder, msg>>
  BY DEF FaultFree, Report, createVars, sqsVars
<1>4. \A v \in Workers : Busy(v)' <=> Busy(v)
  BY <1>2 DEF Busy
<1>5. HiddenIsHeld' /\ HeldByReceiver' /\ late' = {}
  BY <1>3, <1>4 DEF FinalInv, HiddenIsHeld, HeldByReceiver
<1>6. WaitingIsQueued'
  <2>1. \A i \in Jobs : NotSent(i)' => row'[i] = "QUEUED"
    BY <1>1, <1>3, OnlyTrace DEF FinalInv, WaitingIsQueued, NotSent
  <2>2. \A m \in visible' : row'[m.job] = "QUEUED"
    BY <1>1, <1>3, OnlyTrace DEF FinalInv, WaitingIsQueued
  <2>3. \A v \in Workers : pc'[v] = "received" => row'[msg'[v].job] = "QUEUED"
    BY <1>1, <1>2, <1>3, OnlyTrace DEF FinalInv, WaitingIsQueued, Busy
  <2> QED
    BY <2>1, <2>2, <2>3 DEF WaitingIsQueued
<1>7. TrainingIsRunning'
  <2> SUFFICES ASSUME NEW v \in Workers, Reporting(v)'
               PROVE  row'[msg[v].job] = "RUNNING"
    BY <1>3 DEF TrainingIsRunning
  <2>1. CASE v = w
    BY <1>1, <1>2, <2>1, OnlyTrace DEF Reporting, WorkerStatus, Finished
  <2>2. CASE v # w
    BY <1>1, <1>2, <2>2, OnlyTrace DEF FinalInv, TrainingIsRunning, Reporting, Busy
  <2> QED
    BY <2>1, <2>2
<1>8. [OnceOnly!Next]_row
  <2>1. j \in Jobs
    BY OnlyTrace
  <2>2. CASE s = "RUNNING"
    BY <1>1, <2>1, <2>2 DEF FinalInv, WaitingIsQueued, OnceOnly!Next, OnceOnly!Start, OnceOnly!Move
  <2>3. CASE s \in Finished
    <3>1. row[j] = "RUNNING"
      BY <2>3 DEF FinalInv, TrainingIsRunning
    <3>2. s \in OnceOnly!Finished
      BY <2>3 DEF Finished, OnceOnly!Finished
    <3> QED
      BY <1>1, <2>1, <3>1, <3>2 DEF OnceOnly!Next, OnceOnly!Finish, OnceOnly!Move
  <2> QED
    BY <2>2, <2>3 DEF WorkerStatus
<1> QED
  BY <1>5, <1>6, <1>7, <1>8 DEF Placed

LEMMA FinalWorker ==
  ASSUME FaultFree, FinalInv, NEW w \in Workers, WorkerProgress(w)
  PROVE  Placed' /\ [OnceOnly!Next]_row
<1> USE DEF Step
<1>1. CASE PostRunning(w)
  BY <1>1, FinalReport DEF PostRunning, Busy, WorkerStatus, Finished, WorkerStep
<1>2. CASE PostCompleted(w)
  BY <1>2, FinalReport DEF PostCompleted, Busy, Reporting, WorkerStatus, Finished, WorkerStep
<1>3. CASE PostFailed(w)
  BY <1>3, FinalReport DEF PostFailed, Busy, Reporting, WorkerStatus, Finished, WorkerStep
<1>4. CASE Receive(w)
  <2>1. PICK m \in visible : /\ visible' = visible \ {m}
                             /\ holder' = [holder EXCEPT ![m] = w]
                             /\ msg' = [msg EXCEPT ![w] = m]
    BY <1>4 DEF Receive
  <2>2. /\ m \in queue
        /\ holder \in [Message -> Workers \cup {Nobody}]
        /\ m \in Message
        /\ msg \in [Workers -> Message \cup {NoMessage}]
    BY OnlyTrace DEF FinalInv, HandInv, TypeInv, TypeOK
  <2>3. /\ pc[w] = "poll" /\ pc'[w] = "received" /\ msg'[w] = m /\ holder'[m] = w
        /\ \A v \in Workers \ {w} : pc'[v] = pc[v] /\ msg'[v] = msg[v]
        /\ \A n \in Message \ {m} : holder'[n] = holder[n]
        /\ UNCHANGED <<row, late, request, target, queue>>
    BY <1>4, <2>1, <2>2, OnlyTrace DEF Receive, rowVars, createVars
  <2>4. HiddenIsHeld'
    BY <2>1, <2>3 DEF FinalInv, HiddenIsHeld, Busy
  <2>5. HeldByReceiver'
    <3>1. \A v \in Workers \ {w} : Busy(v) => msg[v] # m /\ msg[v] \in Message
      BY OnlyTrace DEF FinalInv, HandInv, TypeInv, MessageInHand
    <3> QED
      BY <2>3, <3>1 DEF FinalInv, HeldByReceiver, Busy
  <2>6. WaitingIsQueued' /\ TrainingIsRunning'
    BY <2>1, <2>3 DEF FinalInv, WaitingIsQueued, TrainingIsRunning, NotSent, Reporting
  <2> QED
    BY <2>3, <2>4, <2>5, <2>6 DEF Placed, FinalInv
<1>5. CASE Train(w) \/ UploadManifest(w)
  <2>1. /\ UNCHANGED <<row, request, target, queue, visible, holder, msg, late>>
        /\ Reporting(w) /\ Reporting(w)' /\ pc'[w] # "received"
        /\ \A v \in Workers \ {w} : pc'[v] = pc[v]
    BY <1>5, OnlyTrace DEF Train, UploadManifest, Reporting, rowVars, createVars, sqsVars
  <2>2. \A v \in Workers : (Busy(v)' <=> Busy(v)) /\ (Reporting(v)' <=> Reporting(v))
    BY <2>1 DEF Busy, Reporting
  <2> QED
    BY <2>1, <2>2 DEF Placed, FinalInv, HiddenIsHeld, HeldByReceiver, WaitingIsQueued,
                      TrainingIsRunning, NotSent
<1>6. CASE DeleteMessage(w)
  <2>1. Busy(w) /\ holder[msg[w]] = w
    BY <1>6 DEF DeleteMessage, Busy, FinalInv, HeldByReceiver
  <2>2. /\ queue' = queue \ {msg[w]} /\ visible' = visible \ {msg[w]}
        /\ pc'[w] = "poll"
        /\ \A v \in Workers \ {w} : pc'[v] = pc[v] /\ msg'[v] = msg[v]
        /\ UNCHANGED <<row, request, target, holder, late>>
    BY <1>6, <2>1, OnlyTrace DEF DeleteMessage, rowVars, createVars,
                                 FinalInv, HandInv, TypeInv, TypeOK
  <2>3. HiddenIsHeld' /\ HeldByReceiver'
    BY <2>1, <2>2 DEF FinalInv, HiddenIsHeld, HeldByReceiver, Busy
  <2>4. WaitingIsQueued' /\ TrainingIsRunning'
    BY <2>1, <2>2 DEF FinalInv, WaitingIsQueued, TrainingIsRunning, NotSent, Reporting
  <2> QED
    BY <2>2, <2>3, <2>4 DEF Placed, FinalInv
<1> QED
  BY <1>1, <1>2, <1>3, <1>4, <1>5, <1>6 DEF WorkerProgress

LEMMA FinalBackend ==
  ASSUME FaultFree, FinalInv, NEW j \in Jobs, Backend(j)
  PROVE  Placed' /\ [OnceOnly!Next]_row
<1>1. UNCHANGED <<late, holder, workerVars>>
  BY BackendFrame
<1>2. \A w \in Workers : (Busy(w)' <=> Busy(w)) /\ (Reporting(w)' <=> Reporting(w))
  BY <1>1 DEF Busy, Reporting, workerVars
\* The row is created.
<1>3. CASE CreateExperimentJob(j) \/ ScheduleTraining(j)
  <2>1. /\ request[j] = "none"
        /\ UNCHANGED <<queue, visible>>
        /\ \A i \in Jobs \ {j} : row'[i] = row[i] /\ request'[i] = request[i] /\ target'[i] = target[i]
        /\ \E s \in {"QUEUED", "FALLBACK_TO_AWS"} :
              row' = [row EXCEPT ![j] = s] /\ row'[j] = s
    BY <1>3 DEF CreateExperimentJob, ScheduleTraining, Goto, sqsVars,
                FinalInv, HandInv, TypeInv, TypeOK
  <2>2. target'[j] = "lab_gpu" => row'[j] = "QUEUED"
    BY <1>3, <2>1 DEF CreateExperimentJob, ScheduleTraining, Resolved,
                      FinalInv, HandInv, TypeInv, TypeOK
  <2>3. /\ \A m \in queue : m.job \in Jobs \ {j}
        /\ \A w \in Workers : Busy(w) => msg[w].job \in Jobs \ {j}
    BY <2>1, UntouchedBefore, OnlyTrace DEF FinalInv
  <2>4. row[j] = "none"
    BY <2>1 DEF FinalInv, Inv, Routed
  <2>5. WaitingIsQueued'
    <3>1. \A i \in Jobs : NotSent(i)' => row'[i] = "QUEUED"
      BY <2>1, <2>2 DEF FinalInv, WaitingIsQueued, NotSent
    <3>2. \A m \in visible' : row'[m.job] = "QUEUED"
      BY <2>1, <2>3, OnlyTrace DEF FinalInv, WaitingIsQueued
    <3>3. \A w \in Workers : pc'[w] = "received" => row'[msg'[w].job] = "QUEUED"
      BY <1>1, <2>1, <2>3 DEF FinalInv, WaitingIsQueued, workerVars, Busy
    <3> QED
      BY <3>1, <3>2, <3>3 DEF WaitingIsQueued
  <2>6. TrainingIsRunning'
    BY <1>1, <2>1, <2>3 DEF FinalInv, TrainingIsRunning, workerVars, Busy, Reporting
  <2>7. HiddenIsHeld' /\ HeldByReceiver' /\ late' = {}
    BY <1>1, <1>2, <2>1 DEF FinalInv, HiddenIsHeld, HeldByReceiver, workerVars
  <2>8. [OnceOnly!Next]_row
    BY <2>1, <2>4 DEF OnceOnly!Next, OnceOnly!Create, OnceOnly!Move, OnceOnly!InitialStatus
  <2> QED
    BY <2>5, <2>6, <2>7, <2>8 DEF Placed
\* The message is sent.
<1>4. CASE Send(j)
  <2>1. /\ \/ /\ target[j] = "lab_gpu"
              /\ queue' = queue \cup Copies(j, 1)
              /\ visible' = visible \cup Copies(j, 1)
           \/ UNCHANGED <<queue, visible>>
        /\ \A m \in Copies(j, 1) : m.job = j
    <3>1. 1..1 = {1}
      OBVIOUS
    <3> QED
      BY <1>4, <3>1 DEF Send, Put, PutOnLabQueue, Copies, FaultFree, Orderly
  <2>2. /\ UNCHANGED <<row, target>>
        /\ request[j] = "ready"
        /\ \A i \in Jobs : NotSent(i)' => NotSent(i)
    BY <1>4 DEF Send, Goto, NotSent, FinalInv, HandInv, TypeInv, TypeOK
  <2>3. HiddenIsHeld' /\ HeldByReceiver' /\ late' = {}
    BY <1>1, <1>2, <2>1 DEF FinalInv, HiddenIsHeld, HeldByReceiver, workerVars
  <2>4. WaitingIsQueued' /\ TrainingIsRunning'
    BY <1>1, <1>2, <2>1, <2>2 DEF FinalInv, WaitingIsQueued, TrainingIsRunning, NotSent, workerVars
  <2> QED
    BY <2>2, <2>3, <2>4 DEF Placed
\* The request moves on; only the row's journal may change.
<1>5. CASE StageDataset(j) \/ AbortRequest(j) \/ SkipSend(j) \/ RecordPublish(j)
  <2>1. /\ UNCHANGED <<row, target, queue, visible>>
        /\ \A i \in Jobs : NotSent(i)' => NotSent(i)
    BY <1>5 DEF StageDataset, AbortRequest, SkipSend, RecordPublish, Goto, NotSent, sqsVars,
                FinalInv, HandInv, TypeInv, TypeOK
  <2> QED
    BY <1>1, <1>2, <2>1 DEF Placed, FinalInv, HiddenIsHeld, HeldByReceiver, WaitingIsQueued,
                            TrainingIsRunning, workerVars
<1> QED
  BY <1>3, <1>4, <1>5 DEF Backend

LEMMA FinalStep ==
  ASSUME FaultFree, FinalInv, [Next]_vars
  PROVE  FinalInv' /\ [OnceOnly!Next]_row
<1>1. HandInv' /\ Inv'
  BY HandStep, InvStep DEF FaultFree, FinalInv
<1>2. ASSUME NEW j \in Jobs, Backend(j) PROVE Placed' /\ [OnceOnly!Next]_row
  BY <1>2, FinalBackend
<1>3. ASSUME NEW w \in Workers, WorkerProgress(w) PROVE Placed' /\ [OnceOnly!Next]_row
  BY <1>3, FinalWorker
<1>4. ASSUME NEW w \in Workers, StartWorker(w) PROVE Placed' /\ UNCHANGED row
  <2>1. /\ UNCHANGED <<row, late, request, target, queue, visible, holder, msg>>
        /\ \A v \in Workers : (Busy(v)' <=> Busy(v)) /\ (Reporting(v)' <=> Reporting(v))
        /\ \A v \in Workers : pc'[v] = "received" => pc[v] = "received"
    BY <1>4, OnlyTrace DEF StartWorker, Step, Busy, Reporting, rowVars, createVars, sqsVars
  <2> QED
    BY <2>1 DEF Placed, FinalInv, HiddenIsHeld, HeldByReceiver, WaitingIsQueued,
                TrainingIsRunning, NotSent
<1>5. ASSUME NEW w \in Workers, Heartbeat(w) \/ GoStale(w) PROVE Placed' /\ UNCHANGED row
  BY <1>5 DEF Heartbeat, GoStale, rowVars, createVars, sqsVars, workerVars, Placed, FinalInv,
     HiddenIsHeld, HeldByReceiver, WaitingIsQueued, TrainingIsRunning, NotSent, Busy, Reporting
<1>6. \A w \in Workers : ~CrashWorker(w)
  BY DEF CrashWorker, FaultFree
<1>7. \A r \in late : ~ApplyLate(r)
  BY DEF FinalInv
<1>8. \A m \in queue : ~VisibilityExpires(m)
  BY DEF VisibilityExpires, FaultFree, Orderly, FinalInv, HiddenIsHeld
<1>9. ASSUME UNCHANGED vars PROVE Placed' /\ [OnceOnly!Next]_row
  <2>1. Placed' /\ UNCHANGED row
    BY <1>9 DEF vars, Placed, FinalInv, HiddenIsHeld, HeldByReceiver, WaitingIsQueued,
                     TrainingIsRunning, NotSent, Busy, Reporting
  <2> QED
    BY <2>1
<1>10. Placed' /\ [OnceOnly!Next]_row
  <2>1. CASE Next
    BY <2>1, <1>2, <1>3, <1>4, <1>5, <1>6, <1>7, <1>8 DEF Next
  <2> QED
    BY <2>1, <1>9
<1> QED
  BY <1>1, <1>10 DEF Placed, FinalInv

\* Without crashes, API faults, resends and overlong trainings a job runs once
\* and its outcome is final; with any of them only PolledStatusRerunnable holds.
THEOREM OnceOnlyWhenFaultFree ==
  ASSUME FaultFree PROVE Spec => PolledStatusOnceOnly
<1>1. Init => FinalInv /\ OnceOnly!Init
  <2>1. Init => HandInv
    BY TypeInit DEF Init, HandInv, OneMessage, Exclusive, Busy
  <2> QED
    BY <2>1, InvInit DEF Init, FinalInv, HiddenIsHeld, HeldByReceiver, WaitingIsQueued,
       TrainingIsRunning, NotSent, Busy, Reporting, OnceOnly!Init
<1>2. FinalInv /\ [Next]_vars => FinalInv' /\ [OnceOnly!Next]_row
  BY FinalStep
<1> QED
  BY <1>1, <1>2, PTL DEF Spec, PolledStatusOnceOnly, OnceOnly!Spec

-----------------------------------------------------------------------------
(* When the message of a finished job is all that is ever deleted.         *)

\* A laboratory job that was sent has its message or its outcome, and a worker
\* about to delete a message has recorded the outcome.
Sent(j) == request[j] = "sent" \/ Published(j)
SentIsKept ==
    \A j \in Jobs : Sent(j) =>
        /\ request[j] \notin {"none", "staging", "ready"}
        /\ target[j] = "lab_gpu" => ~MessageGone(j) \/ row[j] \in Finished
DeletesFinished == \A w \in Workers : pc[w] = "delete" => row[msg[w].job] \in Finished

KeptInv == late = {} /\ SentIsKept /\ DeletesFinished

\* A handler of the backend moves one job: it sends a message before the job
\* counts as sent, and takes none away.
LEMMA KeptBackend ==
  ASSUME HandInv, KeptInv, NEW j \in Jobs, Backend(j)
  PROVE  KeptInv'
<1> USE DEF HandInv, TypeInv, TypeOK, KeptInv
<1>1. UNCHANGED <<pc, msg, late>>
  BY DEF Backend, CreateExperimentJob, ScheduleTraining, StageDataset, AbortRequest, Send,
         SkipSend, RecordPublish, workerVars
<1>2. \A i \in Jobs \ {j} : /\ row'[i] = row[i] /\ target'[i] = target[i]
                            /\ events'[i] = events[i] /\ request'[i] = request[i]
  BY DEF Backend, CreateExperimentJob, ScheduleTraining, StageDataset, AbortRequest, Send,
         SkipSend, RecordPublish, Goto, Log
<1>3. \A m \in queue : m \in queue' /\ m.job \in Jobs
  BY DEF Backend, CreateExperimentJob, ScheduleTraining, StageDataset, AbortRequest, Send,
         SkipSend, RecordPublish, Put, PutOnLabQueue, sqsVars, Message
<1>4. \A i \in Jobs : MessageGone(i)' => MessageGone(i)
  BY <1>3 DEF MessageGone
<1>5. ASSUME request[j] = "none"
      PROVE  KeptInv'
  <2>1. /\ ~Sent(j)' /\ \A w \in Workers : pc[w] = "delete" => msg[w].job # j
    <3>1. ~Published(j) /\ request'[j] \in {"ready", "error", "staging"}
      BY <1>5 DEF SentIsKept, Sent, Backend, CreateExperimentJob, ScheduleTraining,
                  StageDataset, AbortRequest, Send, SkipSend, RecordPublish, Goto, OpenRequest
    <3>2. "sqs_publish" \notin events'[j]
      BY <1>5, <3>1 DEF Published, Backend, CreateExperimentJob, ScheduleTraining,
                        StageDataset, AbortRequest, Send, SkipSend, RecordPublish, Log, OpenRequest
    <3>3. \A w \in Workers : pc[w] = "delete" => msg[w].job # j
      BY <1>5 DEF Exclusive, OneMessage, Busy
    <3> QED
      BY <3>1, <3>2, <3>3 DEF Sent, Published
  <2>2. DeletesFinished'
    BY <1>1, <1>2, <2>1 DEF DeletesFinished, MessageInHand, Message, Busy
  <2>3. SentIsKept'
    BY <1>2, <1>4, <2>1 DEF SentIsKept, Sent, Published
  <2> QED
    BY <1>1, <2>2, <2>3
<1>6. ASSUME request[j] # "none"
      PROVE  KeptInv'
  <2>1. UNCHANGED <<row, target>>
    BY <1>6 DEF Backend, CreateExperimentJob, ScheduleTraining, StageDataset, AbortRequest,
                Send, SkipSend, RecordPublish
  <2>2. DeletesFinished'
    BY <1>1, <2>1 DEF DeletesFinished
  <2>3. CASE Send(j)
    <3>1. request[j] = "ready" /\ ~Published(j)
      BY <2>3 DEF Send, Published
    <3>2. ~Published(j)'
      BY <2>3, <3>1 DEF Send, Log, Published
    <3>3. request'[j] \in {"sent", "error"}
      BY <2>3 DEF Send, Goto
    <3>4. target[j] = "lab_gpu" => ~MessageGone(j)'
      <4> HAVE target[j] = "lab_gpu"
      <4>1. PICK n \in 1..MaxCopies : queue' = queue \cup Copies(j, n)
        BY <2>3 DEF Send, Put, PutOnLabQueue
      <4>2. [job |-> j, copy |-> 1, input |-> j \in input] \in Copies(j, n)
        <5>1. 1 \in 1..n
          OBVIOUS
        <5> QED
          BY <5>1, Zenon DEF Copies
      <4> QED
        BY <4>1, <4>2 DEF MessageGone
    <3>5. SentIsKept'
      BY <1>2, <1>4, <2>1, <3>2, <3>3, <3>4 DEF SentIsKept, Sent, Published
    <3> QED
      BY <1>1, <2>2, <3>5
  <2>4. CASE ~Send(j)
    <3>1. Sent(j)' => Sent(j)
      BY <1>6, <2>4 DEF Backend, CreateExperimentJob, ScheduleTraining, StageDataset,
                        AbortRequest, SkipSend, RecordPublish, Goto, Log, Sent, Published
    <3>2. Sent(j) => request'[j] \notin {"none", "staging", "ready"}
      BY <1>6, <2>4 DEF Backend, CreateExperimentJob, ScheduleTraining, StageDataset,
                        AbortRequest, SkipSend, RecordPublish, Goto, SentIsKept, Sent
    <3>3. SentIsKept'
      BY <1>2, <1>4, <2>1, <3>1, <3>2 DEF SentIsKept, Sent, Published
    <3> QED
      BY <1>1, <2>2, <3>3
  <2> QED
    BY <2>3, <2>4
<1> QED
  BY <1>5, <1>6

\* What a worker posts is recorded; while it is busy its message is there and
\* nobody else is about to delete it.
LEMMA KeptReport ==
  ASSUME ~ApiFaults, HandInv, KeptInv, NEW w \in Workers, Busy(w), NEW s \in WorkerStatus,
         NEW ok \in WorkerStep, NEW failed, Report(w, s, ok, failed),
         ok = "delete" => s \in Finished
  PROVE  KeptInv'
<1> USE DEF HandInv, TypeInv, TypeOK, KeptInv
<1>1. /\ post_job_status(msg[w].job, s) /\ pc' = [pc EXCEPT ![w] = ok]
      /\ UNCHANGED <<late, msg, target, request, queue>>
  BY DEF Report, createVars, sqsVars
<1>2. msg[w] \in queue /\ msg[w].job \in Jobs
  BY DEF Exclusive, Message
<1>3. /\ row'[msg[w].job] = s
      /\ \A i \in Jobs \ {msg[w].job} : row'[i] = row[i] /\ events'[i] = events[i]
      /\ Published(msg[w].job)' <=> Published(msg[w].job)
  BY <1>1, <1>2 DEF post_job_status, Log, Published, WorkerEvent, WorkerStatus, Finished
<1>4. SentIsKept'
  BY <1>1, <1>2, <1>3 DEF SentIsKept, Sent, Published, MessageGone
<1>5. DeletesFinished'
  <2> SUFFICES ASSUME NEW v \in Workers, pc'[v] = "delete" PROVE row'[msg[v].job] \in Finished
    BY <1>1 DEF DeletesFinished
  <2>1. CASE v = w
    BY <1>1, <1>3, <2>1
  <2>2. CASE v # w
    <3>1. pc[v] = "delete" /\ Busy(v)
      BY <1>1, <2>2 DEF Busy
    <3>2. msg[v].job # msg[w].job /\ msg[v].job \in Jobs
      BY <1>2, <2>2, <3>1 DEF Exclusive, OneMessage, Message
    <3> QED
      BY <1>3, <3>1, <3>2 DEF DeletesFinished
  <2> QED
    BY <2>1, <2>2
<1> QED
  BY <1>1, <1>4, <1>5

LEMMA KeptWorker ==
  ASSUME ~ApiFaults, HandInv, KeptInv, NEW w \in Workers, WorkerProgress(w)
  PROVE  KeptInv'
<1> USE DEF HandInv, TypeInv, TypeOK, KeptInv
<1>1. {"running", "delete"} \subseteq WorkerStep /\ {"RUNNING", "COMPLETED", "FAILED"} = WorkerStatus
  BY DEF WorkerStep, WorkerStatus, Finished
<1>2. CASE Receive(w) \/ Train(w) \/ UploadManifest(w)
  <2>1. UNCHANGED <<row, events, target, request, queue, late>>
    BY <1>2 DEF Receive, Train, UploadManifest, rowVars, createVars, sqsVars
  <2>2. /\ pc'[w] # "delete" /\ \A v \in Workers \ {w} : pc'[v] = pc[v] /\ msg'[v] = msg[v]
    BY <1>2 DEF Receive, Train, UploadManifest, Step
  <2> QED
    BY <2>1, <2>2 DEF SentIsKept, Sent, Published, MessageGone, DeletesFinished
<1>3. CASE PostRunning(w)
  BY <1>1, <1>3, KeptReport DEF PostRunning, Busy
<1>4. CASE PostCompleted(w)
  BY <1>1, <1>4, KeptReport DEF PostCompleted, Busy, Finished
<1>5. CASE PostFailed(w)
  BY <1>1, <1>5, KeptReport DEF PostFailed, Busy, Finished
<1>6. CASE DeleteMessage(w)
  <2>1. /\ pc[w] = "delete" /\ pc'[w] = "poll"
        /\ \A v \in Workers \ {w} : pc'[v] = pc[v] /\ msg'[v] = msg[v]
        /\ UNCHANGED <<row, events, target, request, late>>
        /\ queue \ {msg[w]} \subseteq queue'
    BY <1>6 DEF DeleteMessage, Step, rowVars, createVars
  <2>2. row[msg[w].job] \in Finished
    BY <2>1 DEF DeletesFinished
  <2>3. \A i \in Jobs : MessageGone(i)' => MessageGone(i) \/ i = msg[w].job
    BY <2>1 DEF MessageGone
  <2>4. SentIsKept'
    BY <2>1, <2>2, <2>3 DEF SentIsKept, Sent, Published
  <2>5. DeletesFinished'
    BY <2>1 DEF DeletesFinished
  <2> QED
    BY <2>1, <2>4, <2>5
<1> QED
  BY <1>2, <1>3, <1>4, <1>5, <1>6 DEF WorkerProgress

LEMMA KeptStep ==
  ASSUME ~ApiFaults, HandInv, KeptInv, [Next]_vars
  PROVE  KeptInv'
<1> USE DEF HandInv, TypeInv, TypeOK, KeptInv
<1>1. ASSUME UNCHANGED <<row, events, target, request, queue, late>>,
             \A w \in Workers : pc'[w] = "delete" => pc[w] = "delete" /\ msg'[w] = msg[w]
      PROVE  KeptInv'
  BY <1>1 DEF SentIsKept, Sent, Published, MessageGone, DeletesFinished
<1>2. ASSUME NEW w \in Workers,
             StartWorker(w) \/ CrashWorker(w) \/ Heartbeat(w) \/ GoStale(w)
      PROVE  KeptInv'
  <2>1. UNCHANGED <<row, events, target, request, queue, late>>
    BY <1>2 DEF StartWorker, CrashWorker, Heartbeat, GoStale, rowVars, createVars, sqsVars
  <2>2. \A v \in Workers : pc'[v] = "delete" => pc[v] = "delete" /\ msg'[v] = msg[v]
    BY <1>2 DEF StartWorker, CrashWorker, Heartbeat, GoStale, Step, workerVars
  <2> QED
    BY <1>1, <2>1, <2>2
<1>3. CASE UNCHANGED vars \/ \E m \in queue : VisibilityExpires(m)
  BY <1>1, <1>3 DEF vars, VisibilityExpires, rowVars, createVars, workerVars
<1> QED
  BY <1>2, <1>3, KeptBackend, KeptWorker DEF Next

\* No crash of a worker loses a job: the row of a published job whose message
\* is gone is final, provided SQS holds one copy of each send, trainings end
\* within the visibility timeout, and the API takes what workers report.
THEOREM NoJobIsLost ==
  ASSUME Orderly, ~ApiFaults PROVE Spec => []GoneMeansFinished
<1>1. Init => HandInv /\ KeptInv
  BY TypeInit DEF Init, HandInv, OneMessage, Exclusive, Busy, KeptInv, SentIsKept, Sent,
                  Published, DeletesFinished
<1>2. HandInv /\ KeptInv /\ [Next]_vars => (HandInv /\ KeptInv)'
  BY HandStep, KeptStep
<1>3. KeptInv => GoneMeansFinished
  BY DEF KeptInv, SentIsKept, Sent, GoneMeansFinished
<1> QED
  BY <1>1, <1>2, <1>3, PTL DEF Spec
=============================================================================
