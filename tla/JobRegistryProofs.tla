------------------------- MODULE JobRegistryProofs --------------------------
(***************************************************************************)
(* Proofs about JobRegistry, for any set of jobs.  Those under Faults hold  *)
(* whatever writes fail and wherever the process ends; the others assume    *)
(* that writes succeed.                                                    *)
(***************************************************************************)
EXTENDS JobRegistry, TLAPS

\* A thread is started as the last step of the handler that submits the job.
ThreadsAreSubmitted == \A j \in Jobs : submit[j] # "over" => thread[j] = "none"

\* Nothing of the process is left when it has ended.
DownIsEmpty ==
    ~up => \A j \in Jobs :
        /\ thread[j] = "none"
        /\ submit[j] \in {"free", "over"}
        /\ cancel[j] = "idle"
        /\ job[j] = Absent

\* A job being submitted can only be cancelled, and is then asked to be.
Submitting(j) == submit[j] \in {"insert", "link", "spawn"}
SubmittedIsFresh ==
    \A j \in Jobs : Submitting(j) =>
        /\ job[j].status \in {"queued", "cancelling", "cancelled"}
        /\ job[j].status = "cancelled" => job[j].cancel_requested

Inv ==
    /\ TypeOK
    /\ ThreadsAreSubmitted
    /\ DownIsEmpty
    /\ SubmittedIsFresh
    /\ RetryableStartsNoTraining

-----------------------------------------------------------------------------
(* What the helpers shared by several actions do.                          *)

LEMMA AbsentEntry == Absent \in Entry
  BY DEF Absent, Entry

LEMMA UpdatedEntry ==
  ASSUME TypeOK, NEW j \in Jobs, NEW s \in {"absent"} \cup JobStatus
  PROVE  /\ Updated(j, s) \in [Jobs -> Entry]
         /\ Updated(j, s)[j].status = s
         /\ Updated(j, s)[j].cancel_requested = job[j].cancel_requested
         /\ \A i \in Jobs \ {j} : Updated(j, s)[i] = job[i]
<1>1. job[j] \in Entry
  BY DEF TypeOK
<1>2. /\ [job[j] EXCEPT !.status = s] \in Entry
      /\ [job[j] EXCEPT !.status = s].status = s
      /\ [job[j] EXCEPT !.status = s].cancel_requested = job[j].cancel_requested
  BY <1>1 DEF Entry
<1> QED
  BY <1>2 DEF TypeOK, Updated

LEMMA StoredTypes ==
  ASSUME TypeOK, job' \in [Jobs -> Entry], Persisted \/ NotPersisted
  PROVE  disk' \in [Jobs -> Entry] /\ torn' \in BOOLEAN
  BY DEF TypeOK, Persisted, NotPersisted

LEMMA RunTypes ==
  ASSUME TypeOK, NEW j \in Jobs, NEW s \in RunStatus, UpdateRun(j, s) \/ UNCHANGED runs
  PROVE  pending' \in [Jobs -> RunStatus] /\ trained' \in [Jobs -> RunStatus]
  BY DEF TypeOK, UpdateRun, runs

\* What a step of the thread of j may change.
ThreadFrame(j) ==
    /\ UNCHANGED <<up, submit, cancel>>
    /\ \A i \in Jobs \ {j} : thread'[i] = thread[i] /\ job'[i] = job[i]
    /\ job'[j].cancel_requested = job[j].cancel_requested

\* It goes from a to b and sets the status to s.
Moved(j, a, b, s) == thread[j] = a /\ thread'[j] = b /\ job'[j].status = s

\* All moves of a thread that change its status or may lead to work.
ThreadMoves(j) ==
    LET Same(a, b) == Moved(j, a, b, job[j].status) IN
    \/ job[j].cancel_requested /\ Moved(j, "begin", "end", "cancelled")
    \/ ~job[j].cancel_requested /\ Same("begin", "start")
    \/ Moved(j, "start", "mark", "running")
    \/ Same("mark", "load")
    \/ Same("load", "check")
    \/ job[j].cancel_requested /\ Moved(j, "check", "closing", "cancelled")
    \/ ~job[j].cancel_requested /\ Same("check", "work")
    \/ Same("closing", "finally")
    \/ Same("work", "done") \/ Same("work", "except")
    \/ Moved(j, "done", "publish", "completed")
    \/ Same("publish", "finally")
    \/ Moved(j, "except", "closefail", "failed")
    \/ Same("closefail", "finally")
    \/ Same("finally", "end")

\* The moves of a step that raises.
ThreadRaises(j) ==
    LET Same(a, b) == Moved(j, a, b, job[j].status) IN
    /\ Faults
    /\ \/ Moved(j, "start", "end", "running")
       \/ Same("mark", "end")
       \/ Same("load", "except")
       \/ Moved(j, "check", "except", "cancelled")
       \/ Same("check", "except") \/ Same("closing", "except")
       \/ Moved(j, "done", "except", "completed")
       \/ Same("publish", "except")
       \/ Moved(j, "except", "finally", "failed")

LEMMA SetStepMoves ==
  ASSUME TypeOK, NEW j \in Jobs, NEW s \in {"absent"} \cup JobStatus,
         NEW a, NEW b \in {"end"} \cup Alive, NEW c \in {"end"} \cup Alive,
         SetStep(j, a, s, b, c)
  PROVE  /\ TypeOK'
         /\ ThreadFrame(j)
         /\ Moved(j, a, b, s) \/ (Faults /\ Moved(j, a, c, s))
<1>1. job' = Updated(j, s) /\ UNCHANGED <<up, runs, submit, cancel>>
  BY DEF SetStep
<1>2. disk' \in [Jobs -> Entry] /\ torn' \in BOOLEAN
  BY <1>1, UpdatedEntry, StoredTypes DEF SetStep
<1>3. \/ thread[j] = a /\ thread' = [thread EXCEPT ![j] = b]
      \/ thread[j] = a /\ thread' = [thread EXCEPT ![j] = c] /\ Faults
  BY DEF SetStep, Go, NotPersisted
<1>4. thread' \in [Jobs -> {"none", "end"} \cup Alive]
  BY <1>3 DEF TypeOK
<1>5. TypeOK'
  BY <1>1, <1>2, <1>4, UpdatedEntry DEF TypeOK, runs
<1> QED
  BY <1>1, <1>3, <1>5, UpdatedEntry DEF ThreadFrame, Moved, TypeOK

LEMMA RunStepMoves ==
  ASSUME TypeOK, NEW j \in Jobs, NEW s \in RunStatus,
         NEW a, NEW b \in {"end"} \cup Alive, NEW c \in {"end"} \cup Alive,
         RunStep(j, a, s, b, c)
  PROVE  /\ TypeOK'
         /\ ThreadFrame(j)
         /\ \/ Moved(j, a, b, job[j].status)
            \/ Faults /\ Moved(j, a, c, job[j].status)
<1>1. UNCHANGED <<up, registry, submit, cancel>>
  BY DEF RunStep
<1>2. pending' \in [Jobs -> RunStatus] /\ trained' \in [Jobs -> RunStatus]
  BY RunTypes DEF RunStep
<1>3. \/ thread[j] = a /\ thread' = [thread EXCEPT ![j] = b]
      \/ thread[j] = a /\ thread' = [thread EXCEPT ![j] = c] /\ Faults
  BY DEF RunStep, Go
<1> QED
  BY <1>1, <1>2, <1>3 DEF ThreadFrame, Moved, TypeOK, registry

\* A step that only goes on.
LEMMA GoMoves ==
  ASSUME TypeOK, NEW j \in Jobs, NEW a, NEW b \in {"end"} \cup Alive, Go(j, a, b),
         UNCHANGED <<up, registry, submit, cancel>>,
         pending' \in [Jobs -> RunStatus], trained' \in [Jobs -> RunStatus]
  PROVE  TypeOK' /\ ThreadFrame(j) /\ Moved(j, a, b, job[j].status)
  BY DEF Go, ThreadFrame, Moved, TypeOK, registry

LEMMA ThreadStep ==
  ASSUME TypeOK, NEW j \in Jobs, Thread(j)
  PROVE  TypeOK' /\ ThreadFrame(j) /\ (ThreadMoves(j) \/ ThreadRaises(j))
<1>1. job[j].status \in {"absent"} \cup JobStatus
  BY DEF TypeOK, Entry
<1>2. /\ {"cancelled", "running", "completed", "failed"} \subseteq JobStatus \cap RunStatus
      /\ BeforeCheck \cup {"closing", "work", "done", "publish", "except", "closefail",
                           "finally", "end"} \subseteq {"end"} \cup Alive
  BY DEF JobStatus, Active, Retryable, RunStatus, Alive
<1>3. {"begin", "start", "mark", "load", "check"} = BeforeCheck
  BY DEF BeforeCheck
<1>4. UNCHANGED runs => pending' \in [Jobs -> RunStatus] /\ trained' \in [Jobs -> RunStatus]
  BY DEF TypeOK, runs
<1> USE <1>1, <1>2, <1>3
<1>5. CASE Begin(j)
  BY <1>4, <1>5, SetStepMoves, GoMoves DEF Begin, ThreadMoves, Moved
<1>6. CASE SetRunning(j)
  BY <1>6, SetStepMoves DEF SetRunning, ThreadMoves, ThreadRaises
<1>7. CASE MarkRun(j)
  BY <1>7, RunStepMoves DEF MarkRun, ThreadMoves, ThreadRaises
<1>8. CASE LoadUser(j)
  BY <1>4, <1>8, SetStepMoves, GoMoves DEF LoadUser, ThreadMoves, ThreadRaises
<1>9. CASE Check(j)
  BY <1>9, SetStepMoves DEF Check, ThreadMoves, ThreadRaises
<1>10. CASE CloseCancelled(j)
  BY <1>10, RunStepMoves DEF CloseCancelled, ThreadMoves, ThreadRaises
<1>11. CASE Work(j)
  <2>1. pending' \in [Jobs -> RunStatus] /\ trained' \in [Jobs -> RunStatus]
    BY <1>11 DEF Work, TypeOK, RunStatus
  <2> QED
    BY <1>11, <2>1, GoMoves DEF Work, ThreadMoves
<1>12. CASE SetCompleted(j)
  BY <1>12, SetStepMoves DEF SetCompleted, ThreadMoves, ThreadRaises
<1>13. CASE PublishRun(j)
  BY <1>13, RunStepMoves DEF PublishRun, ThreadMoves, ThreadRaises
<1>14. CASE SetFailed(j)
  BY <1>14, SetStepMoves DEF SetFailed, ThreadMoves, ThreadRaises
<1>15. CASE CloseFailed(j)
  BY <1>15, RunStepMoves DEF CloseFailed, ThreadMoves
<1>16. CASE Finally(j)
  BY <1>16, SetStepMoves DEF Finally, ThreadMoves
<1> QED
  BY <1>5, <1>6, <1>7, <1>8, <1>9, <1>10, <1>11, <1>12, <1>13, <1>14, <1>15, <1>16
  DEF Thread

-----------------------------------------------------------------------------
(* The invariant, under all faults.                                       *)

LEMMA InvInit == Init => Inv
<1> SUFFICES ASSUME Init PROVE Inv
  OBVIOUS
<1>1. TypeOK
  BY AbsentEntry DEF Init, TypeOK, RunStatus
<1>2. ThreadsAreSubmitted /\ DownIsEmpty /\ SubmittedIsFresh /\ RetryableStartsNoTraining
  BY DEF Init, ThreadsAreSubmitted, DownIsEmpty, Submitting, SubmittedIsFresh,
         RetryableStartsNoTraining, Retryable, Absent, BeforeCheck
<1> QED
  BY <1>1, <1>2 DEF Inv

\* An exception before the check, or a job that failed, is never followed by
\* training.
LEMMA InvThread ==
  ASSUME Inv, NEW j \in Jobs, Thread(j)
  PROVE  Inv'
<1> USE DEF Inv
<1>1. TypeOK' /\ ThreadFrame(j) /\ (ThreadMoves(j) \/ ThreadRaises(j))
  BY ThreadStep
<1>2. thread[j] # "none"
  BY <1>1 DEF ThreadMoves, ThreadRaises, Moved
<1>3. up /\ submit[j] = "over"
  BY <1>2 DEF TypeOK, DownIsEmpty, ThreadsAreSubmitted
<1>4. ThreadsAreSubmitted' /\ DownIsEmpty'
  BY <1>1, <1>3 DEF ThreadFrame, ThreadsAreSubmitted, DownIsEmpty
<1>5. SubmittedIsFresh'
  BY <1>1, <1>3 DEF ThreadFrame, SubmittedIsFresh, Submitting
<1>6. job'[j].status \in Retryable =>
         /\ thread'[j] \in BeforeCheck => job'[j].cancel_requested
         /\ thread'[j] = "work" => job'[j].status = "cancelled"
  BY <1>1 DEF ThreadMoves, ThreadRaises, Moved, ThreadFrame, RetryableStartsNoTraining, BeforeCheck, Retryable
<1>7. RetryableStartsNoTraining'
  BY <1>1, <1>6 DEF ThreadFrame, RetryableStartsNoTraining, BeforeCheck
<1> QED
  BY <1>1, <1>4, <1>5, <1>7

\* submit_job and retry_job list the job, or raise with the entry in memory.
Enlisted(j) ==
    /\ up /\ submit[j] = "free"
    /\ submit' \in {[submit EXCEPT ![j] = s] : s \in {"insert", "over"}}
    /\ job' = [job EXCEPT ![j] = [Absent EXCEPT !.status = "queued"]]
    /\ Persisted \/ NotPersisted
    /\ UNCHANGED <<up, runs, cancel, thread>>

LEMMA QueuedEntry ==
  /\ [Absent EXCEPT !.status = "queued"] \in Entry
  /\ [Absent EXCEPT !.status = "queued"].status = "queued"
  BY DEF Absent, Entry, JobStatus, Active

LEMMA InvEnlisted ==
  ASSUME Inv, NEW j \in Jobs, Enlisted(j)
  PROVE  Inv'
<1> USE QueuedEntry DEF Inv
<1>1. job' \in [Jobs -> Entry] /\ job'[j].status = "queued" /\ \A i \in Jobs \ {j} : job'[i] = job[i]
  BY DEF Enlisted, TypeOK
<1>2. thread[j] = "none"
  BY DEF Enlisted, ThreadsAreSubmitted
<1>3. PICK s \in {"insert", "over"} : submit' = [submit EXCEPT ![j] = s]
  BY DEF Enlisted
<1>4. TypeOK'
  BY <1>1, <1>3, StoredTypes DEF Enlisted, TypeOK, runs
<1>5. ThreadsAreSubmitted' /\ DownIsEmpty' /\ SubmittedIsFresh'
  BY <1>1, <1>2, <1>3
  DEF Enlisted, TypeOK, ThreadsAreSubmitted, DownIsEmpty, SubmittedIsFresh, Submitting
<1>6. RetryableStartsNoTraining'
  BY <1>1 DEF Enlisted, RetryableStartsNoTraining, Retryable
<1> QED
  BY <1>4, <1>5, <1>6

\* The handler goes on with the job it has listed.
Submits(j) ==
    /\ Submitting(j)
    /\ \E s \in {"link", "spawn", "over"} : submit' = [submit EXCEPT ![j] = s]
    /\ thread' \in {thread, [thread EXCEPT ![j] = "begin"]}
    /\ thread' # thread => submit'[j] = "over"
    /\ pending' \in {pending, [pending EXCEPT ![j] = "queued"]}
    /\ UNCHANGED registry \/ (UNCHANGED job /\ (Persisted \/ NotPersisted))
    /\ UNCHANGED <<up, trained, cancel>>

LEMMA InvSubmits ==
  ASSUME Inv, NEW j \in Jobs, Submits(j)
  PROVE  Inv'
<1> USE DEF Inv
<1>1. UNCHANGED <<up, job, trained, cancel>>
  BY DEF Submits, registry
<1>2. PICK s \in {"link", "spawn", "over"} : submit' = [submit EXCEPT ![j] = s]
  BY DEF Submits
<1>3. \A i \in Jobs \ {j} : thread'[i] = thread[i]
  BY DEF Submits, TypeOK
<1>4. /\ job[j].status \in {"queued", "cancelling", "cancelled"}
      /\ job[j].status = "cancelled" => job[j].cancel_requested
  BY DEF Submits, SubmittedIsFresh
<1>5. TypeOK'
  <2>1. disk' \in [Jobs -> Entry] /\ torn' \in BOOLEAN
    BY <1>1, StoredTypes DEF Submits, TypeOK, registry
  <2>2. /\ submit' \in [Jobs -> {"free", "insert", "link", "spawn", "over"}]
        /\ pending' \in [Jobs -> RunStatus]
        /\ thread' \in [Jobs -> {"none", "end"} \cup Alive]
    BY <1>2 DEF Submits, TypeOK, RunStatus, Alive, BeforeCheck
  <2> QED
    BY <1>1, <2>1, <2>2 DEF TypeOK
<1>6. up
  BY DEF Submits, Submitting, DownIsEmpty, TypeOK
<1>7. ThreadsAreSubmitted'
  <2>1. submit'[j] = s /\ \A i \in Jobs \ {j} : submit'[i] = submit[i]
    BY <1>2 DEF TypeOK
  <2>2. submit'[j] # "over" => thread'[j] = "none"
    BY DEF Submits, Submitting, ThreadsAreSubmitted
  <2> QED
    BY <1>3, <2>1, <2>2 DEF ThreadsAreSubmitted
<1>8. DownIsEmpty' /\ SubmittedIsFresh'
  BY <1>1, <1>2, <1>4, <1>6 DEF TypeOK, DownIsEmpty, SubmittedIsFresh, Submitting
<1>9. RetryableStartsNoTraining'
  <2>1. thread'[j] = thread[j] \/ thread'[j] = "begin"
    BY DEF Submits, TypeOK
  <2> QED
    BY <1>1, <1>3, <1>4, <2>1 DEF RetryableStartsNoTraining, Retryable
<1> QED
  BY <1>5, <1>7, <1>8, <1>9

\* A cancellation is checked, chosen and written.
LEMMA InvCancel ==
  ASSUME Inv, NEW j \in Jobs, CancelCheck(j) \/ CancelChoose(j) \/ CancelSet(j)
  PROVE  Inv'
<1> USE DEF Inv
<1>1. UNCHANGED <<up, submit, thread>>
  BY DEF CancelCheck, CancelChoose, CancelSet
<1>2. up
  BY DEF CancelCheck, CancelChoose, CancelSet, CancelTo, TypeOK, DownIsEmpty, Active, Absent
<1>3. CASE CancelCheck(j) \/ CancelChoose(j)
  <2>1. UNCHANGED <<registry, runs>>
    BY <1>3 DEF CancelCheck, CancelChoose
  <2>2. cancel' \in [Jobs -> {"idle", "checked", "cancelling", "cancelled"}]
    BY <1>3 DEF CancelCheck, CancelChoose, CancelTo, TypeOK
  <2> QED
    BY <1>1, <1>2, <2>1, <2>2
    DEF TypeOK, registry, runs, ThreadsAreSubmitted, DownIsEmpty, SubmittedIsFresh,
        Submitting, RetryableStartsNoTraining
<1>4. CASE CancelSet(j)
  <2> DEFINE e == [status |-> cancel[j], cancel_requested |-> TRUE]
  <2>1. e \in Entry /\ e.status \in {"cancelling", "cancelled"} /\ e.cancel_requested
    BY <1>4 DEF CancelSet, Entry, JobStatus, Retryable
  <2>2. job' \in [Jobs -> Entry] /\ job'[j] = e /\ \A i \in Jobs \ {j} : job'[i] = job[i]
    BY <1>4, <2>1 DEF CancelSet, TypeOK
  <2> HIDE DEF e
  <2>3. disk' \in [Jobs -> Entry] /\ torn' \in BOOLEAN
    BY <1>4, <2>2, StoredTypes DEF CancelSet
  <2>4. pending' \in [Jobs -> RunStatus] /\ trained' \in [Jobs -> RunStatus]
    <3>1. UpdateRun(j, "cancelled") \/ UNCHANGED runs
      BY <1>4 DEF CancelSet
    <3>2. "cancelled" \in RunStatus
      BY DEF RunStatus
    <3> QED
      BY <3>1, <3>2, RunTypes
  <2>5. TypeOK'
    BY <1>1, <1>4, <2>2, <2>3, <2>4 DEF CancelSet, TypeOK
  <2> QED
    BY <1>1, <1>2, <2>1, <2>2, <2>5
    DEF ThreadsAreSubmitted, DownIsEmpty, SubmittedIsFresh, Submitting, RetryableStartsNoTraining,
        Retryable
<1> QED
  BY <1>3, <1>4

\* The end of the process leaves no thread, and what is loaded afterwards has
\* none either.
LEMMA InvProcess ==
  ASSUME Inv, Crash \/ Restart \/ RestartTorn
  PROVE  Inv'
<1> USE AbsentEntry DEF Inv
<1>1. CASE Crash
  <2>1. TypeOK'
    BY <1>1 DEF Crash, TypeOK, runs
  <2> QED
    BY <1>1, <2>1 DEF Crash, TypeOK, ThreadsAreSubmitted, DownIsEmpty, SubmittedIsFresh,
                      Submitting, RetryableStartsNoTraining, BeforeCheck
<1>2. CASE Restart
  <2>1. \A e \in Entry : Recovered(e) \in Entry
    BY DEF Recovered, Entry, JobStatus, Retryable
  <2>2. job' \in [Jobs -> Entry]
    BY <1>2, <2>1 DEF Restart, Loaded, TypeOK
  <2>3. TypeOK'
    BY <1>2, <2>2, StoredTypes DEF Restart, TypeOK, runs
  <2>4. \A j \in Jobs : thread'[j] = "none" /\ ~Submitting(j)'
    BY <1>2 DEF Restart, DownIsEmpty, Submitting
  <2> QED
    BY <1>2, <2>3, <2>4 DEF Restart, ThreadsAreSubmitted, DownIsEmpty, SubmittedIsFresh,
                            RetryableStartsNoTraining, BeforeCheck
<1>3. CASE RestartTorn
  BY <1>3 DEF RestartTorn, runs, TypeOK, ThreadsAreSubmitted, DownIsEmpty,
              SubmittedIsFresh, Submitting, RetryableStartsNoTraining
<1> QED
  BY <1>1, <1>2, <1>3

\* What the handlers that submit a job do.
LEMMA SubmitStep ==
  ASSUME Inv, NEW j \in Jobs,
         \/ submit_job(j) \/ (\E old \in Jobs : retry_job(old, j))
         \/ InsertRun(j) \/ LinkRun(j) \/ StartThread(j) \/ SubmitFails(j)
  PROVE  Enlisted(j) \/ Submits(j)
<1> USE DEF SubmitTo, Inv, TypeOK
<1>1. CASE submit_job(j) \/ \E old \in Jobs : retry_job(old, j)
  <2>1. Enlist(j)
    BY <1>1 DEF submit_job, retry_job
  <2> QED
    BY <2>1 DEF Enlist, Enlisted
<1>2. CASE InsertRun(j)
  BY <1>2 DEF InsertRun, Submits, Submitting, runs
<1>3. CASE LinkRun(j)
  BY <1>3 DEF LinkRun, Submits, Submitting, runs
<1>4. CASE StartThread(j)
  BY <1>4 DEF StartThread, Submits, Submitting, Go, runs
<1>5. CASE SubmitFails(j)
  <2>1. CASE submit[j] = "free"
    BY <1>5, <2>1 DEF SubmitFails, Enlisted
  <2>2. CASE submit[j] # "free"
    BY <1>5, <2>2 DEF SubmitFails, Submits, Submitting, runs
  <2> QED
    BY <2>1, <2>2
<1> QED
  BY <1>1, <1>2, <1>3, <1>4, <1>5

\* Every step of the specification, by what it is a step of.
LEMMA StepKinds ==
  ASSUME Inv, [Next]_vars
  PROVE  \/ \E j \in Jobs : \/ Thread(j) \/ Enlisted(j) \/ Submits(j)
                            \/ CancelCheck(j) \/ CancelChoose(j) \/ CancelSet(j)
         \/ Crash \/ Restart \/ RestartTorn \/ UNCHANGED vars
  BY SubmitStep DEF Next, Handlers

LEMMA InvStep == Inv /\ [Next]_vars => Inv'
<1> SUFFICES ASSUME Inv, [Next]_vars PROVE Inv'
  OBVIOUS
<1>1. CASE UNCHANGED vars
  BY <1>1 DEF vars, registry, runs, Inv, TypeOK, ThreadsAreSubmitted, DownIsEmpty,
              SubmittedIsFresh, Submitting, RetryableStartsNoTraining
<1> QED
  BY <1>1, StepKinds, InvThread, InvEnlisted, InvSubmits, InvCancel, InvProcess

LEMMA InvAlways == Spec => []Inv
  BY InvInit, InvStep, PTL DEF Spec

\* The registry keeps its types.
THEOREM JobsTypeCorrect == Spec => []TypeOK
<1>1. Inv => TypeOK
  BY DEF Inv
<1> QED
  BY <1>1, InvAlways, PTL

\* Whatever writes fail and wherever the process ends, no training begins on a
\* job that may be retried, and one under way on such a job is that of a job
\* cancelled after its thread's last look.
THEOREM RetryablesStartNoTraining == Spec => []RetryableStartsNoTraining
<1>1. Inv => RetryableStartsNoTraining
  BY DEF Inv
<1> QED
  BY <1>1, InvAlways, PTL

-----------------------------------------------------------------------------
(* A cancellation in time, under all faults.                              *)

\* The thread of j will not reach the training: it is about to see the request
\* to cancel, it is past the training, or it is gone and is not started again.
PastWork == {"closing", "except", "closefail", "finally", "end", "none"}
Averted(j) ==
    /\ submit[j] = "over"
    /\ \/ job[j].cancel_requested /\ thread[j] \in BeforeCheck
       \/ thread[j] \in PastWork

LEMMA AvertedByThread ==
  ASSUME Inv, NEW j \in Jobs, Averted(j), NEW i \in Jobs, Thread(i)
  PROVE  Averted(j)'
<1>1. ThreadFrame(i) /\ (ThreadMoves(i) \/ ThreadRaises(i))
  BY ThreadStep DEF Inv
<1>2. CASE i = j
  BY <1>1, <1>2 DEF Averted, PastWork, BeforeCheck, ThreadFrame, ThreadMoves,
                    ThreadRaises, Moved
<1>3. CASE i # j
  BY <1>1, <1>3 DEF Averted, ThreadFrame
<1> QED
  BY <1>2, <1>3

LEMMA AvertedStep ==
  ASSUME Inv, NEW j \in Jobs, Averted(j), [Next]_vars
  PROVE  Averted(j)'
<1> USE DEF Inv, TypeOK, Averted
<1>1. ASSUME NEW i \in Jobs, Enlisted(i) \/ Submits(i)
      PROVE  Averted(j)'
  <2>1. i # j
    BY <1>1 DEF Enlisted, Submits, Submitting
  <2>2. submit'[j] = submit[j] /\ thread'[j] = thread[j]
    BY <1>1, <2>1 DEF Enlisted, Submits
  <2>3. job'[j] = job[j]
    BY <1>1, <2>1 DEF Enlisted, Submits, registry
  <2> QED
    BY <2>2, <2>3
<1>2. ASSUME NEW i \in Jobs, CancelCheck(i) \/ CancelChoose(i) \/ CancelSet(i)
      PROVE  Averted(j)'
  <2>1. UNCHANGED <<submit, thread>>
    BY <1>2 DEF CancelCheck, CancelChoose, CancelSet
  <2>2. job[j].cancel_requested => job'[j].cancel_requested
    BY <1>2 DEF CancelCheck, CancelChoose, CancelSet, registry
  <2> QED
    BY <2>1, <2>2
<1>3. CASE Crash
  BY <1>3 DEF Crash, PastWork
<1>4. CASE Restart
  <2>1. thread'[j] = "none" /\ submit' = submit
    BY <1>4 DEF Restart, DownIsEmpty
  <2> QED
    BY <2>1 DEF PastWork
<1>5. CASE RestartTorn \/ UNCHANGED vars
  BY <1>5 DEF RestartTorn, vars, registry
<1> QED
  BY <1>1, <1>2, <1>3, <1>4, <1>5, StepKinds, AvertedByThread

\* A request to cancel that is recorded before the thread's second look keeps
\* the job from being trained, whatever else is written or fails, and however
\* often the process ends.
THEOREM CancelInTimeHolds == Spec => CancelInTimePreventsWork
<1> SUFFICES ASSUME NEW j \in Jobs
             PROVE  Spec => []((job[j].cancel_requested /\ thread[j] \in BeforeCheck)
                                  => [](thread[j] # "work"))
  BY DEF CancelInTimePreventsWork
<1>1. Inv /\ job[j].cancel_requested /\ thread[j] \in BeforeCheck => Averted(j)
  BY DEF Inv, ThreadsAreSubmitted, Averted, BeforeCheck
<1>2. Inv /\ Averted(j) /\ [Next]_vars => Averted(j)'
  BY AvertedStep
<1>3. Averted(j) => thread[j] # "work"
  BY DEF Averted, BeforeCheck, PastWork
<1> QED
  BY <1>1, <1>2, <1>3, InvAlways, PTL DEF Spec

-----------------------------------------------------------------------------
(* Ownership, the run rows and the persisted registry, when writes succeed. *)

\* Past the outcome a thread's job is not active.
Over == {"closing", "publish", "closefail", "finally", "end"}
OverIsInactive == \A j \in Jobs : thread[j] \in Over => job[j].status \notin Active

OwnerInv == OverIsInactive /\ ActiveHasOwner

LEMMA OwnerThread ==
  ASSUME Inv, OwnerInv, ~Faults, NEW j \in Jobs, Thread(j)
  PROVE  OwnerInv'
<1> USE DEF OwnerInv
<1>1. ThreadFrame(j) /\ ThreadMoves(j)
  BY ThreadStep DEF Inv, ThreadRaises
<1>2. thread'[j] \in Over => job'[j].status \notin Active
  BY <1>1 DEF ThreadMoves, Moved, Over, OverIsInactive, Active
<1>3. thread'[j] \in Alive \/ job'[j].status \notin Active
  BY <1>1 DEF ThreadMoves, Moved, Over, OverIsInactive, Active, Alive, BeforeCheck
<1> QED
  BY <1>1, <1>2, <1>3 DEF ThreadFrame, OverIsInactive, ActiveHasOwner

LEMMA OwnerStep ==
  ASSUME Inv, OwnerInv, ~Faults, [Next]_vars
  PROVE  OwnerInv'
<1> USE DEF OwnerInv, OverIsInactive, ActiveHasOwner, Inv, TypeOK
<1>1. ASSUME NEW j \in Jobs, submit_job(j) \/ \E old \in Jobs : retry_job(old, j)
      PROVE  OwnerInv'
  <2>1. Enlist(j)
    BY <1>1 DEF submit_job, retry_job
  <2>2. thread[j] = "none" /\ thread' = thread /\ submit'[j] = "insert"
    BY <2>1 DEF Enlist, SubmitTo, ThreadsAreSubmitted
  <2>3. \A i \in Jobs \ {j} : job'[i] = job[i] /\ submit'[i] = submit[i]
    BY <2>1 DEF Enlist, SubmitTo
  <2> QED
    BY <2>2, <2>3 DEF Over
<1>2. ASSUME NEW j \in Jobs, InsertRun(j) \/ LinkRun(j)
      PROVE  OwnerInv'
  <2>1. UNCHANGED <<job, thread>> /\ submit'[j] \in {"link", "spawn"}
    BY <1>2 DEF InsertRun, LinkRun, SubmitTo, registry
  <2>2. \A i \in Jobs \ {j} : submit'[i] = submit[i]
    BY <1>2 DEF InsertRun, LinkRun, SubmitTo
  <2> QED
    BY <2>1, <2>2
<1>3. ASSUME NEW j \in Jobs, StartThread(j)
      PROVE  OwnerInv'
  <2>1. thread'[j] = "begin" /\ job' = job
    BY <1>3 DEF StartThread, Go, registry
  <2>2. \A i \in Jobs \ {j} : submit'[i] = submit[i] /\ thread'[i] = thread[i]
    BY <1>3 DEF StartThread, SubmitTo, Go
  <2> QED
    BY <2>1, <2>2 DEF Alive, BeforeCheck, Over
<1>4. ASSUME NEW j \in Jobs, CancelCheck(j) \/ CancelChoose(j) \/ CancelSet(j)
      PROVE  OwnerInv'
  <2>1. UNCHANGED <<thread, submit>>
    BY <1>4 DEF CancelCheck, CancelChoose, CancelSet
  <2>2. job' = job \/ job'[j].status \in {"cancelling", "cancelled"}
    BY <1>4 DEF CancelCheck, CancelChoose, CancelSet, registry
  <2>3. \A i \in Jobs \ {j} : job'[i] = job[i]
    BY <1>4 DEF CancelCheck, CancelChoose, CancelSet, registry
  <2> QED
    BY <2>1, <2>2, <2>3 DEF Active
<1>5. CASE Crash
  BY <1>5 DEF Crash, Absent, Active
<1>6. CASE Restart
  <2>1. \A j \in Jobs : job'[j].status \notin Active
    BY <1>6 DEF Restart, Loaded, Recovered, Absent, Active, Entry
  <2> QED
    BY <2>1
<1>7. CASE RestartTorn \/ UNCHANGED vars
  BY <1>7 DEF RestartTorn, vars, registry
<1>8. \A j \in Jobs : ~SubmitFails(j)
  BY DEF SubmitFails
<1> QED
  BY <1>1, <1>2, <1>3, <1>4, <1>5, <1>6, <1>7, <1>8, OwnerThread DEF Next, Handlers

\* As long as writes succeed, a job shown as queued or running has a thread or
\* the handler that will start it, through cancellations and restarts.
THEOREM ActiveJobsAreOwned ==
  ASSUME ~Faults PROVE Spec => []ActiveHasOwner
<1>1. Init => OwnerInv
  BY DEF Init, OwnerInv, OverIsInactive, ActiveHasOwner, Over, Absent, Active
<1>2. Inv /\ OwnerInv /\ [Next]_vars => OwnerInv'
  BY OwnerStep
<1>3. OwnerInv => ActiveHasOwner
  BY DEF OwnerInv
<1> QED
  BY <1>1, <1>2, <1>3, InvAlways, PTL DEF Spec

\* The rows of the other jobs stay, and a row that is there stays there.
RowsKept(j) ==
    /\ \A i \in Jobs \ {j} : pending'[i] = pending[i] /\ trained'[i] = trained[i]
    /\ pending[j] # "none" => pending'[j] # "none"

LEMMA UpdateRunEffect ==
  ASSUME TypeOK, NEW j \in Jobs, NEW s \in RunStatus \ {"none"}, UpdateRun(j, s)
  PROVE  RowsKept(j) /\ (pending[j] # "none" => NewestRun(j)' = s)
  BY DEF UpdateRun, RowsKept, NewestRun, TypeOK

\* What the steps of a thread do to the run rows.
LEMMA ThreadRuns ==
  ASSUME Inv, NEW j \in Jobs, Thread(j), ~Faults
  PROVE  /\ RowsKept(j)
         /\ thread[j] = "publish" /\ pending[j] # "none" => NewestRun(j)' = "completed"
         /\ thread[j] = "closefail" /\ pending[j] # "none" => NewestRun(j)' = "failed"
         /\ thread[j] = "finally" => NewestRun(j)' = NewestRun(j)
<1> USE DEF Inv
<1>1. {"running", "cancelled", "completed", "failed"} \subseteq RunStatus \ {"none"}
  BY DEF RunStatus
<1>2. UNCHANGED runs => RowsKept(j) /\ NewestRun(j)' = NewestRun(j)
  BY DEF runs, RowsKept, NewestRun
<1>3. CASE Begin(j) \/ SetRunning(j) \/ LoadUser(j) \/ Check(j) \/ SetCompleted(j) \/ SetFailed(j)
  <2>1. UNCHANGED runs
    BY <1>3 DEF Begin, SetRunning, LoadUser, Check, SetCompleted, SetFailed, SetStep
  <2>2. thread[j] \notin {"publish", "closefail", "finally"}
    BY <1>3 DEF Begin, SetRunning, LoadUser, Check, SetCompleted, SetFailed, SetStep, Go
  <2> QED
    BY <1>2, <2>1, <2>2
<1>4. CASE MarkRun(j)
  BY <1>1, <1>4, UpdateRunEffect DEF MarkRun, RunStep, Go
<1>5. CASE CloseCancelled(j)
  BY <1>1, <1>5, UpdateRunEffect DEF CloseCancelled, RunStep, Go
<1>6. CASE Work(j)
  BY <1>6 DEF Work, Go, RowsKept, TypeOK
<1>7. CASE PublishRun(j)
  BY <1>1, <1>7, UpdateRunEffect DEF PublishRun, RunStep, Go
<1>8. CASE CloseFailed(j)
  BY <1>1, <1>8, UpdateRunEffect DEF CloseFailed, RunStep, Go
<1>9. CASE Finally(j)
  BY <1>2, <1>9 DEF Finally, SetStep, Go
<1> QED
  BY <1>3, <1>4, <1>5, <1>6, <1>7, <1>8, <1>9 DEF Thread

\* A thread has a run row, a job is closed as cancelled only on request, and
\* from the outcome on the entry says what the row says or is about to say.
Recorded(j) ==
    /\ thread[j] # "none" \/ submit[j] \in {"link", "spawn"} => pending[j] # "none"
    /\ thread[j] = "closing" => job[j].cancel_requested
    /\ ~job[j].cancel_requested =>
          /\ thread[j] = "publish" => job[j].status = "completed"
          /\ thread[j] = "closefail" => job[j].status = "failed"
          /\ thread[j] \in {"finally", "end"} => job[j].status = NewestRun(j)

RunInv == \A j \in Jobs : Recorded(j)

LEMMA RunThread ==
  ASSUME Inv, RunInv, ~Faults, NEW j \in Jobs, Thread(j)
  PROVE  RunInv'
<1>1. ThreadFrame(j) /\ ThreadMoves(j)
  BY ThreadStep DEF Inv, ThreadRaises
<1>2. Recorded(j)
  BY DEF RunInv
<1>3. pending[j] # "none"
  BY <1>1, <1>2 DEF ThreadMoves, Moved, Recorded
<1>4. Recorded(j)'
  <2>1. pending'[j] # "none" /\ job'[j].cancel_requested = job[j].cancel_requested
    BY <1>1, <1>3, ThreadRuns DEF RowsKept, ThreadFrame
  <2>2. thread'[j] = "closing" => job[j].cancel_requested
    BY <1>1 DEF ThreadMoves, Moved
  <2>3. ASSUME ~job[j].cancel_requested
        PROVE  /\ thread'[j] = "publish" => job'[j].status = "completed"
               /\ thread'[j] = "closefail" => job'[j].status = "failed"
    BY <1>1 DEF ThreadMoves, Moved
  <2>4. ASSUME ~job[j].cancel_requested, thread'[j] \in {"finally", "end"}
        PROVE  job'[j].status = NewestRun(j)'
    BY <1>1, <1>2, <1>3, <2>4, ThreadRuns DEF ThreadMoves, Moved, Recorded
  <2> QED
    BY <2>1, <2>2, <2>3, <2>4 DEF Recorded
<1>5. \A i \in Jobs \ {j} : Recorded(i)'
  <2> TAKE i \in Jobs \ {j}
  <2>1. Recorded(i)
    BY DEF RunInv
  <2>2. job'[i] = job[i] /\ thread'[i] = thread[i] /\ submit' = submit
    BY <1>1 DEF ThreadFrame
  <2>3. pending'[i] = pending[i] /\ trained'[i] = trained[i]
    BY ThreadRuns DEF RowsKept
  <2> QED
    BY <2>1, <2>2, <2>3 DEF Recorded, NewestRun
<1> QED
  BY <1>4, <1>5 DEF RunInv

\* A step that touches no other job than j and leaves Recorded(j) true.
LEMMA RunOfOne ==
  ASSUME RunInv, NEW j \in Jobs, Recorded(j)',
         \A i \in Jobs \ {j} :
            /\ job'[i] = job[i] /\ thread'[i] = thread[i] /\ submit'[i] = submit[i]
            /\ pending'[i] = pending[i] /\ trained'[i] = trained[i]
  PROVE  RunInv'
  BY DEF RunInv, Recorded, NewestRun

LEMMA RunStepInv ==
  ASSUME Inv, RunInv, ~Faults, [Next]_vars
  PROVE  RunInv'
<1> USE DEF Inv, TypeOK
<1>1. ASSUME NEW j \in Jobs, submit_job(j) \/ \E old \in Jobs : retry_job(old, j)
      PROVE  RunInv'
  <2>1. Enlist(j)
    BY <1>1 DEF submit_job, retry_job
  <2>2. thread'[j] = "none" /\ submit'[j] = "insert"
    BY <2>1 DEF Enlist, SubmitTo, ThreadsAreSubmitted
  <2> QED
    BY <2>1, <2>2, RunOfOne DEF Enlist, SubmitTo, Recorded, runs
<1>2. ASSUME NEW j \in Jobs, InsertRun(j) \/ LinkRun(j)
      PROVE  RunInv'
  <2>1. Recorded(j) /\ thread[j] = "none"
    BY <1>2 DEF RunInv, InsertRun, LinkRun, SubmitTo, ThreadsAreSubmitted
  <2>2. Recorded(j)'
    BY <1>2, <2>1 DEF InsertRun, LinkRun, SubmitTo, Recorded, registry, runs
  <2> QED
    BY <1>2, <2>2, RunOfOne DEF InsertRun, LinkRun, SubmitTo, registry, runs
<1>3. ASSUME NEW j \in Jobs, StartThread(j)
      PROVE  RunInv'
  <2>1. Recorded(j)'
    BY <1>3 DEF RunInv, StartThread, SubmitTo, Go, Recorded, registry, runs
  <2> QED
    BY <1>3, <2>1, RunOfOne DEF StartThread, SubmitTo, Go, registry, runs
<1>4. ASSUME NEW j \in Jobs, CancelCheck(j) \/ CancelChoose(j)
      PROVE  UNCHANGED <<job, thread, submit, pending, trained>>
  BY <1>4 DEF CancelCheck, CancelChoose, registry, runs
<1>5. ASSUME NEW j \in Jobs, CancelSet(j)
      PROVE  RunInv'
  <2>1. job'[j].cancel_requested /\ \A i \in Jobs \ {j} : job'[i] = job[i]
    BY <1>5 DEF CancelSet
  <2>2. UNCHANGED <<thread, submit>>
    BY <1>5 DEF CancelSet
  <2>3. RowsKept(j)
    <3>1. UpdateRun(j, "cancelled") \/ UNCHANGED runs
      BY <1>5 DEF CancelSet
    <3>2. "cancelled" \in RunStatus \ {"none"}
      BY DEF RunStatus
    <3>3. UNCHANGED runs => RowsKept(j)
      BY DEF RowsKept, runs
    <3> QED
      BY <3>1, <3>2, <3>3, UpdateRunEffect
  <2>4. Recorded(j)'
    BY <2>1, <2>2, <2>3 DEF RunInv, Recorded, RowsKept
  <2> QED
    BY <2>1, <2>2, <2>3, <2>4, RunOfOne DEF RowsKept
<1>6. CASE Crash
  BY <1>6 DEF Crash, RunInv, Recorded
<1>7. CASE Restart
  <2>1. \A j \in Jobs : thread'[j] = "none" /\ submit'[j] \in {"free", "over"}
    BY <1>7 DEF Restart, DownIsEmpty
  <2> QED
    BY <2>1 DEF RunInv, Recorded
<1>8. CASE RestartTorn \/ UNCHANGED vars
  <2>1. UNCHANGED <<job, thread, submit, pending, trained>>
    BY <1>8 DEF RestartTorn, vars, registry, runs
  <2> QED
    BY <2>1 DEF RunInv, Recorded, NewestRun
<1>9. \A j \in Jobs : ~SubmitFails(j)
  BY DEF SubmitFails
<1>10. ASSUME UNCHANGED <<job, thread, submit, pending, trained>>
       PROVE  RunInv'
  BY <1>10 DEF RunInv, Recorded, NewestRun
<1> QED
  BY <1>1, <1>2, <1>3, <1>4, <1>5, <1>6, <1>7, <1>8, <1>9, <1>10, RunThread DEF Next, Handlers

\* As long as writes succeed, the newest run row of a job that nobody cancelled
\* says what the registry says, once its thread has ended.
THEOREM RunRowsAgree ==
  ASSUME ~Faults PROVE Spec => []NewestRunAgrees
<1>1. Init => RunInv
  BY DEF Init, RunInv, Recorded
<1>2. Inv /\ RunInv /\ [Next]_vars => RunInv'
  BY RunStepInv
<1>3. RunInv => NewestRunAgrees
  BY DEF RunInv, Recorded, NewestRunAgrees
<1> QED
  BY <1>1, <1>2, <1>3, InvAlways, PTL DEF Spec

\* A completed job is past its training, a job not submitted is not there, and
\* while the process runs the object holds what it has in memory.
DurableInv ==
    /\ ~torn
    /\ up => disk = job
    /\ \A j \in Jobs :
          /\ submit[j] = "free" => /\ job[j] = Absent /\ disk[j] = Absent
                                   /\ cancel[j] = "idle"
          /\ job[j].status = "completed" => thread[j] \in {"publish", "finally", "end", "none"}
          /\ submit[j] # "free" => disk[j] # Absent

LEMMA DurableThread ==
  ASSUME Inv, DurableInv, ~Faults, AtomicStore, NEW j \in Jobs, Thread(j)
  PROVE  /\ DurableInv'
         /\ \A i \in Jobs : /\ disk[i] # Absent => disk'[i] # Absent
                            /\ disk[i].status = "completed" => disk'[i].status = "completed"
<1> USE DEF Inv, TypeOK
<1>1. ThreadFrame(j) /\ ThreadMoves(j)
  BY ThreadStep DEF ThreadRaises
<1>2. (job' = job /\ UNCHANGED <<disk, torn>>) \/ Persisted
  BY DEF Thread, Begin, SetRunning, MarkRun, LoadUser, Check, CloseCancelled, Work,
         SetCompleted, PublishRun, SetFailed, CloseFailed, Finally, SetStep, RunStep,
         NotPersisted, registry
<1>3. thread[j] # "none"
  BY <1>1 DEF ThreadMoves, Moved
<1>4. up /\ submit[j] = "over"
  BY <1>3 DEF DownIsEmpty, ThreadsAreSubmitted
<1>5. ~torn' /\ disk' = job' /\ disk = job /\ up'
  BY <1>1, <1>2, <1>4 DEF DurableInv, Persisted, ThreadFrame
<1>6. job[j] # Absent
  BY <1>4, <1>5 DEF DurableInv
<1>7. job'[j] # Absent
  BY <1>1, <1>6 DEF ThreadMoves, Moved, ThreadFrame, Absent, Entry
<1>8. job[j].status = "completed" => job'[j].status = "completed"
  BY <1>1 DEF ThreadMoves, Moved, DurableInv
<1>9. job'[j].status = "completed" => thread'[j] \in {"publish", "finally", "end", "none"}
  BY <1>1 DEF ThreadMoves, Moved, DurableInv
<1>10. DurableInv'
  BY <1>1, <1>4, <1>5, <1>7, <1>9 DEF DurableInv, ThreadFrame
<1> QED
  BY <1>1, <1>5, <1>7, <1>8, <1>10 DEF ThreadFrame

\* What RegistryIsDurable says of one step.
Durable ==
    \A j \in Jobs :
        /\ disk[j] # Absent => disk'[j] # Absent
        /\ disk[j].status = "completed" /\ disk'[j].status # "completed"
              => CancelSet(j)

LEMMA DurableSubmit ==
  ASSUME Inv, DurableInv, NEW j \in Jobs,
         \/ submit_job(j) \/ \E old \in Jobs : retry_job(old, j)
         \/ InsertRun(j) \/ LinkRun(j) \/ StartThread(j)
  PROVE  DurableInv' /\ Durable
<1> USE DEF Inv, TypeOK
<1>1. CASE submit_job(j) \/ \E old \in Jobs : retry_job(old, j)
  <2>1. Enlist(j)
    BY <1>1 DEF submit_job, retry_job
  <2>2. /\ up /\ submit[j] = "free" /\ submit' = [submit EXCEPT ![j] = "insert"]
        /\ job' = [job EXCEPT ![j] = [Absent EXCEPT !.status = "queued"]]
        /\ Persisted /\ UNCHANGED <<up, cancel, thread>>
    BY <2>1 DEF Enlist, SubmitTo
  <2>3. job'[j] # Absent /\ job'[j].status = "queued"
    BY <2>2 DEF Absent
  <2>4. \A i \in Jobs \ {j} : job'[i] = job[i] /\ submit'[i] = submit[i]
    BY <2>2
  <2>5. disk[j] = Absent /\ disk = job
    BY <2>2 DEF DurableInv
  <2>6. DurableInv'
    BY <2>2, <2>3, <2>4, <2>5 DEF DurableInv, Persisted
  <2>7. Durable
    BY <2>2, <2>3, <2>4, <2>5 DEF Durable, Persisted, Absent
  <2> QED
    BY <2>6, <2>7
<1>2. CASE InsertRun(j) \/ LinkRun(j) \/ StartThread(j)
  <2>1. up
    BY <1>2 DEF InsertRun, LinkRun, StartThread, SubmitTo, DownIsEmpty
  <2>2. UNCHANGED <<up, job, cancel>> /\ (UNCHANGED <<disk, torn>> \/ Persisted)
    BY <1>2 DEF InsertRun, LinkRun, StartThread, registry
  <2>3. disk' = disk /\ ~torn'
    BY <2>1, <2>2 DEF Persisted, DurableInv
  <2>4. /\ submit[j] # "free" /\ submit'[j] # "free"
        /\ \A i \in Jobs \ {j} : submit'[i] = submit[i]
    BY <1>2 DEF InsertRun, LinkRun, StartThread, SubmitTo
  <2>5. \/ thread' = thread
        \/ job[j].status # "completed" /\ thread' = [thread EXCEPT ![j] = "begin"]
    BY <1>2 DEF InsertRun, LinkRun, StartThread, Go, SubmitTo, SubmittedIsFresh, Submitting
  <2> QED
    BY <2>2, <2>3, <2>4, <2>5 DEF DurableInv, Durable
<1> QED
  BY <1>1, <1>2

LEMMA DurableCancel ==
  ASSUME Inv, DurableInv, ~Faults, NEW j \in Jobs,
         CancelCheck(j) \/ CancelChoose(j) \/ CancelSet(j)
  PROVE  DurableInv' /\ Durable
<1> USE DEF Inv, TypeOK
<1>1. UNCHANGED <<up, submit, thread>> /\ \A i \in Jobs \ {j} : cancel'[i] = cancel[i]
  BY DEF CancelCheck, CancelChoose, CancelSet, CancelTo
<1>2. submit[j] # "free"
  BY DEF CancelCheck, CancelChoose, CancelSet, CancelTo, DurableInv, Absent, Active
<1>3. CASE CancelCheck(j) \/ CancelChoose(j)
  <2>1. UNCHANGED <<job, disk, torn>>
    BY <1>3 DEF CancelCheck, CancelChoose, registry
  <2> QED
    BY <1>1, <1>2, <2>1 DEF DurableInv, Durable
<1>4. CASE CancelSet(j)
  <2>1. up
    BY <1>4 DEF CancelSet, DownIsEmpty
  <2>2. job'[j].status \in {"cancelling", "cancelled"} /\ job'[j] # Absent
    BY <1>4 DEF CancelSet, Absent
  <2>3. \A i \in Jobs \ {j} : job'[i] = job[i]
    BY <1>4 DEF CancelSet
  <2>4. Persisted
    BY <1>4 DEF CancelSet, NotPersisted
  <2>5. DurableInv'
    BY <1>1, <1>2, <2>1, <2>2, <2>3, <2>4 DEF DurableInv, Persisted
  <2>6. Durable
    BY <1>4, <2>1, <2>2, <2>3, <2>4 DEF DurableInv, Durable, Persisted
  <2> QED
    BY <2>5, <2>6
<1> QED
  BY <1>3, <1>4

\* An object is never torn, so a restart finds everything that was written.
LEMMA DurableProcess ==
  ASSUME Inv, DurableInv, AtomicStore, Crash \/ Restart \/ RestartTorn
  PROVE  DurableInv' /\ Durable
<1> USE DEF Inv, TypeOK, DurableInv, Durable
<1>1. CASE Crash
  BY <1>1 DEF Crash, Absent
<1>2. CASE Restart
  <2>1. \A j \in Jobs : job'[j] = Recovered(disk[j])
    BY <1>2 DEF Restart, Loaded
  <2>2. \A e \in Entry : /\ (Recovered(e) = Absent) <=> (e = Absent)
                         /\ (Recovered(e).status = "completed") <=> (e.status = "completed")
    <3> TAKE e \in Entry
    <3>1. CASE e.status \in Active
      <4>1. e.status \notin {"absent", "completed"}
        BY <3>1 DEF Active
      <4>2. Recovered(e).status = "recovered"
        BY <3>1 DEF Recovered, Entry
      <4>3. Absent.status = "absent"
        BY DEF Absent
      <4> QED
        BY <4>1, <4>2, <4>3
    <3>2. CASE e.status \notin Active
      BY <3>2 DEF Recovered
    <3> QED
      BY <3>1, <3>2
  <2>3. \A j \in Jobs : thread'[j] = "none" /\ cancel'[j] = "idle"
    BY <1>2 DEF Restart, DownIsEmpty
  <2> QED
    BY <1>2, <2>1, <2>2, <2>3 DEF Restart, Persisted
<1>3. CASE RestartTorn
  BY <1>3 DEF RestartTorn
<1> QED
  BY <1>1, <1>2, <1>3

LEMMA DurableStep ==
  ASSUME Inv, DurableInv, ~Faults, AtomicStore, [Next]_vars
  PROVE  DurableInv' /\ Durable
<1>1. CASE UNCHANGED vars
  BY <1>1 DEF vars, registry, DurableInv, Durable
<1>2. \A j \in Jobs : ~SubmitFails(j)
  BY DEF SubmitFails
<1>3. ASSUME NEW j \in Jobs, Thread(j)
      PROVE  DurableInv' /\ Durable
  BY <1>3, DurableThread DEF Durable
<1> QED
  BY <1>1, <1>2, <1>3, DurableSubmit, DurableCancel, DurableProcess DEF Next, Handlers

\* With the registry in the object store, as long as writes succeed, no job is
\* ever forgotten, and a completed job stays completed across restarts and the
\* writes of other jobs, unless it is cancelled itself.
THEOREM JobsAreDurable ==
  ASSUME ~Faults, AtomicStore PROVE Spec => RegistryIsDurable
<1>1. Init => DurableInv
  BY DEF Init, DurableInv, Absent
<1>2. Inv /\ DurableInv /\ [Next]_vars => DurableInv'
  BY DurableStep
<1>3. Inv /\ DurableInv /\ [Next]_vars =>
        [\A j \in Jobs :
            /\ disk[j] # Absent => disk'[j] # Absent
            /\ disk[j].status = "completed" /\ disk'[j].status # "completed"
                  => CancelSet(j)]_vars
  BY DurableStep DEF Durable
<1> QED
  BY <1>1, <1>2, <1>3, InvAlways, PTL DEF Spec, RegistryIsDurable

=============================================================================
