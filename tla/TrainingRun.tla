---------------------------- MODULE TrainingRun ----------------------------
(***************************************************************************)
(* The Train, Stop and Predict buttons and the line that follows a queued  *)
(* job: runTrain, runPredict and the job poll of App.jsx, with the pages   *)
(* that show what they find. A training handler lives until its answer,    *)
(* and the reloads after it, are there; a poll lives until a newer one is  *)
(* set up; neither is told when the user moves on.                         *)
(***************************************************************************)
EXTENDS Naturals, FiniteSets

CONSTANTS
    DataFiles,
    NoData,      \* no file is selected
    MaxRuns,     \* bound: trainings started
    MaxTicks     \* bound: polls of one job in flight

ASSUME RunAssumption ==
    /\ NoData \notin DataFiles
    /\ MaxRuns \in Nat /\ MaxTicks \in Nat \ {0}

VARIABLES
    chosen,     \* selectedFile once a target is chosen too (see TrainingDesk)
    task,       \* task
    modelType,  \* modelType
    runs,       \* the training handlers that have not ended
    runCount,   \* trainings started so far
    abortRef,   \* trainAbortRef: the run the Stop button aborts, 0 if none
    training,   \* trainLoading
    result,     \* trainResult: the run it belongs to, 0 if none is shown
    trainedOn,  \* history: the file each run that gave a result was started with
    predictOn,  \* predictModelId and predictFile
    predicting, \* predictLoading
    signedIn,   \* a token is there
    jobOver,    \* server: the queued jobs that have ended
    newestJob,  \* history: the job queued last, 0 if none
    poll,       \* trainJobPollId, 0 for null
    line,       \* trainJobSnapshot: its job, and whether it is over
    ticks,      \* the polls in flight
    cutOff      \* history: a poll of an older job ended the poll of the newest

trainVars == <<chosen, task, modelType, runs, runCount, abortRef, training, result,
               trainedOn>>
jobVars == <<signedIn, jobOver, newestJob, poll, line, ticks, cutOff>>
predictVars == <<predictOn, predicting>>
runVars == <<trainVars, jobVars, predictVars>>

-----------------------------------------------------------------------------
\* TASK_MODEL_OPTIONS: what the model select offers for a task, in the order
\* of the first one. (Only the models that tell the tasks apart are named.)
ModelsOf ==
    [classification |-> <<"logistic_regression", "random_forest">>,
     regression |-> <<"linear_regression", "random_forest">>,
     time_series |-> <<"tft", "random_forest">>,
     anomaly_detection |-> <<"isolation_forest">>]

ModelsFor(t) == {ModelsOf[t][i] : i \in DOMAIN ModelsOf[t]}

NoLine == [job |-> 0, over |-> FALSE]

RunIds == 1..MaxRuns

RunInit ==
    /\ chosen = NoData
    /\ task = "classification" /\ modelType = "random_forest"
    /\ runs = {} /\ runCount = 0 /\ abortRef = 0
    /\ training = FALSE /\ result = 0
    /\ trainedOn = [n \in RunIds |-> NoData]
    /\ predictOn = [model |-> 0, file |-> NoData] /\ predicting = FALSE
    /\ signedIn = TRUE
    /\ jobOver = {} /\ newestJob = 0 /\ poll = 0 /\ line = NoLine /\ ticks = {}
    /\ cutOff = FALSE

-----------------------------------------------------------------------------
(* What the pages offer.                                                   *)

TrainControls ==
    {c \in {"file", "task", "model", "train", "stop"} :
        /\ signedIn
        /\ c = "train" => ~training
        /\ c = "stop" => training}

\* The panels of the training page below its buttons.
TrainPanels ==
    {p \in {"job line", "result"} :
        /\ p = "job line" => line # NoLine
        /\ p = "result" => result # 0}

PredictControls ==
    {c \in {"model", "file", "predict"} : signedIn /\ (c = "predict" => ~predicting)}

\* The models the server has, as far as this browser knows them.
KnownModels == {n \in RunIds : trainedOn[n] # NoData}

-----------------------------------------------------------------------------
Choose(f) ==
    /\ "file" \in TrainControls /\ f # chosen
    /\ chosen' = f
    /\ UNCHANGED <<task, modelType, runs, runCount, abortRef, training, result, trainedOn,
                   jobVars, predictVars>>

\* A new task keeps the model if the task has it, and takes its first else.
ChooseTask(t) ==
    /\ "task" \in TrainControls /\ t # task
    /\ task' = t
    /\ modelType' = IF modelType \in ModelsFor(t) THEN modelType ELSE ModelsOf[t][1]
    /\ UNCHANGED <<chosen, runs, runCount, abortRef, training, result, trainedOn,
                   jobVars, predictVars>>

ChooseModel(m) ==
    /\ "model" \in TrainControls
    /\ m \in ModelsFor(task) /\ m # modelType
    /\ modelType' = m
    /\ UNCHANGED <<chosen, task, runs, runCount, abortRef, training, result, trainedOn,
                   jobVars, predictVars>>

\* Without a file or a target runTrain only clears the last result.
TrainRefused ==
    /\ "train" \in TrainControls
    /\ chosen = NoData
    /\ result' = 0 /\ abortRef' = 0
    /\ UNCHANGED <<chosen, task, modelType, runs, runCount, training, trainedOn,
                   jobVars, predictVars>>

Abort(S, n) == {IF r.n = n THEN [r EXCEPT !.aborted = TRUE] ELSE r : r \in S}

\* The request and its handler keep what was chosen when it was sent.
RunTrain ==
    /\ "train" \in TrainControls
    /\ chosen # NoData /\ runCount < MaxRuns
    /\ runCount' = runCount + 1
    /\ runs' = Abort(runs, abortRef)
        \cup {[n |-> runCount + 1, stage |-> "sent", aborted |-> FALSE, file |-> chosen]}
    /\ abortRef' = runCount + 1
    /\ training' = TRUE
    /\ result' = 0
    /\ UNCHANGED <<chosen, task, modelType, trainedOn, jobVars, predictVars>>

CancelTrain ==
    /\ "stop" \in TrainControls /\ abortRef # 0
    /\ runs' = Abort(runs, abortRef)
    /\ UNCHANGED <<chosen, task, modelType, runCount, abortRef, training, result, trainedOn,
                   jobVars, predictVars>>

\* The poll effect: its cleanup makes the polls in flight stale, then a null
\* id clears the line and any other is polled at once, with a token.
Tick(j) == [job |-> j, live |-> TRUE, over |-> FALSE, read |-> FALSE]

Stale(S) == {[t EXCEPT !.live = FALSE] : t \in S}

WatchJob(j) ==
    /\ poll' = j
    /\ IF j = poll
       THEN UNCHANGED <<line, ticks>>
       ELSE /\ line' = IF j # 0 /\ signedIn THEN line ELSE NoLine
            /\ ticks' = Stale(ticks) \cup (IF j # 0 /\ signedIn THEN {Tick(j)} ELSE {})

\* The server trained at once: the lists are reloaded before the handler ends.
TrainAnswered(r) ==
    /\ r.stage = "sent" /\ ~r.aborted
    /\ result' = r.n
    /\ trainedOn' = [trainedOn EXCEPT ![r.n] = r.file]
    /\ runs' = (runs \ {r}) \cup {[r EXCEPT !.stage = "reloading"]}
    /\ UNCHANGED <<chosen, task, modelType, runCount, abortRef, training,
                   jobVars, predictVars>>

\* Or it queued a job, which is polled from now on.
TrainQueued(r) ==
    /\ r.stage = "sent" /\ ~r.aborted
    /\ WatchJob(r.n)
    /\ newestJob' = r.n /\ cutOff' = FALSE
    /\ runs' = (runs \ {r}) \cup {[r EXCEPT !.stage = "queued"]}
    /\ UNCHANGED <<chosen, task, modelType, runCount, abortRef, training, result, trainedOn,
                   signedIn, jobOver, predictVars>>

\* The reloads are there, or the request failed or was aborted. A run with a
\* result proposes its model, and the file it was started with, to predict.
TrainEnds(r) ==
    /\ runs' = runs \ {r}
    /\ predictOn' = IF r.stage = "reloading" THEN [model |-> r.n, file |-> r.file]
                                             ELSE predictOn
    /\ abortRef' = 0 /\ training' = FALSE
    /\ UNCHANGED <<chosen, task, modelType, runCount, result, trainedOn,
                   jobVars, predicting>>

-----------------------------------------------------------------------------
(* The queued job.                                                         *)

JobEnds(j) ==
    /\ j \in {poll, newestJob} \ {0} /\ j \notin jobOver
    /\ jobOver' = jobOver \cup {j}
    /\ UNCHANGED <<signedIn, newestJob, poll, line, ticks, cutOff, trainVars, predictVars>>

\* Every 2.8 s, whether or not the last poll was answered.
TickAgain ==
    /\ poll # 0 /\ signedIn
    /\ Cardinality(ticks) < MaxTicks
    /\ ticks' = ticks \cup {Tick(poll)}
    /\ UNCHANGED <<signedIn, jobOver, newestJob, poll, line, cutOff, trainVars, predictVars>>

TickRead(t) ==
    /\ ~t.read
    /\ ticks' = (ticks \ {t}) \cup {[t EXCEPT !.read = TRUE, !.over = t.job \in jobOver]}
    /\ UNCHANGED <<signedIn, jobOver, newestJob, poll, line, cutOff, trainVars, predictVars>>

\* A stale answer does not show, but one that tells the end stops the polling
\* of whatever job is polled by now; and the poll's end takes the line away.
TickArrives(t) ==
    /\ t.read
    /\ IF t.over
       THEN /\ poll' = 0 /\ line' = IF poll = 0 THEN line ELSE NoLine
            /\ ticks' = Stale(ticks \ {t})
       ELSE /\ UNCHANGED poll
            /\ line' = IF t.live THEN [job |-> t.job, over |-> FALSE] ELSE line
            /\ ticks' = ticks \ {t}
    /\ cutOff' = (cutOff \/ (t.over /\ t.job # newestJob))
    /\ UNCHANGED <<signedIn, jobOver, newestJob, trainVars, predictVars>>

TickFails(t) ==
    /\ ticks' = ticks \ {t}
    /\ UNCHANGED <<signedIn, jobOver, newestJob, poll, line, cutOff, trainVars, predictVars>>

\* Signing out ends the poll and clears the line but keeps the id; signing in
\* takes the poll up again.
SignInOrOut ==
    /\ signedIn' = ~signedIn
    /\ line' = IF signedIn THEN NoLine ELSE line
    /\ ticks' = Stale(ticks) \cup (IF ~signedIn /\ poll # 0 THEN {Tick(poll)} ELSE {})
    /\ UNCHANGED <<jobOver, newestJob, poll, cutOff, trainVars, predictVars>>

-----------------------------------------------------------------------------
ChoosePrediction ==
    /\ {"model", "file"} \subseteq PredictControls
    /\ \E n \in KnownModels, f \in DataFiles :
        predictOn' \in {[predictOn EXCEPT !.model = n], [predictOn EXCEPT !.file = f]}
    /\ predictOn' # predictOn
    /\ UNCHANGED <<predicting, trainVars, jobVars>>

RunPredict ==
    /\ "predict" \in PredictControls
    /\ predictOn.model # 0 /\ predictOn.file # NoData
    /\ predicting' = TRUE
    /\ UNCHANGED <<predictOn, trainVars, jobVars>>

PredictEnds ==
    /\ predicting
    /\ predicting' = FALSE
    /\ UNCHANGED <<predictOn, trainVars, jobVars>>

\* The choice of the model touches nothing else of the pages.
TaskNext ==
    \/ \E t \in DOMAIN ModelsOf : ChooseTask(t)
    \/ \E m \in ModelsFor(task) : ChooseModel(m)

WorkNext ==
    \/ \E f \in DataFiles \cup {NoData} : Choose(f)
    \/ TrainRefused \/ RunTrain \/ CancelTrain
    \/ \E r \in runs : TrainAnswered(r) \/ TrainQueued(r) \/ TrainEnds(r)
    \/ \E j \in RunIds : JobEnds(j)
    \/ TickAgain \/ SignInOrOut
    \/ \E t \in ticks : TickRead(t) \/ TickArrives(t) \/ TickFails(t)
    \/ ChoosePrediction \/ RunPredict \/ PredictEnds

RunNext == TaskNext \/ WorkNext

RunSpec == RunInit /\ [][RunNext]_runVars

-----------------------------------------------------------------------------
RunTypeOK ==
    /\ chosen \in DataFiles \cup {NoData}
    /\ task \in DOMAIN ModelsOf /\ modelType \in ModelsFor(task)
    /\ runs \subseteq [n : RunIds, stage : {"sent", "reloading", "queued"},
                       aborted : BOOLEAN, file : DataFiles]
    /\ runCount \in 0..MaxRuns /\ abortRef \in 0..MaxRuns /\ result \in 0..MaxRuns
    /\ training \in BOOLEAN /\ predicting \in BOOLEAN /\ signedIn \in BOOLEAN
    /\ trainedOn \in [RunIds -> DataFiles \cup {NoData}]
    /\ predictOn \in [model : 0..MaxRuns, file : DataFiles \cup {NoData}]
    /\ jobOver \subseteq RunIds /\ newestJob \in 0..MaxRuns /\ poll \in 0..MaxRuns
    /\ line \in [job : 0..MaxRuns, over : BOOLEAN] /\ cutOff \in BOOLEAN
    /\ ticks \subseteq [job : RunIds, live : BOOLEAN, over : BOOLEAN, read : BOOLEAN]

\* The page is busy, and offers Stop, exactly while a training is waited for,
\* and the result shown is one of the last run started, never of a run that
\* was aborted or superseded.
ResultOfLastRun ==
    /\ training <=> runs # {}
    /\ result \in {0, runCount}

\* The newest queued job is polled until it has ended, unless the end of an
\* older job, told by a poll of before, stopped the polling for both; and the
\* line under the buttons is there only while a job is polled.
NewestJobIsWatched ==
    /\ newestJob # 0 /\ newestJob \notin jobOver /\ ~cutOff => poll = newestJob
    /\ line # NoLine => poll # 0

=============================================================================
