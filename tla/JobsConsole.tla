---------------------------- MODULE JobsConsole ----------------------------
(***************************************************************************)
(* JobsPage.jsx: the table of the server's jobs and the dialog that shows  *)
(* the log of one. The table is what App.jsx last loaded; the log is what  *)
(* the last answer brought, whichever job it was asked for.                *)
(***************************************************************************)
EXTENDS Naturals, Sequences, SequencesExt

CONSTANTS
    FirstJobs,     \* the jobs that exist at the beginning
    RetryJobs,     \* the jobs retries may create
    NoJob,
    MaxLogAsks     \* bound: log requests in flight when one more is made

ASSUME ConsoleAssumption ==
    /\ FirstJobs \cap RetryJobs = {} /\ NoJob \notin FirstJobs \cup RetryJobs
    /\ MaxLogAsks \in Nat \ {0}

VARIABLES
    status,     \* server: the jobs and their status
    table,      \* jobs: what was last loaded of it
    focus,      \* focusJobId, from the history page
    openLog,    \* logModalJobId
    logOf,      \* logs: the job they belong to, NoJob when there are none
    logLoading, \* loadingLogs
    logAsks,    \* the log requests in flight, in the order they were sent
    acting,     \* the cancel or retry handler, its job and its stage
    newestLog   \* history: what became of the newest log request

consoleVars == <<status, table, focus, openLog, logOf, logLoading, logAsks, acting, newestLog>>

JobIds == FirstJobs \cup RetryJobs
Statuses == {"queued", "running", "completed", "failed", "cancelled", "recovered"}
NoAct == [kind |-> "none", job |-> NoJob, saw |-> NoJob, stage |-> 0]

\* What a row offers.
RowButtons(j) ==
    {b \in {"log", "cancel", "retry"} :
        /\ j \in DOMAIN table
        /\ b = "cancel" => table[j] \in {"queued", "running"}
        /\ b = "retry" => table[j] \in {"failed", "cancelled", "recovered"}}

\* The dialog, with the job's row or a note that it is gone from the table.
DialogParts ==
    {p \in {"status", "gone note", "refresh", "close", "loading", "log"} :
        /\ openLog # NoJob
        /\ p = "status" => openLog \in DOMAIN table
        /\ p = "gone note" => openLog \notin DOMAIN table
        /\ p = "loading" => logLoading
        /\ p = "log" => ~logLoading /\ logOf # NoJob}

-----------------------------------------------------------------------------
ConsoleInit ==
    /\ status \in [FirstJobs -> {"queued", "running", "failed"}]
    /\ table = << >>
    /\ focus = NoJob /\ openLog = NoJob /\ logOf = NoJob /\ logLoading = FALSE
    /\ logAsks = <<>> /\ acting = NoAct /\ newestLog = "none"

\* fetchLogs. A log asked for that is not the open job's (a cancel asks for the
\* log that was open when it was clicked) is lost from the beginning.
FetchLogs(j) ==
    /\ logLoading' = TRUE
    /\ logAsks' = Append(logAsks, j)
    /\ newestLog' = IF j = openLog' THEN "pending" ELSE "lost"

\* The list arrives. The effect on [focusJobId, jobs] then opens the log of
\* the focused job, once more with every new list.
TableArrives ==
    /\ table' = status
    /\ IF focus \in DOMAIN status
       THEN openLog' = focus /\ FetchLogs(focus)
       ELSE UNCHANGED <<openLog, logLoading, logAsks, newestLog>>

LoadJobs ==
    /\ Len(logAsks) < MaxLogAsks
    /\ TableArrives
    /\ UNCHANGED <<status, focus, logOf, acting>>

\* loadJobs fails: the table is empty.
LoadJobsFails ==
    /\ table' = << >>
    /\ UNCHANGED <<status, focus, openLog, logOf, logLoading, logAsks, acting, newestLog>>

\* From the history page, for a job of the table or of an older run.
FocusJob(j) ==
    /\ Len(logAsks) < MaxLogAsks /\ j # focus
    /\ focus' = j
    /\ IF j \in DOMAIN table
       THEN openLog' = j /\ FetchLogs(j)
       ELSE UNCHANGED <<openLog, logLoading, logAsks, newestLog>>
    /\ UNCHANGED <<status, table, logOf, acting>>

OpenLog(j) ==
    /\ "log" \in RowButtons(j) /\ Len(logAsks) < MaxLogAsks
    /\ openLog' = j
    /\ FetchLogs(j)
    /\ UNCHANGED <<status, table, focus, logOf, acting>>

RefreshLog ==
    /\ "refresh" \in DialogParts /\ Len(logAsks) < MaxLogAsks
    /\ UNCHANGED openLog
    /\ FetchLogs(openLog)
    /\ UNCHANGED <<status, table, focus, logOf, acting>>

\* The Close button and the backdrop empty the log; Escape does not.
CloseLog ==
    /\ "close" \in DialogParts
    /\ openLog' = NoJob
    /\ logOf' \in {NoJob, logOf}
    /\ UNCHANGED <<status, table, focus, logLoading, logAsks, acting, newestLog>>

\* An answer shows whatever it was asked for; a failure empties the log.
LogArrives(i) ==
    /\ logOf' \in {logAsks[i], NoJob}
    /\ logLoading' = FALSE
    /\ newestLog' = IF newestLog = "pending"
                    THEN IF i = Len(logAsks) THEN "shown" ELSE "pending"
                    ELSE "lost"
    /\ logAsks' = RemoveAt(logAsks, i)
    /\ UNCHANGED <<status, table, focus, openLog, acting>>

-----------------------------------------------------------------------------
(* Cancel and retry: the request, a reload of the table, then the log.     *)

Act(kind, j) ==
    /\ kind \in RowButtons(j) /\ acting = NoAct
    /\ acting' = [kind |-> kind, job |-> j, saw |-> openLog, stage |-> 1]
    /\ UNCHANGED <<status, table, focus, openLog, logOf, logLoading, logAsks, newestLog>>

\* The server cancels an active job and retries a stopped one (JobRegistry
\* has the details), and refuses what is no longer so.
ServerActs ==
    /\ acting.stage = 1
    /\ \/ /\ acting.kind = "cancel" /\ status[acting.job] \in {"queued", "running"}
          /\ status' = [status EXCEPT ![acting.job] = "cancelled"]
          /\ acting' = [acting EXCEPT !.stage = 2]
       \/ /\ acting.kind = "retry"
          /\ status[acting.job] \in {"failed", "cancelled", "recovered"}
          /\ \E n \in RetryJobs \ DOMAIN status :
                /\ status' = [j \in DOMAIN status \cup {n} |->
                                 IF j = n THEN "queued" ELSE status[j]]
                /\ acting' = [acting EXCEPT !.stage = 2, !.job = n]
       \/ UNCHANGED status /\ acting' = NoAct
    /\ UNCHANGED <<table, focus, openLog, logOf, logLoading, logAsks, newestLog>>

ActReloads ==
    /\ acting.stage = 2
    /\ TableArrives
    /\ acting' = [acting EXCEPT !.stage = 3]
    /\ UNCHANGED <<status, focus, logOf>>

\* A retry opens the log of the new job; a cancel asks again for the log that
\* was open when it was clicked, which another may have replaced.
ActShows ==
    /\ acting.stage = 3
    /\ acting' = NoAct
    /\ CASE acting.kind = "retry" -> openLog' = acting.job /\ FetchLogs(acting.job)
         [] acting.kind = "cancel" /\ acting.saw = acting.job ->
                UNCHANGED openLog /\ FetchLogs(acting.job)
         [] OTHER -> UNCHANGED <<openLog, logLoading, logAsks, newestLog>>
    /\ UNCHANGED <<status, table, focus, logOf>>

\* The workers of the server.
JobAdvances(j) ==
    /\ status[j] \in {"queued", "running"}
    /\ status' = [status EXCEPT ![j] =
                     IF @ = "queued" THEN "running" ELSE "completed"]
    /\ UNCHANGED <<table, focus, openLog, logOf, logLoading, logAsks, acting, newestLog>>

\* What happens while the user cancels or retries what kinds tells.
ConsoleStep(kinds) ==
    \/ LoadJobs \/ LoadJobsFails \/ RefreshLog \/ CloseLog
    \/ \E j \in JobIds : FocusJob(j) \/ OpenLog(j)
    \/ \E i \in DOMAIN logAsks : LogArrives(i)
    \/ \E kind \in kinds, j \in JobIds : Act(kind, j)
    \/ ServerActs \/ ActReloads \/ ActShows
    \/ \E j \in DOMAIN status : JobAdvances(j)

ConsoleNext == ConsoleStep({"cancel", "retry"})

ConsoleSpec == ConsoleInit /\ [][ConsoleNext]_consoleVars

-----------------------------------------------------------------------------
ConsoleTypeOK ==
    /\ DOMAIN status \subseteq JobIds /\ \A j \in DOMAIN status : status[j] \in Statuses
    /\ DOMAIN table \subseteq JobIds
    /\ {focus, openLog, logOf} \subseteq JobIds \cup {NoJob}
    /\ logLoading \in BOOLEAN /\ newestLog \in {"none", "pending", "shown", "lost"}
    /\ \A i \in DOMAIN logAsks : logAsks[i] \in JobIds
    /\ acting \in [kind : {"none", "cancel", "retry"}, job : JobIds \cup {NoJob},
                   saw : JobIds \cup {NoJob}, stage : 0..3]

\* Once the newest log request was answered, and no older answer came after it,
\* the log in the dialog is one of the job the dialog names: every way to
\* another job asks for that job's log. What the code does not promise: an older
\* answer that comes later replaces the log, and so does a cancel that asks for
\* the log of a job no longer open.
LogIsOfOpenJob ==
    openLog # NoJob /\ "log" \in DialogParts /\ newestLog = "shown" => logOf = openLog

=============================================================================
