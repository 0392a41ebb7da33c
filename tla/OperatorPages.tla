---------------------------- MODULE OperatorPages ----------------------------
(***************************************************************************)
(* Three pages that ask the server on their own: the preview of a report   *)
(* (ReportsPage.jsx), the probe of a runtime (SystemStatusPage.jsx) and    *)
(* the forms of the experiment platform (ExperimentsPlatformPage.jsx). An  *)
(* answer is put where the page is by then, whoever asked for it.          *)
(***************************************************************************)
EXTENDS Naturals, FiniteSets

CONSTANTS
    Reports,      \* the files of reports
    NoReport,
    MaxPageAsks   \* bound: requests of a page

ASSUME PagesAssumption == NoReport \notin Reports /\ MaxPageAsks \in Nat

VARIABLES
    previewName, \* previewFilename
    previewData, \* the file whose content is kept, if any
    previewErr, previewLoading,
    previewAsks, \* requests under way: what each is for
    previewMixed \* history: the content of another report came since this one was opened

reportVars == <<previewName, previewData, previewErr, previewLoading, previewAsks, previewMixed>>

ReportsInit ==
    /\ previewName = NoReport /\ previewData = NoReport
    /\ previewErr = FALSE /\ previewLoading = FALSE
    /\ previewAsks = <<>> /\ previewMixed = FALSE

OpenPreview_KeepsData(f) ==
    /\ previewName = NoReport
    /\ \E q \in 1 .. MaxPageAsks :
          /\ q \notin DOMAIN previewAsks
          /\ \A p \in 1 .. q - 1 : p \in DOMAIN previewAsks
          /\ previewAsks' = [p \in DOMAIN previewAsks \cup {q} |-> IF p = q THEN f ELSE previewAsks[p]]
    /\ previewMixed' = FALSE
    /\ previewName' = f /\ previewErr' = FALSE /\ previewLoading' = TRUE
    /\ UNCHANGED previewData

\* The preview covers the page: another is opened once it is closed. The
\* button of a report whose answer is awaited is free again by then.
OpenPreview(f) ==
    /\ previewName = NoReport
    /\ \E q \in 1 .. MaxPageAsks :
          /\ q \notin DOMAIN previewAsks
          /\ \A p \in 1 .. q - 1 : p \in DOMAIN previewAsks
          /\ previewAsks' = [p \in DOMAIN previewAsks \cup {q} |-> IF p = q THEN f ELSE previewAsks[p]]
    /\ previewMixed' = FALSE
    /\ previewName' = f /\ previewData' = NoReport /\ previewErr' = FALSE /\ previewLoading' = TRUE

PreviewAnswers(q, ok) ==
    /\ previewAsks' = [p \in DOMAIN previewAsks \ {q} |-> previewAsks[p]]
    /\ IF ok THEN previewData' = previewAsks[q] /\ UNCHANGED previewErr
             ELSE previewErr' = TRUE /\ UNCHANGED previewData
    /\ previewLoading' = FALSE
    /\ previewMixed' = (previewMixed \/ (ok /\ previewAsks[q] # previewName))
    /\ UNCHANGED previewName

\* The button, a click beside the preview, or Escape.
ClosePreview ==
    /\ previewName # NoReport
    /\ previewName' = NoReport /\ previewData' = NoReport
    /\ previewErr' = FALSE /\ previewLoading' = FALSE
    /\ UNCHANGED <<previewAsks, previewMixed>>

\* What is awaited when the page is left is not seen.
LeaveReports ==
    /\ previewName = NoReport /\ previewAsks # <<>>
    /\ previewAsks' = <<>>
    /\ UNCHANGED <<previewName, previewData, previewErr, previewLoading, previewMixed>>

ReportsNext ==
    \/ ClosePreview \/ LeaveReports
    \/ \E f \in Reports : OpenPreview(f)
    \/ \E q \in DOMAIN previewAsks, ok \in BOOLEAN : PreviewAnswers(q, ok)

\* The content below a report's name is that report's, whatever was opened,
\* closed and answered before, until an answer for another report comes, which
\* the page shows all the same.
PreviewShown == previewName # NoReport /\ ~previewLoading /\ previewData # NoReport
PreviewIsOfNamed == PreviewShown /\ ~previewMixed => previewData = previewName

-----------------------------------------------------------------------------
\* The probe: a job is dispatched to the chosen runtime, then its state is
\* asked for, then the runtimes are loaded again.
VARIABLES
    runtime,     \* selectedRuntime, kept by the browser
    probeStep,   \* "idle", "dispatch" or "status"
    probeJob,    \* the job dispatched last
    probeSaid,   \* the job the message names; 0 for none, an error has no job
    probeShown,  \* the job whose state is shown
    systemAsked  \* history: onRefresh was called for that many jobs

probeVars == <<runtime, probeStep, probeJob, probeSaid, probeShown, systemAsked>>

Runtimes == {"local", "lab", "cloud"}

ProbeInit ==
    /\ runtime = "local" /\ probeStep = "idle" /\ probeJob = 0
    /\ probeSaid = 0 /\ probeShown = 0 /\ systemAsked = 0

ChooseRuntime(r) ==
    /\ runtime' = r /\ r # runtime
    /\ UNCHANGED <<probeStep, probeJob, probeSaid, probeShown, systemAsked>>

DispatchProbe ==
    /\ probeStep = "idle" /\ probeJob < MaxPageAsks
    /\ probeStep' = "dispatch" /\ probeSaid' = 0
    /\ UNCHANGED <<runtime, probeJob, probeShown, systemAsked>>

ProbeAnswers ==
    \/ /\ probeStep = "dispatch"
       /\ probeStep' = "status"
       /\ probeJob' = probeJob + 1 /\ probeSaid' = probeJob'
       /\ UNCHANGED <<runtime, probeShown, systemAsked>>
    \/ /\ probeStep = "status"
       /\ probeStep' = "idle"
       /\ probeShown' = probeJob /\ systemAsked' = systemAsked + 1
       /\ UNCHANGED <<runtime, probeJob, probeSaid>>

\* Either request may fail; the error takes the message's place and the state
\* shown stays an earlier job's.
ProbeFails ==
    /\ probeStep # "idle" /\ probeStep' = "idle"
    /\ probeSaid' = 0
    /\ UNCHANGED <<runtime, probeJob, probeShown, systemAsked>>

\* What is awaited then is not seen.
LeaveSystem ==
    /\ probeStep # "idle" \/ {probeSaid, probeShown} # {0}
    /\ probeStep' = "idle" /\ probeSaid' = 0 /\ probeShown' = 0
    /\ UNCHANGED <<runtime, probeJob, systemAsked>>

ProbeNext ==
    \/ DispatchProbe \/ ProbeAnswers \/ ProbeFails \/ LeaveSystem
    \/ \E r \in Runtimes : ChooseRuntime(r)

\* Once the probe is over, the state below the message is of the job it names.
ProbeIsNamed == probeStep = "idle" /\ probeSaid # 0 => probeShown = probeSaid

-----------------------------------------------------------------------------
\* The forms share one error and one message.
VARIABLES
    formAsks,    \* the requests under way, each with the form it is of
    formDone,    \* requests made
    formErr, formMsg, \* the form each is of, or "none"
    formNewest,  \* the form used last
    formMixed    \* history: a form was used while another was awaited

formVars == <<formAsks, formDone, formErr, formMsg, formNewest, formMixed>>

PlatformForms == {"compare", "lineage", "registry", "tag", "sweep", "score", "llm", "submit"}
Parsing == {"sweep", "llm", "score"}          \* the forms that parse what was typed first
FormLists == {"benchmarks", "leaderboard"}       \* what is loaded without feedback when it goes well

PlatformInit ==
    /\ formAsks = {} /\ formDone = 0 /\ formErr = "none" /\ formMsg = "none"
    /\ formNewest = "none" /\ formMixed = FALSE

\* clearFeedback; JSON that does not parse is an error at once.
UseForm(f, parses) ==
    /\ f \in Parsing \/ parses
    /\ formDone < MaxPageAsks /\ formDone' = formDone + 1
    /\ formMsg' = "none" /\ formErr' = IF parses THEN "none" ELSE f
    /\ formAsks' = IF parses THEN formAsks \cup {<<formDone', f>>} ELSE formAsks
    /\ formNewest' = f /\ formMixed' = (formAsks # {})

FormAnswers(q, ok) ==
    /\ formMsg' = IF ok /\ q[2] \in PlatformForms THEN q[2] ELSE formMsg
    /\ formErr' = IF ok \/ q[2] = "benchmarks" THEN formErr ELSE q[2]
    /\ formAsks' = (formAsks \ {q}) \cup (IF ok /\ q[2] = "submit" THEN {<<q[1], "leaderboard">>} ELSE {})
    /\ UNCHANGED <<formDone, formNewest, formMixed>>

\* The lists' buttons clear nothing.
LoadFormList(l) ==
    /\ formDone < MaxPageAsks /\ formDone' = formDone + 1
    /\ formAsks' = formAsks \cup {<<formDone', l>>}
    /\ formMixed' = (formMixed \/ formAsks # {})
    /\ UNCHANGED <<formErr, formMsg, formNewest>>

PlatformNext ==
    \/ \E f \in PlatformForms, parses \in BOOLEAN : UseForm(f, parses)
    \/ \E q \in formAsks, ok \in BOOLEAN : FormAnswers(q, ok)
    \/ \E l \in FormLists : LoadFormList(l)

\* PlatformForms used one after another: what is said is of the last one, a success or
\* an error but not both, and something is said once it is over. A list's
\* failure may be said beside it.
VerdictIsOfLast ==
    ~formMixed /\ formNewest # "none" =>
        /\ formMsg \in {"none", formNewest} /\ formErr \in {"none", formNewest, "leaderboard"}
        /\ formMsg # "none" => formErr # formNewest
        /\ formAsks = {} => formMsg # "none" \/ formErr # "none"

-----------------------------------------------------------------------------
PagesTypeOK ==
    /\ {previewName, previewData} \subseteq Reports \cup {NoReport}
    /\ {previewErr, previewLoading, previewMixed, formMixed} \subseteq BOOLEAN
    /\ \A q \in DOMAIN previewAsks : q \in 1 .. MaxPageAsks /\ previewAsks[q] \in Reports
    /\ runtime \in Runtimes /\ probeStep \in {"idle", "dispatch", "status"}
    /\ {probeSaid, probeShown, systemAsked} \subseteq 0 .. probeJob
    /\ \A q \in formAsks : q[1] \in 1 .. formDone /\ q[2] \in PlatformForms \cup FormLists
=============================================================================
