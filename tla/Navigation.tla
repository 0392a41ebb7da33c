----------------------------- MODULE Navigation -----------------------------
(***************************************************************************)
(* Which page of the browser application is open and what it shows: the    *)
(* state of App.jsx that routing is made of (there is no router; a string, *)
(* currentPage, and two flags decide everything).                          *)
(*                                                                         *)
(* The interesting part is that a page is opened by three kinds of actors: *)
(* the user, through whatever the present screen offers; a request started *)
(* earlier, whose answer moves the user to its results; and the session,   *)
(* which may end at any moment.                                            *)
(***************************************************************************)
EXTENDS Naturals, FiniteSets

VARIABLES
    session,       \* see Sessions
    authView,      \* the form a guest sees: "login" or "register"
    page,          \* currentPage
    workflowOpen,  \* experimentWorkflowOpen
    entryOpen,     \* experimentEntryOpen: the dialog "continue or new project"
    awaiting,      \* requests in flight whose answer opens a page
    modal          \* the dialog above the page, if any

navVars == <<session, authView, page, workflowOpen, entryOpen, awaiting, modal>>

\* restoring: a token is being checked; unconfirmed: the check failed for
\* another reason than a refusal, the token is kept and tried again.
Sessions == {"guest", "restoring", "unconfirmed", "member", "operator"}

-----------------------------------------------------------------------------
(* The workflow: six steps, each with a page it opens at.                   *)

DefaultPage == [step1 |-> "aichat", step2 |-> "upload", step3 |-> "train",
                step4 |-> "predict", step5 |-> "history", step6 |-> "reports"]

StepOfPage ==
    [aichat |-> "step1", projects |-> "step1", upload |-> "step2",
     datasets_catalog |-> "step2", preview |-> "step2", notebook |-> "step2",
     train |-> "step3", predict |-> "step4", results |-> "step4",
     jobs |-> "step4", experiments |-> "step4", history |-> "step5",
     reports |-> "step6"]

SubPages ==
    [step1 |-> {"projects", "aichat"},
     step2 |-> {"upload", "datasets_catalog", "preview", "notebook"},
     step3 |-> {"train"},
     step4 |-> {"predict", "results", "jobs", "experiments"},
     step5 |-> {"history"}, step6 |-> {"reports"}]

IsWorkflowPage(p) == p \in DOMAIN StepOfPage

OperatorPages == {"artifacts", "monitor", "admin"}

Pages == DOMAIN StepOfPage \cup OperatorPages
            \cup {"home", "dashboard", "system", "knowledge"}

-----------------------------------------------------------------------------
Authenticated == session \in {"member", "operator"}

ExperimentShell == Authenticated /\ workflowOpen /\ IsWorkflowPage(page)

ActiveStep == IF Authenticated /\ workflowOpen /\ IsWorkflowPage(page)
              THEN {StepOfPage[page]} ELSE {}

\* The top strip hides when the experiment page brings its own top bar.
StripShown == /\ Authenticated
              /\ ~ExperimentShell
              /\ workflowOpen \/ entryOpen \/ IsWorkflowPage(page)

\* What a guest is shown instead of a page.
GuestPanels ==
    {x \in {"auth form", "login required"} :
        /\ ~Authenticated
        /\ x = "auth form" => page \in {"dashboard", "home"} /\ session # "restoring"
        /\ x = "login required" => page # "dashboard"}

StandAlonePanels_InShellToo ==
    {p \in DOMAIN StepOfPage : Authenticated /\ page = p}

\* The pages of the workflow stand alone only outside the experiment shell.
StandAlonePanels ==
    {p \in DOMAIN StepOfPage : Authenticated /\ page = p /\ ~ExperimentShell}

\* Pages outside the workflow; three of them are for operators.
PlatformPanels ==
    {p \in Pages \ DOMAIN StepOfPage :
        /\ Authenticated /\ page = p
        /\ p \in OperatorPages => session = "operator"}

MainPanels == StandAlonePanels \cup PlatformPanels
                 \cup (IF ExperimentShell THEN {"experiment"} ELSE {})

-----------------------------------------------------------------------------
NavInit ==
    /\ session \in {"guest", "restoring"}   \* a token was stored, or not
    /\ authView = "login"
    /\ page = "home"
    /\ workflowOpen = FALSE
    /\ entryOpen = FALSE
    /\ awaiting = {}
    /\ modal = "none"

SwitchAuthView ==
    /\ "auth form" \in GuestPanels
    /\ authView' = IF authView = "login" THEN "register" ELSE "login"
    /\ UNCHANGED <<session, page, workflowOpen, entryOpen, awaiting, modal>>

\* The form stores a token, which is then checked like a stored one.
LogIn ==
    /\ "auth form" \in GuestPanels
    /\ session' = "restoring"
    /\ UNCHANGED <<authView, page, workflowOpen, entryOpen, awaiting, modal>>

Confirmed ==
    /\ session \in {"restoring", "unconfirmed"}
    /\ session' \in {"member", "operator"}
    /\ UNCHANGED <<authView, page, workflowOpen, entryOpen, awaiting, modal>>

NotConfirmed ==
    /\ session = "restoring"
    /\ session' = "unconfirmed"
    /\ UNCHANGED <<authView, page, workflowOpen, entryOpen, awaiting, modal>>

\* Logout, or a token refused: two effects then close the workspace and the
\* entry dialog. The page stays where it was.
SignOut ==
    /\ session # "guest"
    /\ session' = "guest"
    /\ workflowOpen' = FALSE
    /\ entryOpen' = FALSE
    /\ UNCHANGED <<authView, page, awaiting, modal>>

\* A tab of the header. The Experiment tab opens the entry dialog instead.
HeaderTab(p) ==
    /\ IF p # "projects"
       THEN page' = p /\ workflowOpen' = FALSE /\ UNCHANGED entryOpen
       ELSE IF Authenticated
            THEN page' = p /\ workflowOpen' = FALSE /\ entryOpen' = TRUE
            ELSE page' = "dashboard" /\ UNCHANGED <<workflowOpen, entryOpen>>
    /\ UNCHANGED <<session, authView, awaiting, modal>>

LoginRequired ==
    /\ "login required" \in GuestPanels
    /\ page' = "dashboard"
    /\ UNCHANGED <<session, authView, workflowOpen, entryOpen, awaiting, modal>>

\* The entry dialog: cancel, or open the workspace; New Project of the strip
\* opens it too (what becomes of the project is in ProjectSelection).
CloseEntry ==
    /\ Authenticated /\ entryOpen
    /\ entryOpen' = FALSE
    /\ UNCHANGED <<session, authView, page, workflowOpen, awaiting, modal>>

OpenWorkspace ==
    /\ Authenticated /\ (entryOpen \/ StripShown)
    /\ entryOpen' = FALSE
    /\ workflowOpen' = TRUE
    /\ page' = "projects"
    /\ UNCHANGED <<session, authView, awaiting, modal>>

\* A step of the workflow, from the strip's tabs or with Alt+1..6 in the
\* shell.
SelectStep(s) ==
    /\ StripShown \/ ExperimentShell
    /\ page' = DefaultPage[s]
    /\ UNCHANGED <<session, authView, workflowOpen, entryOpen, awaiting, modal>>

\* The other ways a screen offers to another page: the strip's sub-menu of
\* the active step, its Compare Runs and Export, and the buttons of History.
Offered ==
    (IF StripShown
        THEN {"experiments", "reports"} \cup UNION {SubPages[s] : s \in ActiveStep}
        ELSE {})
    \cup (IF "history" \in StandAlonePanels THEN {"jobs", "artifacts"} ELSE {})

OpenOffered ==
    /\ \E p \in Offered : page' = p
    /\ UNCHANGED <<session, authView, workflowOpen, entryOpen, awaiting, modal>>

\* Back to the main screen, from the strip or from the experiment page.
GoMain ==
    /\ StripShown \/ ExperimentShell
    /\ workflowOpen' = FALSE
    /\ page' = "dashboard"
    /\ UNCHANGED <<session, authView, entryOpen, awaiting, modal>>

StartWork(w) ==
    /\ w \in StandAlonePanels \ awaiting
    /\ awaiting' = awaiting \cup {w}
    /\ UNCHANGED <<session, authView, page, workflowOpen, entryOpen, modal>>

\* The answer: on success its handler opens the page of the result wherever
\* the user, or the next user, is by then.
WorkAnswered(w) ==
    /\ w \in awaiting
    /\ awaiting' = awaiting \ {w}
    /\ page' \in {page, IF w = "upload" THEN "preview" ELSE "results"}
    /\ UNCHANGED <<session, authView, workflowOpen, entryOpen, modal>>

OpenModal ==
    /\ modal = "none"
    /\ modal' \in {"architecture"}
            \cup (IF Authenticated THEN {"password"} ELSE {})
            \cup (IF Authenticated /\ page = "home" THEN {"admin panel"} ELSE {})
    /\ UNCHANGED <<session, authView, page, workflowOpen, entryOpen, awaiting>>

CloseModal ==
    /\ modal # "none"
    /\ modal' = "none"
    /\ UNCHANGED <<session, authView, page, workflowOpen, entryOpen, awaiting>>

NavNext ==
    \/ SwitchAuthView \/ LogIn \/ Confirmed \/ NotConfirmed \/ SignOut
    \/ \E p \in {"home", "dashboard", "projects", "system", "knowledge", "admin"} :
            HeaderTab(p)
    \/ LoginRequired \/ CloseEntry \/ OpenWorkspace
    \/ \E s \in DOMAIN DefaultPage : SelectStep(s)
    \/ OpenOffered \/ GoMain
    \/ \E w \in {"upload", "train", "predict"} : StartWork(w) \/ WorkAnswered(w)
    \/ OpenModal \/ CloseModal

NavSpec == NavInit /\ [][NavNext]_navVars

-----------------------------------------------------------------------------
NavTypeOK ==
    /\ session \in Sessions
    /\ authView \in {"login", "register"}
    /\ page \in Pages
    /\ workflowOpen \in BOOLEAN /\ entryOpen \in BOOLEAN
    /\ awaiting \subseteq {"upload", "train", "predict"}
    /\ modal \in {"none", "architecture", "password", "admin panel"}

\* A signed-in user sees exactly one main panel, whoever moved the page last:
\* never a blank screen, never the experiment page next to a stand-alone
\* page. The exception is a member on an operator's page, which the header
\* and the history both lead to and which renders nothing.
OneMainPanel ==
    Authenticated =>
        IF session = "member" /\ page \in OperatorPages
        THEN MainPanels = {}
        ELSE Cardinality(MainPanels) = 1

\* Nobody who is signed out has a workspace open behind the login form, so
\* that the next user does not enter the one the previous user left.
NoWorkspaceForGuests == ~Authenticated => ~workflowOpen /\ ~entryOpen

=============================================================================
