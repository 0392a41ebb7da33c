--------------------------- MODULE PagesProofs ---------------------------
(***************************************************************************)
(* Proofs about the pages of the browser application, for any files, tabs  *)
(* and users and any number of requests: of each part the invariant that   *)
(* its steps keep.  FrontendProofs concludes from them what holds of the   *)
(* application.                                                            *)
(***************************************************************************)
EXTENDS Connection, Navigation, Session, ActivityStore, ProjectBrief,
        TrainingDesk, Assistant, AdminDesk, FileLoad, TraceLog,
        NotebookFrame, AiChoice, ActivityGuide, DataGuide,
        FiniteSetTheorems, SequenceTheorems, TLAPS

-----------------------------------------------------------------------------
(* The connection: no probe and no enabled form without somewhere to go.    *)

ConnInv ==
    /\ failStreak \in Nat
    /\ Probing => Mounted /\ cloud # NoUrl
    /\ BannerIsFounded

LEMMA ConnInvInit == ConnInit => ConnInv
BY DEF ConnInit, ConnInv, Probing, BannerIsFounded

\* What Mounted and Proxied read never changes.
LEMMA SameBundle ==
    ASSUME UNCHANGED <<build, cloud>>
    PROVE  (Mounted <=> Mounted') /\ (Proxied <=> Proxied')
BY DEF Mounted, ConfigErrors, Proxied

LEMMA ConnInvStep ==
    ASSUME ConnInv, ConnNext \/ UNCHANGED connVars
    PROVE  ConnInv'
<1> USE DEF settings
<1>0. MaxFails \in Nat
  BY ConnectionAssumption
<1>1. CASE PollNext
  <2>1. UNCHANGED <<build, cloud, probe, apiReady>>
    BY <1>1 DEF PollNext, HealthOk, HealthFails, HealthAgain
  <2>2. (Mounted <=> Mounted') /\ (Proxied <=> Proxied') /\ (Probing <=> Probing')
    BY <2>1, SameBundle DEF Probing
  <2>3. failStreak' \in Nat /\ (~reachable' => failStreak' >= 2)
    <3>1. CASE HealthOk
      BY <3>1 DEF HealthOk
    <3>2. CASE HealthFails
      <4>1. failStreak' \in Nat /\ failStreak' >= failStreak
        BY <1>0, <3>2 DEF HealthFails, ConnInv
      <4>2. ~reachable' => ~reachable \/ ~(failStreak' < 2)
        BY <3>2 DEF HealthFails
      <4> QED
        BY <4>1, <4>2 DEF ConnInv, BannerIsFounded
    <3>3. CASE HealthAgain
      BY <3>3 DEF HealthAgain, ConnInv, BannerIsFounded
    <3> QED
      BY <1>1, <3>1, <3>2, <3>3 DEF PollNext
  <2> QED
    BY <2>1, <2>2, <2>3 DEF ConnInv, BannerIsFounded
<1>2. CASE FormNext
  <2>1. UNCHANGED <<build, cloud, failStreak, reachable>>
    BY <1>2 DEF FormNext, FormMounts, FormGoes, ProbeOk, ProbeRefused, ProbeUnanswered, ProbeAgain,
                ApiSend, ApiAnswers, ApiLost, ApiBody
  <2>2. (Mounted <=> Mounted') /\ (Proxied <=> Proxied')
    BY <2>1, SameBundle
  <2>3. CASE FormMounts
    <3>1. Mounted /\ (apiReady' => Proxied) /\ (Probing' => cloud # NoUrl)
      BY <2>3 DEF FormMounts, ProbeIs, Probing, Proxied
    <3> QED
      BY <2>1, <2>2, <3>1 DEF ConnInv, BannerIsFounded
  <2>4. CASE ~FormMounts
    <3>1. CASE FormGoes \/ ProbeOk \/ ProbeRefused \/ ProbeUnanswered \/ ProbeAgain
      <4>1. Probing /\ (apiReady' => apiReady \/ Probing)
        BY <3>1 DEF FormGoes, ProbeOk, ProbeRefused, ProbeUnanswered, ProbeAgain, Probing
      <4> QED
        BY <2>1, <2>2, <4>1 DEF ConnInv, BannerIsFounded
    <3>2. CASE ApiSend \/ ApiAnswers \/ ApiLost \/ ApiBody
      <4>1. UNCHANGED <<probe, apiReady>>
        BY <3>2 DEF ApiSend, ApiAnswers, ApiLost, ApiBody
      <4> QED
        BY <2>1, <2>2, <4>1 DEF ConnInv, BannerIsFounded, Probing
    <3> QED
      BY <1>2, <2>4, <3>1, <3>2 DEF FormNext
  <2> QED
    BY <2>3, <2>4
<1>3. CASE UNCHANGED connVars
  BY <1>3, SameBundle DEF connVars, ConnInv, BannerIsFounded, Probing
<1> QED
  BY <1>1, <1>2, <1>3 DEF ConnNext

-----------------------------------------------------------------------------
(* Navigation: one panel for every page, an empty workspace for guests.     *)

NavInv == NavTypeOK /\ NoWorkspaceForGuests

\* Every page a step or a menu leads to is one of the application's.
LEMMA WaysLeadToPages ==
    /\ DOMAIN DefaultPage = DOMAIN SubPages
    /\ \A s \in DOMAIN DefaultPage : DefaultPage[s] \in Pages /\ SubPages[s] \subseteq Pages
    /\ {"home", "dashboard", "projects", "system", "knowledge", "admin", "experiments", "reports",
        "jobs", "artifacts", "preview", "results"} \subseteq Pages
    /\ \A p \in DOMAIN StepOfPage : p \in Pages /\ StepOfPage[p] \in DOMAIN SubPages
BY DEF DefaultPage, SubPages, Pages, StepOfPage, OperatorPages

LEMMA OnePanel == ASSUME NavTypeOK PROVE OneMainPanel
<1> SUFFICES ASSUME Authenticated
             PROVE  IF session = "member" /\ page \in OperatorPages
                    THEN MainPanels = {} ELSE Cardinality(MainPanels) = 1
  BY DEF OneMainPanel
<1>1. DOMAIN StepOfPage \cap OperatorPages = {} /\ page \in Pages /\ session \in {"member", "operator"}
  BY DEF NavTypeOK, StepOfPage, OperatorPages, Authenticated
<1>2. CASE ExperimentShell
  <2>1. page \in DOMAIN StepOfPage
    BY <1>2 DEF ExperimentShell, IsWorkflowPage
  <2>2. StandAlonePanels = {} /\ PlatformPanels = {}
    BY <1>2, <2>1 DEF StandAlonePanels, PlatformPanels
  <2>3. MainPanels = {"experiment"}
    BY <1>2, <2>2 DEF MainPanels
  <2> QED
    BY <1>1, <2>1, <2>3, FS_Singleton
<1>3. CASE ~ExperimentShell /\ page \in DOMAIN StepOfPage
  <2>1. StandAlonePanels = {page} /\ PlatformPanels = {}
    BY <1>3 DEF StandAlonePanels, PlatformPanels
  <2>2. MainPanels = {page}
    BY <1>3, <2>1 DEF MainPanels
  <2> QED
    BY <1>1, <1>3, <2>2, FS_Singleton
<1>4. CASE page \notin DOMAIN StepOfPage
  <2>1. ~ExperimentShell /\ StandAlonePanels = {}
    BY <1>4 DEF ExperimentShell, IsWorkflowPage, StandAlonePanels
  <2>2. MainPanels = PlatformPanels
    BY <2>1 DEF MainPanels
  <2>3. CASE session = "member" /\ page \in OperatorPages
    <3>1. PlatformPanels = {}
      BY <2>3 DEF PlatformPanels
    <3> QED
      BY <2>2, <2>3, <3>1
  <2>4. CASE ~(session = "member" /\ page \in OperatorPages)
    <3>1. PlatformPanels = {page}
      BY <1>1, <1>4, <2>4 DEF PlatformPanels
    <3> QED
      BY <2>2, <2>4, <3>1, FS_Singleton
  <2> QED
    BY <2>3, <2>4
<1> QED
  BY <1>2, <1>3, <1>4

LEMMA NavInvInit == NavInit => NavInv
BY DEF NavInit, NavInv, NavTypeOK, NoWorkspaceForGuests, Sessions, Pages, StepOfPage

LEMMA NavInvStep ==
    ASSUME NavInv, NavNext \/ UNCHANGED navVars
    PROVE  NavInv'
<1> USE DEF NavInv, NavTypeOK, NoWorkspaceForGuests, Sessions, Authenticated
<1>1. CASE SwitchAuthView
  BY <1>1 DEF SwitchAuthView
<1>2. CASE LogIn
  <2>1. ~Authenticated
    BY <1>2 DEF LogIn, GuestPanels
  <2> QED
    BY <1>2, <2>1 DEF LogIn
<1>10. CASE Confirmed
  BY <1>10 DEF Confirmed
<1>11. CASE NotConfirmed
  BY <1>11 DEF NotConfirmed
<1>12. CASE SignOut
  BY <1>12 DEF SignOut
<1>3. ASSUME NEW p \in {"home", "dashboard", "projects", "system", "knowledge", "admin"}, HeaderTab(p)
      PROVE  NavInv'
  BY <1>3, WaysLeadToPages DEF HeaderTab
<1>4. CASE LoginRequired
  BY <1>4, WaysLeadToPages DEF LoginRequired
<1>13. CASE CloseEntry
  BY <1>13 DEF CloseEntry
<1>14. CASE OpenWorkspace
  BY <1>14, WaysLeadToPages DEF OpenWorkspace
<1>15. CASE GoMain
  BY <1>15, WaysLeadToPages DEF GoMain
<1>5. ASSUME NEW s \in DOMAIN DefaultPage, SelectStep(s)
      PROVE  NavInv'
  BY <1>5, WaysLeadToPages DEF SelectStep
<1>6. CASE OpenOffered
  <2>1. Offered \subseteq Pages
    BY WaysLeadToPages DEF Offered, ActiveStep, IsWorkflowPage
  <2> QED
    BY <1>6, <2>1 DEF OpenOffered
<1>7. ASSUME NEW w \in {"upload", "train", "predict"}, StartWork(w) \/ WorkAnswered(w)
      PROVE  NavInv'
  <2>1. page' \in Pages /\ awaiting' \subseteq {"upload", "train", "predict"}
    <3>1. CASE StartWork(w)
      BY <3>1 DEF StartWork
    <3>2. CASE WorkAnswered(w)
      <4>1. page' \in {page, "preview", "results"}
        BY <3>2 DEF WorkAnswered
      <4> QED
        BY <3>2, <4>1, WaysLeadToPages DEF WorkAnswered
    <3> QED
      BY <1>7, <3>1, <3>2
  <2>2. UNCHANGED <<session, authView, workflowOpen, entryOpen, modal>>
    BY <1>7 DEF StartWork, WorkAnswered
  <2> QED
    BY <2>1, <2>2
<1>8. CASE OpenModal \/ CloseModal
  <2>1. modal' \in {"none", "architecture", "password", "admin panel"}
    BY <1>8 DEF OpenModal, CloseModal
  <2>2. UNCHANGED <<session, authView, page, workflowOpen, entryOpen, awaiting>>
    BY <1>8 DEF OpenModal, CloseModal
  <2> QED
    BY <2>1, <2>2
<1>9. CASE UNCHANGED navVars
  BY <1>9 DEF navVars
<1> QED
  BY <1>1, <1>2, <1>3, <1>4, <1>5, <1>6, <1>7, <1>8, <1>9, <1>10, <1>11, <1>12, <1>13, <1>14, <1>15
     DEF NavNext

-----------------------------------------------------------------------------
(* The autosave of the experiment pages.                                    *)

StoreShape ==
    /\ open \in BOOLEAN /\ edits \in 0 .. MaxEdits /\ kept \in 0 .. MaxEdits
    /\ state \in [version : 0 .. MaxEdits, dirty : BOOLEAN]
    /\ rendered \in [version : 0 .. MaxEdits, dirty : BOOLEAN]
    /\ armed \in 0 .. NoTimer

\* The timer stores what the screen shows, and is set only while the page is
\* open and there is something to store.
TimerIsOfScreen == armed # NoTimer => open /\ armed = rendered.version /\ state.dirty

StoreInv == StoreShape /\ TimerIsOfScreen

LEMMA StoreInvInit == ASSUME StoreInit PROVE StoreInv
<1>1. 0 \in 0 .. MaxEdits /\ NoTimer \in 0 .. NoTimer
  BY StoreAssumption DEF NoTimer
<1>2. Hydrated(0) \in [version : 0 .. MaxEdits, dirty : BOOLEAN]
  BY <1>1 DEF Hydrated
<1> QED
  BY <1>1, <1>2 DEF StoreInit, StoreInv, StoreShape, TimerIsOfScreen

LEMMA StoreInvStep ==
    ASSUME StoreInv, StoreNext \/ UNCHANGED storeVars
    PROVE  StoreInv'
<1>0. /\ NoTimer = MaxEdits + 1 /\ MaxEdits \in Nat /\ NoTimer \in 0 .. NoTimer
      /\ \A n \in 0 .. MaxEdits : n \in 0 .. NoTimer
      /\ \A n \in 0 .. NoTimer : n # NoTimer => n \in 0 .. MaxEdits
  BY StoreAssumption DEF NoTimer
<1> USE <1>0 DEF StoreInv, StoreShape, TimerIsOfScreen
<1>1. CASE Edit
  BY <1>1 DEF Edit, RenderOf
<1>2. CASE AnswerEdits
  BY <1>2 DEF AnswerEdits
<1>3. CASE Render
  BY <1>3 DEF Render, RenderOf
<1>4. CASE TimerFires
  <2>1. CASE UNCHANGED <<kept, state>>
    BY <1>4, <2>1 DEF TimerFires
  <2>2. CASE kept' = armed /\ state' = [state EXCEPT !.dirty = FALSE]
    <3>1. state' \in [version : 0 .. MaxEdits, dirty : BOOLEAN]
      BY <2>2
    <3>2. kept' \in 0 .. MaxEdits /\ armed' = NoTimer
      BY <1>4, <2>2 DEF TimerFires
    <3> QED
      BY <1>4, <3>1, <3>2 DEF TimerFires
  <2> QED
    BY <1>4, <2>1, <2>2 DEF TimerFires
<1>5. CASE Leave
  BY <1>5 DEF Leave
<1>6. CASE Return
  BY <1>6 DEF Return, Hydrated
<1>7. CASE UNCHANGED storeVars
  BY <1>7 DEF storeVars
<1> QED
  BY <1>1, <1>2, <1>3, <1>4, <1>5, <1>6, <1>7 DEF StoreNext

\* A step after which the open page says that it is saved.
SavedStep ==
    (open /\ open' /\ ~state'.dirty) => kept' = IF state.dirty THEN rendered.version ELSE kept

LEMMA StoreStepSaves ==
    ASSUME StoreInv, StoreNext \/ UNCHANGED storeVars
    PROVE  SavedStep
<1> USE DEF StoreInv, StoreShape, TimerIsOfScreen, SavedStep
<1>1. CASE Edit \/ AnswerEdits
  <2>1. state'.dirty
    BY <1>1 DEF Edit, AnswerEdits, RenderOf
  <2> QED
    BY <2>1
<1>2. CASE Render
  BY <1>2 DEF Render, RenderOf
<1>3. CASE TimerFires
  <2>1. armed = rendered.version /\ state.dirty
    BY <1>3 DEF TimerFires
  <2>2. (kept' = armed \/ state' = state)
    BY <1>3 DEF TimerFires
  <2> QED
    BY <2>1, <2>2
<1>4. CASE Leave \/ Return
  BY <1>4 DEF Leave, Return
<1>5. CASE UNCHANGED storeVars
  BY <1>5 DEF storeVars
<1> QED
  BY <1>1, <1>2, <1>3, <1>4, <1>5 DEF StoreNext

-----------------------------------------------------------------------------
(* The brief of a project.  A form that is not on the screen says nothing   *)
(* of the autosave and reads no file.                                       *)

BriefShape ==
    /\ {mounted, timer, supplement, pending, analysis, suggesting, overtaken} \subseteq BOOLEAN
    /\ form \in Forms
    /\ draft \in Forms \cup {NoForm} /\ analyzing \in Forms \cup {NoForm}
    /\ refining \in Forms \cup {NoForm}
    /\ saveStatus \in {"idle", "typing", "saved", "error"}
    /\ registering \in {"idle", "creating", "refreshing"}
    /\ reading \in {"", "client", "server"}
    /\ gone \in [analyzing : Forms \cup {NoForm}, registering : BOOLEAN, suggesting : BOOLEAN]

AwayIsQuiet == ~mounted => saveStatus = "idle" /\ ~timer

BriefInv == BriefShape /\ AwayIsQuiet /\ SavedIsStored

LEMMA FormsAreForms ==
    /\ EmptyForm \in Forms /\ NoForm \notin Forms
    /\ \A f \in Forms :
        {[f EXCEPT !.title = "set"], [f EXCEPT !.title = ""], [f EXCEPT !.content = "typed"],
         [f EXCEPT !.content = ""], [f EXCEPT !.content = "more"]} \subseteq Forms
BY DEF Forms, EmptyForm, NoForm

\* What SetForm does to the form's word about the autosave.
FormIsSet(f) ==
    /\ form' = f /\ timer' \in BOOLEAN /\ saveStatus' \in {"idle", "typing", "saved", "error"}
    /\ ~mounted => saveStatus' = saveStatus
    /\ timer' => timer \/ mounted
    /\ saveStatus' = "saved" => saveStatus = "saved" /\ (mounted => f = form)

LEMMA SetFormEffect ==
    ASSUME BriefShape, NEW f, SetForm(f)
    PROVE  FormIsSet(f)
<1>1. CASE mounted /\ f # form
  BY <1>1 DEF SetForm, FormIsSet
<1>2. CASE ~(mounted /\ f # form)
  <2>1. form' = f /\ UNCHANGED <<timer, saveStatus>>
    BY <1>2 DEF SetForm
  <2>2. timer \in BOOLEAN /\ saveStatus \in {"idle", "typing", "saved", "error"}
    BY DEF BriefShape
  <2> QED
    BY <1>2, <2>1, <2>2 DEF FormIsSet
<1> QED
  BY <1>1, <1>2

LEMMA SetFormKeepsQuiet ==
    ASSUME AwayIsQuiet, NEW f, FormIsSet(f), mounted' = mounted
    PROVE  AwayIsQuiet'
BY DEF AwayIsQuiet, FormIsSet

\* A form that is set to something else no longer says that it is saved.
LEMMA SetFormKeepsSaved ==
    ASSUME AwayIsQuiet, SavedIsStored, NEW f, FormIsSet(f),
           overtaken' = overtaken, draft' = draft, supplement' = supplement
    PROVE  SavedIsStored'
BY DEF AwayIsQuiet, SavedIsStored, FormIsSet

\* What leaves the form, its word and the storage alone.
OnlyRequests == UNCHANGED <<mounted, form, timer, saveStatus, draft, supplement, overtaken>>

LEMMA RequestsKeepSaved ==
    ASSUME AwayIsQuiet, SavedIsStored, OnlyRequests
    PROVE  AwayIsQuiet' /\ SavedIsStored'
BY DEF AwayIsQuiet, SavedIsStored, OnlyRequests

LEMMA FirstReaderIsReader == \A kind \in DOMAIN FirstReader : FirstReader[kind] \in {"client", "server"}
BY DEF FirstReader

LEMMA BriefInvInit == ASSUME BriefInit PROVE BriefInv
<1>1. BriefShape
  <2>1. NoneGone \in [analyzing : Forms \cup {NoForm}, registering : BOOLEAN, suggesting : BOOLEAN]
    BY DEF NoneGone
  <2> QED
    BY <2>1, FormsAreForms DEF BriefInit, BriefShape
<1> QED
  BY <1>1 DEF BriefInit, BriefInv, AwayIsQuiet, SavedIsStored

\* The types, one action after the other.
LEMMA BriefShapeStep ==
    ASSUME BriefShape, BriefNext
    PROVE  BriefShape'
<1> USE FormsAreForms DEF BriefShape
<1>1. CASE Type
  <2>1. PICK f \in Forms : SetForm(f)
    BY <1>1 DEF Type
  <2>2. FormIsSet(f)
    BY <2>1, SetFormEffect
  <2> QED
    BY <1>1, <2>2 DEF Type, FormIsSet
<1>2. CASE Autosave
  BY <1>2 DEF Autosave
<1>3. CASE LeaveOrReturn
  BY <1>3 DEF LeaveOrReturn
<1>4. CASE ClearBrief \/ AutoStart
  <2>1. FormIsSet(EmptyForm)
    BY <1>4, SetFormEffect DEF ClearBrief, AutoStart, Forget
  <2> QED
    BY <1>4, <2>1 DEF ClearBrief, AutoStart, Forget, FormIsSet
<1>5. ASSUME NEW kind \in DOMAIN FirstReader, DropFile(kind) PROVE BriefShape'
  BY <1>5, FirstReaderIsReader DEF DropFile
<1>6. CASE FileUnreadable
  BY <1>6 DEF FileUnreadable
<1>7. CASE FileRead
  <2>1. FormIsSet([form EXCEPT !.content = "more"])
    BY <1>7, SetFormEffect DEF FileRead
  <2> QED
    BY <1>7, <2>1 DEF FileRead, FormIsSet
<1>8. CASE TitleSuggested
  <2>1. \E f \in Forms : FormIsSet(f)
    <3>1. CASE UNCHANGED <<form, timer, saveStatus>>
      BY <3>1 DEF FormIsSet
    <3>2. CASE SetForm(IF form.title = "" THEN [form EXCEPT !.title = "set"] ELSE form)
      BY <3>2, SetFormEffect
    <3> QED
      BY <1>8, <3>1, <3>2 DEF TitleSuggested
  <2> QED
    BY <1>8, <2>1 DEF TitleSuggested, FormIsSet
<1>9. CASE RunAnalyze \/ Analyzed \/ AnalyzeFails
  BY <1>9 DEF RunAnalyze, Analyzed, AnalyzeFails
<1>10. CASE RunRegister \/ RegisterEnds
  BY <1>10 DEF RunRegister, RegisterEnds
<1>11. CASE Registered
  <2>1. FormIsSet(EmptyForm)
    BY <1>11, SetFormEffect DEF Registered, Forget
  <2> QED
    BY <1>11, <2>1 DEF Registered, Forget, FormIsSet
<1>12. CASE GoneAnswered
  <2>1. gone' \in [analyzing : Forms \cup {NoForm}, registering : BOOLEAN, suggesting : BOOLEAN]
    <3>1. \/ gone' = [gone EXCEPT !.analyzing = NoForm]
          \/ gone' = [gone EXCEPT !.registering = FALSE]
          \/ gone' = [gone EXCEPT !.suggesting = FALSE]
          \/ gone' = NoneGone
      BY <1>12 DEF GoneAnswered
    <3>2. NoneGone \in [analyzing : Forms \cup {NoForm}, registering : BOOLEAN, suggesting : BOOLEAN]
      BY DEF NoneGone
    <3> QED
      BY <3>1, <3>2
  <2>2. draft' \in Forms \cup {NoForm}
    BY <1>12 DEF GoneAnswered
  <2>3. supplement' \in BOOLEAN /\ overtaken' \in BOOLEAN /\ pending' \in BOOLEAN
    BY <1>12 DEF GoneAnswered
  <2>4. UNCHANGED <<mounted, form, timer, saveStatus, analysis, analyzing, registering, reading,
                    suggesting, refining>>
    BY <1>12 DEF GoneAnswered
  <2> QED
    BY <2>1, <2>2, <2>3, <2>4
<1>13. CASE Refine \/ RefineFails
  BY <1>13 DEF Refine, RefineFails
<1>14. CASE Refined
  <2>1. PICK f \in {[refining EXCEPT !.title = "set"], [refining EXCEPT !.content = "typed"]} :
           draft' = f /\ IF mounted THEN SetForm(f) ELSE UNCHANGED <<form, timer, saveStatus>>
    BY <1>14 DEF Refined
  <2>2. f \in Forms
    <3>1. refining \in Forms
      BY <1>14 DEF Refined
    <3> QED
      BY <2>1, <3>1
  <2>3. CASE mounted
    <3>1. FormIsSet(f)
      BY <2>1, <2>3, SetFormEffect
    <3> QED
      BY <1>14, <2>1, <2>2, <2>3, <3>1 DEF Refined, FormIsSet
  <2>4. CASE ~mounted
    BY <1>14, <2>1, <2>2, <2>4 DEF Refined
  <2> QED
    BY <2>3, <2>4
<1>15. CASE AnswerTitle
  <2>1. \E f \in Forms : FormIsSet(f)
    <3>1. CASE UNCHANGED <<form, timer, saveStatus>>
      BY <3>1 DEF FormIsSet
    <3>2. CASE SetForm([form EXCEPT !.title = "set"])
      BY <3>2, SetFormEffect
    <3> QED
      BY <1>15, <3>1, <3>2 DEF AnswerTitle
  <2> QED
    BY <1>15, <2>1 DEF AnswerTitle, FormIsSet
<1> QED
  BY <1>1, <1>2, <1>3, <1>4, <1>5, <1>6, <1>7, <1>8, <1>9, <1>10, <1>11, <1>12, <1>13, <1>14,
     <1>15 DEF BriefNext

LEMMA BriefSavedStep ==
    ASSUME BriefInv, BriefNext
    PROVE  AwayIsQuiet' /\ SavedIsStored'
<1>0. BriefShape /\ AwayIsQuiet /\ SavedIsStored
  BY DEF BriefInv
<1>1. CASE Type \/ TitleSuggested \/ FileRead \/ AnswerTitle
  <2>1. UNCHANGED <<mounted, draft, supplement, overtaken>>
    BY <1>1 DEF Type, TitleSuggested, FileRead, AnswerTitle
  <2>2. CASE UNCHANGED <<form, timer, saveStatus>>
    BY <1>0, <2>1, <2>2, RequestsKeepSaved DEF OnlyRequests
  <2>3. CASE \E f : SetForm(f)
    <3>1. PICK f : FormIsSet(f)
      BY <1>0, <2>3, SetFormEffect
    <3> QED
      BY <1>0, <2>1, <3>1, SetFormKeepsQuiet, SetFormKeepsSaved
  <2> QED
    BY <1>1, <2>2, <2>3 DEF Type, TitleSuggested, FileRead, AnswerTitle
<1>2. CASE Autosave
  <2>1. mounted' /\ UNCHANGED <<form, supplement>>
    BY <1>0, <1>2 DEF Autosave, AwayIsQuiet
  <2>2. (draft' = form /\ form \in Forms) \/ (draft' = draft /\ saveStatus' = "error")
    BY <1>0, <1>2 DEF Autosave, BriefShape
  <2> QED
    BY <1>0, <2>1, <2>2, FormsAreForms DEF AwayIsQuiet, SavedIsStored
<1>3. CASE LeaveOrReturn
  <2>1. saveStatus' = "idle" /\ ~timer' /\ UNCHANGED <<draft, supplement>>
    BY <1>3 DEF LeaveOrReturn
  <2> QED
    BY <1>0, <2>1 DEF AwayIsQuiet, SavedIsStored
<1>4. CASE ClearBrief \/ AutoStart \/ Registered
  <2>1. FormIsSet(EmptyForm) /\ mounted' = mounted /\ draft' = NoForm /\ ~supplement'
    BY <1>0, <1>4, SetFormEffect DEF ClearBrief, AutoStart, Registered, Forget
  <2>2. SavedIsStored'
    BY <2>1 DEF SavedIsStored, FormIsSet
  <2> QED
    BY <1>0, <2>1, <2>2, SetFormKeepsQuiet
<1>5. CASE (\E kind \in DOMAIN FirstReader : DropFile(kind)) \/ FileUnreadable \/ RunAnalyze
           \/ AnalyzeFails \/ RunRegister \/ RegisterEnds \/ Refine \/ RefineFails
  <2>1. OnlyRequests
    BY <1>5 DEF DropFile, FileUnreadable, RunAnalyze, AnalyzeFails, RunRegister, RegisterEnds,
                Refine, RefineFails, OnlyRequests
  <2> QED
    BY <1>0, <2>1, RequestsKeepSaved
<1>6. CASE Analyzed
  <2>1. draft' = analyzing /\ draft' # NoForm /\ UNCHANGED <<mounted, form, timer, saveStatus>>
    BY <1>6 DEF Analyzed
  <2>2. ~overtaken' => draft' = form
    BY <1>6 DEF Analyzed
  <2> QED
    BY <1>0, <2>1, <2>2 DEF AwayIsQuiet, SavedIsStored
<1>7. CASE GoneAnswered
  <2>1. UNCHANGED <<mounted, form, timer, saveStatus>>
    BY <1>7 DEF GoneAnswered
  <2>2. \/ draft' # NoForm /\ overtaken'
        \/ ~supplement' /\ overtaken'
        \/ UNCHANGED <<draft, supplement, overtaken>>
    BY <1>7 DEF GoneAnswered
  <2> QED
    BY <1>0, <2>1, <2>2 DEF AwayIsQuiet, SavedIsStored
<1>8. CASE Refined
  <2>1. PICK f \in {[refining EXCEPT !.title = "set"], [refining EXCEPT !.content = "typed"]} :
           draft' = f /\ IF mounted THEN SetForm(f) ELSE UNCHANGED <<form, timer, saveStatus>>
    BY <1>8 DEF Refined
  <2>2. draft' # NoForm /\ mounted' = mounted
    <3>1. refining \in Forms
      BY <1>0, <1>8 DEF Refined, BriefShape
    <3> QED
      BY <1>8, <2>1, <3>1, FormsAreForms DEF Refined
  <2>3. CASE mounted
    <3>1. FormIsSet(f)
      BY <1>0, <2>1, <2>3, SetFormEffect
    <3>2. SavedIsStored'
      BY <2>1, <2>2, <3>1 DEF SavedIsStored, FormIsSet
    <3> QED
      BY <1>0, <2>2, <3>1, <3>2, SetFormKeepsQuiet
  <2>4. CASE ~mounted
    BY <1>0, <2>1, <2>2, <2>4 DEF AwayIsQuiet, SavedIsStored
  <2> QED
    BY <2>3, <2>4
<1> QED
  BY <1>1, <1>2, <1>3, <1>4, <1>5, <1>6, <1>7, <1>8 DEF BriefNext

LEMMA BriefInvStep ==
    ASSUME BriefInv, BriefNext \/ UNCHANGED briefVars
    PROVE  BriefInv'
<1>1. CASE BriefNext
  BY <1>1, BriefShapeStep, BriefSavedStep DEF BriefInv
<1>2. CASE UNCHANGED briefVars
  <2>1. BriefShape'
    BY <1>2 DEF briefVars, BriefInv, BriefShape
  <2>2. OnlyRequests
    BY <1>2 DEF briefVars, OnlyRequests
  <2> QED
    BY <2>1, <2>2, RequestsKeepSaved DEF BriefInv
<1> QED
  BY <1>1, <1>2

-----------------------------------------------------------------------------
(* The session.  A tab that no other tab has signed out or in holds the     *)
(* token that is stored, and its effect asks about that token: so the user  *)
(* it is told of is the one its requests act as.                            *)

MeRequests ==
    [stage : {"off", "due", "out"}, token : Nat, tries : {n \in Nat : n < MaxTries}]
TabStates ==
    [held : Nat, user : Users \cup {NoUser}, loading : BOOLEAN, effect : MeRequests,
     online : MeRequests, form : {"idle", "asking"}, foreign : BOOLEAN, overtaken : BOOLEAN]

\* Of a tab's state s, when x is stored and owners are the tokens' users.
TokensIssued(s, owners) ==
    s.held <= Len(owners) /\ s.effect.token <= Len(owners) /\ s.online.token <= Len(owners)
EffectAsks(s) ==
    /\ s.loading => s.effect.stage # "off"
    /\ s.effect.stage # "off" => s.held # 0
EffectAsksOfHeld(s) == s.effect.stage = "out" /\ ~s.foreign => s.effect.token = s.held
HoldsStored(s, x) == s.held # 0 /\ ~s.foreign => s.held = x
UserIsOwner(s, owners) ==
    s.held # 0 /\ s.user # NoUser /\ ~s.foreign /\ ~s.overtaken => s.user = owners[s.held]

TabHolds(s, x, owners) ==
    /\ s \in TabStates /\ TokensIssued(s, owners)
    /\ EffectAsks(s) /\ EffectAsksOfHeld(s) /\ HoldsStored(s, x) /\ UserIsOwner(s, owners)

SessionInv ==
    /\ ownerOf \in Seq(Users) /\ stored \in 0 .. Len(ownerOf) /\ expired \subseteq 0 .. Len(ownerOf)
    /\ DOMAIN tab = Tabs /\ tab = [t \in Tabs |-> tab[t]]
    /\ \A t \in Tabs : TabHolds(tab[t], stored, ownerOf)

LEMMA OffAndDue ==
    /\ Off \in MeRequests /\ Off.stage = "off" /\ Off.token = 0
    /\ \A n \in Nat : n < MaxTries =>
        Due(n) \in MeRequests /\ Due(n).stage = "due" /\ Due(n).token = 0
BY SessionAssumption DEF Off, Due, MeRequests

LEMMA SessionInvInit == ASSUME SessionInit PROVE SessionInv
<1>1. ownerOf \in Seq(Users) /\ Len(ownerOf) \in {0, 1} /\ stored = Len(ownerOf)
  <2>1. CASE ownerOf = <<>>
    BY <2>1 DEF SessionInit
  <2>2. CASE \E u \in Users : ownerOf = <<u>>
    BY <2>2 DEF SessionInit
  <2> QED
    BY <2>1, <2>2 DEF SessionInit
<1>2. TabHolds(NewTab(stored), stored, ownerOf)
  <2>1. NewTab(stored) \in TabStates
    BY <1>1, OffAndDue, SessionAssumption DEF NewTab, TabStates
  <2>2. TokensIssued(NewTab(stored), ownerOf)
    BY <1>1, OffAndDue, SessionAssumption DEF NewTab, TokensIssued
  <2>3. EffectAsks(NewTab(stored)) /\ EffectAsksOfHeld(NewTab(stored))
    <3>1. CASE stored = 0
      BY <3>1, OffAndDue DEF NewTab, EffectAsks, EffectAsksOfHeld
    <3>2. CASE stored # 0
      BY <3>2, OffAndDue, SessionAssumption DEF NewTab, EffectAsks, EffectAsksOfHeld
    <3> QED
      BY <3>1, <3>2
  <2>4. HoldsStored(NewTab(stored), stored) /\ UserIsOwner(NewTab(stored), ownerOf)
    BY DEF NewTab, HoldsStored, UserIsOwner
  <2> QED
    BY <2>1, <2>2, <2>3, <2>4 DEF TabHolds
<1> QED
  BY <1>1, <1>2 DEF SessionInit, SessionInv

\* Another token is stored, or one more is issued: of a tab that hears nothing
\* of it the same holds.
Unheard(s, x) == [s EXCEPT !.foreign = @ \/ x # stored]

LEMMA UnheardHolds ==
    ASSUME SessionInv, NEW s, TabHolds(s, stored, ownerOf), NEW x \in Nat, NEW owners \in Seq(Users),
           Len(owners) >= Len(ownerOf), \A i \in 1 .. Len(ownerOf) : owners[i] = ownerOf[i]
    PROVE  TabHolds(Unheard(s, x), x, owners)
<1> DEFINE n == Unheard(s, x)
<1>1. s \in TabStates
  BY DEF TabHolds
<1>2. n \in TabStates
  BY <1>1 DEF Unheard, TabStates
<1>3. /\ n.held = s.held /\ n.user = s.user /\ n.loading = s.loading /\ n.effect = s.effect
      /\ n.online = s.online /\ n.overtaken = s.overtaken
      /\ ~n.foreign => ~s.foreign /\ x = stored
  BY <1>1 DEF Unheard, TabStates
<1> HIDE DEF n
<1>4. TokensIssued(n, owners)
  <2>1. Len(owners) \in Nat /\ Len(ownerOf) \in Nat
    BY DEF SessionInv
  <2>2. s.held \in Nat /\ s.effect.token \in Nat /\ s.online.token \in Nat
    BY <1>1 DEF TabStates, MeRequests
  <2> QED
    BY <1>3, <2>1, <2>2 DEF TabHolds, TokensIssued
<1>5. EffectAsks(n) /\ EffectAsksOfHeld(n) /\ HoldsStored(n, x)
  BY <1>3 DEF TabHolds, EffectAsks, EffectAsksOfHeld, HoldsStored
<1>6. UserIsOwner(n, owners)
  <2> SUFFICES ASSUME n.held # 0, n.user # NoUser, ~n.foreign, ~n.overtaken
               PROVE  n.user = owners[n.held]
    BY DEF UserIsOwner
  <2>1. s.held \in 1 .. Len(ownerOf)
    BY <1>1, <1>3 DEF TabHolds, TokensIssued, TabStates, SessionInv
  <2> QED
    BY <1>3, <2>1 DEF TabHolds, UserIsOwner
<1> QED
  BY <1>2, <1>4, <1>5, <1>6 DEF TabHolds, n

\* One tab changes its state and nothing is stored.
LEMMA TabMoves ==
    ASSUME SessionInv, NEW t \in Tabs, NEW s, tab' = [tab EXCEPT ![t] = s],
           UNCHANGED <<stored, ownerOf, expired>>, TabHolds(s, stored, ownerOf)
    PROVE  SessionInv'
BY DEF SessionInv

\* One tab stores a token, and the others do not hear of it.
LEMMA TabStores ==
    ASSUME SessionInv, NEW t \in Tabs, NEW s, NEW x \in 0 .. Len(ownerOf'), Store(t, x, s),
           UNCHANGED expired, ownerOf' \in Seq(Users), Len(ownerOf') >= Len(ownerOf),
           \A i \in 1 .. Len(ownerOf) : ownerOf'[i] = ownerOf[i],
           TabHolds(s, x, ownerOf')
    PROVE  SessionInv'
<1>1. stored' = x /\ tab' = [u \in Tabs |-> IF u = t THEN s ELSE Unheard(tab[u], x)]
  BY DEF Store, Unheard
<1>2. x \in Nat
  BY LenProperties
<1>3. ASSUME NEW u \in Tabs PROVE TabHolds(tab'[u], x, ownerOf')
  <2>1. CASE u = t
    BY <1>1, <2>1
  <2>2. CASE u # t
    <3>1. TabHolds(tab[u], stored, ownerOf)
      BY DEF SessionInv
    <3>2. TabHolds(Unheard(tab[u], x), x, ownerOf')
      BY <1>2, <3>1, UnheardHolds
    <3> QED
      BY <1>1, <2>2, <3>2
  <2> QED
    BY <2>1, <2>2
<1>4. expired' \subseteq 0 .. Len(ownerOf')
  BY LenProperties DEF SessionInv
<1>5. DOMAIN tab' = Tabs /\ tab' = [u \in Tabs |-> tab'[u]]
  BY <1>1
<1> QED
  BY <1>1, <1>3, <1>4, <1>5 DEF SessionInv

\* What a tab's state is made of, and what holds of it, for one tab.
LEMMA TabFields ==
    ASSUME SessionInv, NEW t \in Tabs
    PROVE  /\ tab[t] \in TabStates /\ TabHolds(tab[t], stored, ownerOf)
           /\ tab[t].held \in 0 .. Len(ownerOf) /\ tab[t].effect \in MeRequests
           /\ tab[t].online \in MeRequests
           /\ \A k \in {"effect", "online"} : tab[t][k] \in MeRequests
           /\ tab[t].effect.token \in 0 .. Len(ownerOf) /\ tab[t].online.token \in 0 .. Len(ownerOf)
           /\ Len(ownerOf) \in Nat
<1>1. tab[t] \in TabStates /\ TabHolds(tab[t], stored, ownerOf) /\ Len(ownerOf) \in Nat
  BY DEF SessionInv, TabHolds
<1> QED
  BY <1>1 DEF TabHolds, TokensIssued, TabStates, MeRequests

\* The fields that sign-in and requests do not name.
LEMMA FormHolds ==
    ASSUME SessionInv, NEW t \in Tabs, NEW f \in {"idle", "asking"}
    PROVE  TabHolds([tab[t] EXCEPT !.form = f], stored, ownerOf)
BY TabFields DEF TabHolds, TokensIssued, EffectAsks, EffectAsksOfHeld, HoldsStored, UserIsOwner, TabStates

\* A token that was just issued, or none.
LEMMA SetTokenKeeps ==
    ASSUME SessionInv, NEW t \in Tabs, NEW x \in {0, Len(ownerOf) + 1},
           IF x = 0 THEN ownerOf' = ownerOf ELSE \E u \in Users : ownerOf' = Append(ownerOf, u),
           SetToken(t, x), UNCHANGED expired
    PROVE  SessionInv'
<1> DEFINE e == IF x = 0 THEN Off ELSE Due(0)
           n == [tab[t] EXCEPT !.held = x, !.loading = x # 0, !.form = "idle", !.effect = e,
                   !.user = IF x = 0 THEN NoUser ELSE @, !.foreign = FALSE,
                   !.overtaken = IF x = 0 THEN FALSE ELSE tab[t].user # NoUser]
<1>1. tab[t] \in TabStates /\ tab[t].held \in 0 .. Len(ownerOf) /\ Len(ownerOf) \in Nat
      /\ tab[t].online.token \in 0 .. Len(ownerOf)
  BY TabFields
<1>2. ownerOf' \in Seq(Users) /\ Len(ownerOf') >= Len(ownerOf) /\ x \in 0 .. Len(ownerOf')
      /\ \A i \in 1 .. Len(ownerOf) : ownerOf'[i] = ownerOf[i]
  BY <1>1 DEF SessionInv
<1>3. e \in MeRequests /\ e.stage # "out" /\ e.token = 0 /\ (e.stage # "off" <=> x # 0)
  BY OffAndDue, SessionAssumption
<1> HIDE DEF e
<1>4. n \in TabStates
  <2>1. (IF x = 0 THEN NoUser ELSE tab[t].user) \in Users \cup {NoUser} /\ x \in Nat
    BY <1>1 DEF TabStates
  <2>2. (IF x = 0 THEN FALSE ELSE tab[t].user # NoUser) \in BOOLEAN /\ (x # 0) \in BOOLEAN
    OBVIOUS
  <2> QED
    BY <1>1, <1>3, <2>1, <2>2 DEF TabStates
<1>5. /\ n.held = x /\ n.effect = e /\ (n.loading <=> x # 0) /\ n.online = tab[t].online
      /\ x # 0 /\ n.user # NoUser => n.overtaken
  BY <1>1 DEF TabStates
<1>6. Store(t, x, n)
  <2>1. CASE x = 0
    BY <1>1, <2>1 DEF SetToken, e, TabStates
  <2>2. CASE x # 0
    <3>1. x # tab[t].held
      BY <1>1, <2>2
    <3> QED
      BY <1>1, <2>2, <3>1 DEF SetToken, e, TabStates
  <2> QED
    BY <2>1, <2>2
<1> HIDE DEF n
<1>7. TabHolds(n, x, ownerOf')
  BY <1>1, <1>2, <1>3, <1>4, <1>5
     DEF TabHolds, TokensIssued, EffectAsks, EffectAsksOfHeld, HoldsStored, UserIsOwner
<1> QED
  BY <1>2, <1>6, <1>7, TabStores

LEMMA AttemptKeeps ==
    ASSUME SessionInv, NEW t \in Tabs, NEW k \in {"effect", "online"}, Attempt(t, k)
    PROVE  SessionInv'
<1> DEFINE q == [tab[t][k] EXCEPT !.stage = "out", !.token = stored]
           n == [tab[t] EXCEPT ![k] = q]
<1>1. tab[t] \in TabStates /\ tab[t].effect \in MeRequests /\ tab[t].online \in MeRequests
      /\ tab[t].held \in 0 .. Len(ownerOf) /\ Len(ownerOf) \in Nat /\ TabHolds(tab[t], stored, ownerOf)
  BY TabFields
<1>2. q \in MeRequests /\ q.stage = "out" /\ q.token = stored /\ tab[t][k].stage = "due"
      /\ stored \in 0 .. Len(ownerOf)
  <2>1. tab[t][k] \in MeRequests /\ stored \in 0 .. Len(ownerOf) /\ stored \in Nat
    BY <1>1, TabFields DEF SessionInv
  <2> QED
    BY <2>1 DEF Attempt, MeRequests
<1>3. tab' = [tab EXCEPT ![t] = n] /\ UNCHANGED <<stored, ownerOf, expired>>
  BY DEF Attempt
<1> HIDE DEF q
<1>4. TabHolds(n, stored, ownerOf)
  <2>1. CASE k = "effect"
    BY <1>1, <1>2, <2>1
       DEF TabHolds, TokensIssued, EffectAsks, EffectAsksOfHeld, HoldsStored, UserIsOwner, TabStates
  <2>2. CASE k = "online"
    BY <1>1, <1>2, <2>2
       DEF TabHolds, TokensIssued, EffectAsks, EffectAsksOfHeld, HoldsStored, UserIsOwner, TabStates
  <2> QED
    BY <2>1, <2>2
<1> QED
  BY <1>3, <1>4, TabMoves

LEMMA MeAnswersKeeps ==
    ASSUME SessionInv, NEW t \in Tabs, NEW k \in {"effect", "online"}, MeAnswers(t, k)
    PROVE  SessionInv'
<1>1. tab[t] \in TabStates /\ tab[t].effect \in MeRequests /\ tab[t].online \in MeRequests
      /\ tab[t].held \in 0 .. Len(ownerOf) /\ Len(ownerOf) \in Nat /\ TabHolds(tab[t], stored, ownerOf)
      /\ tab[t][k].token \in 0 .. Len(ownerOf)
  BY TabFields
<1> DEFINE me == ownerOf[tab[t][k].token]
<1>2. me \in Users /\ tab[t][k].stage = "out"
  BY <1>1 DEF MeAnswers, Valid, SessionInv
<1>3. UNCHANGED <<stored, ownerOf, expired>>
  BY DEF MeAnswers
<1>4. CASE k = "effect"
  <2> DEFINE n == [tab[t] EXCEPT !.user = me, !.effect = Off, !.loading = FALSE, !.overtaken = FALSE]
  <2>1. tab' = [tab EXCEPT ![t] = n]
    BY <1>1, <1>4 DEF MeAnswers, TabStates
  <2>2. me = ownerOf[tab[t].effect.token] /\ (tab[t].foreign \/ tab[t].effect.token = tab[t].held)
    BY <1>1, <1>2, <1>4 DEF TabHolds, EffectAsksOfHeld
  <2> HIDE DEF me
  <2>3. n \in TabStates
    BY <1>1, <1>2, OffAndDue DEF TabStates
  <2>4. n.held = tab[t].held /\ n.user = me /\ n.effect = Off /\ ~n.loading /\ n.online = tab[t].online
        /\ n.foreign = tab[t].foreign
    BY <1>1 DEF TabStates
  <2> HIDE DEF n
  <2>5. TabHolds(n, stored, ownerOf)
    BY <1>1, <2>2, <2>3, <2>4, OffAndDue
       DEF TabHolds, TokensIssued, EffectAsks, EffectAsksOfHeld, HoldsStored, UserIsOwner
  <2> QED
    BY <1>3, <2>1, <2>5, TabMoves
<1>5. CASE k = "online"
  <2> DEFINE late == tab[t].overtaken \/ tab[t].online.token # tab[t].held
             n == [tab[t] EXCEPT !.user = me, !.online = Off, !.overtaken = late]
  <2>1. tab' = [tab EXCEPT ![t] = n]
    BY <1>1, <1>5 DEF MeAnswers, TabStates
  <2>2. me = ownerOf[tab[t].online.token] /\ late \in BOOLEAN
        /\ (~late => tab[t].online.token = tab[t].held)
    BY <1>5
  <2> HIDE DEF me, late
  <2>3. n \in TabStates
    BY <1>1, <1>2, <2>2, OffAndDue DEF TabStates
  <2>4. n.held = tab[t].held /\ n.user = me /\ n.effect = tab[t].effect /\ n.online = Off
        /\ n.loading = tab[t].loading /\ n.foreign = tab[t].foreign /\ n.overtaken = late
    BY <1>1 DEF TabStates
  <2> HIDE DEF n
  <2>5. TabHolds(n, stored, ownerOf)
    BY <1>1, <2>2, <2>3, <2>4, OffAndDue
       DEF TabHolds, TokensIssued, EffectAsks, EffectAsksOfHeld, HoldsStored, UserIsOwner
  <2> QED
    BY <1>3, <2>1, <2>5, TabMoves
<1> QED
  BY <1>4, <1>5

LEMMA MeRefusedKeeps ==
    ASSUME SessionInv, NEW t \in Tabs, NEW k \in {"effect", "online"}, MeRefused(t, k)
    PROVE  SessionInv'
<1> DEFINE n == SignedOff([tab[t] EXCEPT ![k] = Off])
<1>1. tab[t] \in TabStates /\ Len(ownerOf) \in Nat /\ tab[t].online.token \in 0 .. Len(ownerOf)
  BY TabFields
<1>2. n \in TabStates /\ n.held = 0 /\ n.user = NoUser /\ ~n.loading /\ n.effect = Off
      /\ n.online \in {Off, tab[t].online}
  <2>1. CASE k = "effect"
    BY <1>1, <2>1, OffAndDue DEF SignedOff, TabStates
  <2>2. CASE k = "online"
    BY <1>1, <2>2, OffAndDue DEF SignedOff, TabStates
  <2> QED
    BY <2>1, <2>2
<1>3. Store(t, 0, n) /\ UNCHANGED <<ownerOf, expired>>
  BY DEF MeRefused
<1> HIDE DEF n
<1>4. TabHolds(n, 0, ownerOf)
  BY <1>1, <1>2, OffAndDue
     DEF TabHolds, TokensIssued, EffectAsks, EffectAsksOfHeld, HoldsStored, UserIsOwner
<1>5. ownerOf' = ownerOf /\ ownerOf \in Seq(Users) /\ 0 \in 0 .. Len(ownerOf)
  BY <1>1, <1>3 DEF SessionInv
<1> QED
  BY <1>1, <1>3, <1>4, <1>5, TabStores

LEMMA MeFailsKeeps ==
    ASSUME SessionInv, NEW t \in Tabs, NEW k \in {"effect", "online"}, MeFails(t, k)
    PROVE  SessionInv'
<1> DEFINE tries == tab[t][k].tries + 1
           n == IF tries < MaxTries THEN [tab[t] EXCEPT ![k] = Due(tries)]
                ELSE IF k = "effect"
                THEN [tab[t] EXCEPT ![k] = Off, !.user = NoUser, !.loading = FALSE]
                ELSE [tab[t] EXCEPT ![k] = Off]
<1>1. tab[t] \in TabStates /\ tab[t].effect \in MeRequests /\ tab[t].online \in MeRequests
      /\ tab[t].held \in 0 .. Len(ownerOf) /\ Len(ownerOf) \in Nat /\ TabHolds(tab[t], stored, ownerOf)
  BY TabFields
<1>2. tries \in Nat /\ tab[t][k].stage = "out"
  <2>1. tab[t][k] \in MeRequests
    BY TabFields
  <2>2. tries \in Nat
    BY <2>1 DEF MeRequests
  <2>3. tab[t][k].stage = "out"
    BY DEF MeFails
  <2> QED
    BY <2>2, <2>3
<1>3. tab' = [tab EXCEPT ![t] = n] /\ UNCHANGED <<stored, ownerOf, expired>>
  BY DEF MeFails
<1> HIDE DEF tries
<1>4. TabHolds(n, stored, ownerOf)
  <2>1. CASE tries < MaxTries /\ k = "effect"
    BY <1>1, <1>2, <2>1, OffAndDue
       DEF TabHolds, TokensIssued, EffectAsks, EffectAsksOfHeld, HoldsStored, UserIsOwner, TabStates
  <2>2. CASE tries < MaxTries /\ k = "online"
    BY <1>1, <1>2, <2>2, OffAndDue
       DEF TabHolds, TokensIssued, EffectAsks, EffectAsksOfHeld, HoldsStored, UserIsOwner, TabStates
  <2>3. CASE ~(tries < MaxTries) /\ k = "effect"
    <3>1. n \in TabStates /\ n.held = tab[t].held /\ n.user = NoUser /\ ~n.loading /\ n.effect = Off
          /\ n.online = tab[t].online /\ n.foreign = tab[t].foreign
      BY <1>1, <2>3, OffAndDue DEF TabStates
    <3> HIDE DEF n
    <3> QED
      BY <1>1, <3>1, OffAndDue
         DEF TabHolds, TokensIssued, EffectAsks, EffectAsksOfHeld, HoldsStored, UserIsOwner
  <2>4. CASE ~(tries < MaxTries) /\ k = "online"
    BY <1>1, <2>4, OffAndDue
       DEF TabHolds, TokensIssued, EffectAsks, EffectAsksOfHeld, HoldsStored, UserIsOwner, TabStates
  <2> QED
    BY <2>1, <2>2, <2>3, <2>4
<1> QED
  BY <1>3, <1>4, TabMoves

LEMMA SessionInvStep ==
    ASSUME SessionInv, SessionNext \/ UNCHANGED sessionVars
    PROVE  SessionInv'
<1>1. CASE TokenStep
  BY <1>1 DEF TokenStep, Expire, Tokens, SessionInv
<1>2. ASSUME NEW t \in Tabs, Submit(t) \/ SignInFails(t) PROVE SessionInv'
  <2>1. PICK f \in {"idle", "asking"} : tab' = [tab EXCEPT ![t] = [tab[t] EXCEPT !.form = f]]
    BY <1>2 DEF Submit, SignInFails
  <2> QED
    BY <1>2, <2>1, FormHolds, TabMoves DEF Submit, SignInFails
<1>3. ASSUME NEW t \in Tabs, Logout(t) PROVE SessionInv'
  BY <1>3, SetTokenKeeps DEF Logout
<1>4. ASSUME NEW t \in Tabs, NEW u \in Users, SignIn(t, u) PROVE SessionInv'
  <2>1. ownerOf' = Append(ownerOf, u) /\ Len(ownerOf') = Len(ownerOf) + 1 /\ Len(ownerOf) + 1 # 0
        /\ SetToken(t, Len(ownerOf) + 1) /\ UNCHANGED expired
    BY <1>4 DEF SignIn, SessionInv
  <2> QED
    BY <2>1, SetTokenKeeps
<1>5. ASSUME NEW t \in Tabs, Online(t) PROVE SessionInv'
  <2> DEFINE n == [tab[t] EXCEPT !.online = Due(0)]
  <2>1. tab' = [tab EXCEPT ![t] = n] /\ UNCHANGED <<stored, ownerOf, expired>>
    BY <1>5 DEF Online
  <2>2. TabHolds(n, stored, ownerOf)
    BY TabFields, OffAndDue, SessionAssumption
       DEF TabHolds, TokensIssued, EffectAsks, EffectAsksOfHeld, HoldsStored, UserIsOwner, TabStates
  <2> QED
    BY <2>1, <2>2, TabMoves
<1>6. CASE UNCHANGED sessionVars
  BY <1>6 DEF sessionVars, SessionInv
<1> QED
  BY <1>1, <1>2, <1>3, <1>4, <1>5, <1>6, AttemptKeeps, MeAnswersKeeps, MeRefusedKeeps, MeFailsKeeps
     DEF SessionNext, TabStep

LEMMA SessionSound ==
    ASSUME SessionInv
    PROVE  SessionIsOwn /\ LoadingIsAwaited
<1>1. SessionIsOwn
  <2> SUFFICES ASSUME NEW t \in Tabs, SessionHeld(t), ~tab[t].foreign
               PROVE  stored = tab[t].held /\ (~tab[t].overtaken => tab[t].user = ownerOf[stored])
    BY DEF SessionIsOwn
  <2> QED
    BY DEF SessionInv, SessionHeld, TabHolds, HoldsStored, UserIsOwner
<1>2. LoadingIsAwaited
  BY DEF SessionInv, LoadingIsAwaited, TabHolds, EffectAsks
<1> QED
  BY <1>1, <1>2

-----------------------------------------------------------------------------
(* The training desk: the features are those of the preview shown, without  *)
(* the target.                                                              *)

DeskInv == DOMAIN features \subseteq Offers(shown) \ {target}

LEMMA DeskInvInit == DeskInit => DeskInv
BY DEF DeskInit, DeskInv

LEMMA DeskInvStep ==
    ASSUME DeskInv, DeskNext \/ UNCHANGED deskVars
    PROVE  DeskInv'
<1>1. CASE UNCHANGED <<shown, target, features>>
  BY <1>1 DEF DeskInv, Offers
<1>2. ASSUME NEW i \in DOMAIN asked, PreviewArrives(i) PROVE DeskInv'
  BY <1>2 DEF PreviewArrives, DefaultFeatures, DeskInv, Offers
<1>3. ASSUME NEW c, ChooseTarget(c) PROVE DeskInv'
  BY <1>3 DEF ChooseTarget, DefaultFeatures, DeskInv, Offers
<1>4. ASSUME NEW c, ToggleFeature(c) PROVE DeskInv'
  BY <1>4 DEF ToggleFeature, DeskInv, Offers
<1>5. CASE UploadAnswered
  BY <1>5 DEF UploadAnswered, DefaultFeatures, DeskInv, Offers
<1>6. CASE (\E f \in Files \cup {NoFile} : ChooseFile(f)) \/ LoadDatasets \/ RefreshPreview
           \/ (\E i \in DOMAIN asked : PreviewRead(i) \/ PreviewFails(i)) \/ (\E f \in Files : Upload(f))
           \/ ServerStores \/ UploadListed \/ UploadEnds \/ UploadFails \/ UNCHANGED deskVars
  BY <1>1, <1>6 DEF ChooseFile, LoadDatasets, RefreshPreview, PreviewRead, PreviewFails, Upload,
                    ServerStores, UploadListed, UploadEnds, UploadFails, deskVars
<1> QED
  BY <1>2, <1>3, <1>4, <1>5, <1>6 DEF DeskNext

LEMMA DeskSound == ASSUME DeskInv PROVE TargetIsNoInput
BY DEF DeskInv, TargetIsNoInput, Inputs

-----------------------------------------------------------------------------
(* The conversation: what an appended message adds to a count.              *)

Said(m, T) == {i \in DOMAIN m : m[i] \in T}

LEMMA SaidIsFinite ==
    ASSUME NEW S, NEW m \in Seq(S), NEW T
    PROVE  IsFiniteSet(Said(m, T)) /\ Cardinality(Said(m, T)) \in Nat
<1>1. Len(m) \in Nat /\ DOMAIN m = 1 .. Len(m)
  BY LenProperties
<1>2. IsFiniteSet(1 .. Len(m)) /\ Said(m, T) \subseteq 1 .. Len(m)
  BY <1>1, FS_Interval DEF Said
<1> QED
  BY <1>2, FS_Subset, FS_CardinalityType

LEMMA AppendSays ==
    ASSUME NEW S, NEW m \in Seq(S), NEW e \in S, NEW T
    PROVE  Cardinality(Said(Append(m, e), T)) = Cardinality(Said(m, T)) + (IF e \in T THEN 1 ELSE 0)
<1>1. Len(m) + 1 \notin Said(m, T) /\ Len(m) \in Nat
  BY LenProperties DEF Said
<1>2. CASE e \in T
  <2>1. Said(Append(m, e), T) = Said(m, T) \cup {Len(m) + 1}
    BY <1>2, LenProperties, AppendProperties DEF Said
  <2> QED
    BY <1>1, <1>2, <2>1, SaidIsFinite, FS_AddElement
<1>3. CASE e \notin T
  <2>1. Said(Append(m, e), T) = Said(m, T)
    BY <1>3, LenProperties, AppendProperties DEF Said
  <2> QED
    BY <1>3, <2>1, SaidIsFinite
<1> QED
  BY <1>2, <1>3

\* Questions and replies of a conversation.
Asked(m) == Cardinality(Said(m, {"user"}))
Replied(m) == Cardinality(Said(m, {"answer", "error"}))

LEMMA Counts ==
    /\ Cardinality(Questions) = Asked(messages) /\ Cardinality(Replies) = Replied(messages)
    /\ Asked(<<"tip">>) = 0 /\ Replied(<<"tip">>) = 0
    /\ \A m \in Seq(Kinds) :
        /\ Asked(m) \in Nat /\ Replied(m) \in Nat
        /\ \A k \in Kinds :
            /\ Append(m, k) \in Seq(Kinds)
            /\ Asked(Append(m, k)) = Asked(m) + (IF k = "user" THEN 1 ELSE 0)
            /\ Replied(Append(m, k)) = Replied(m) + (IF k \in {"answer", "error"} THEN 1 ELSE 0)
<1>1. Questions = Said(messages, {"user"}) /\ Replies = Said(messages, {"answer", "error"})
  BY DEF Questions, Replies, Said
<1>2. Said(<<"tip">>, {"user"}) = {} /\ Said(<<"tip">>, {"answer", "error"}) = {}
  BY DEF Said
<1>3. ASSUME NEW m \in Seq(Kinds), NEW k \in Kinds
      PROVE  /\ Append(m, k) \in Seq(Kinds)
             /\ Asked(Append(m, k)) = Asked(m) + (IF k = "user" THEN 1 ELSE 0)
             /\ Replied(Append(m, k)) = Replied(m) + (IF k \in {"answer", "error"} THEN 1 ELSE 0)
  <2>1. Append(m, k) \in Seq(Kinds)
    OBVIOUS
  <2>2. Asked(Append(m, k)) = Asked(m) + (IF k \in {"user"} THEN 1 ELSE 0)
    BY AppendSays DEF Asked
  <2>3. Replied(Append(m, k)) = Replied(m) + (IF k \in {"answer", "error"} THEN 1 ELSE 0)
    BY AppendSays DEF Replied
  <2> QED
    BY <2>1, <2>2, <2>3
<1>4. \A m \in Seq(Kinds) : Asked(m) \in Nat /\ Replied(m) \in Nat
  BY SaidIsFinite DEF Asked, Replied
<1> QED
  BY <1>1, <1>2, <1>3, <1>4, FS_EmptySet DEF Asked, Replied

AssistantInv ==
    /\ messages \in Seq(Kinds)
    /\ EveryMessageAnswered

\* The claim, about the numbers alone.
AllAnswered(m, due, anew) == Asked(m) <= Replied(m) + due /\ (~anew => Asked(m) = Replied(m) + due)

LEMMA AnsweredIsClaim == EveryMessageAnswered <=> AllAnswered(messages, AnswerDue, restarted)
BY Counts DEF EveryMessageAnswered, AllAnswered

LEMMA AnsweredIsClaimNext == EveryMessageAnswered' <=> AllAnswered(messages', AnswerDue', restarted')
<1>1. Questions' = Said(messages', {"user"}) /\ Replies' = Said(messages', {"answer", "error"})
  BY DEF Questions, Replies, Said
<1> QED
  BY <1>1 DEF EveryMessageAnswered, AllAnswered, Asked, Replied

LEMMA AssistantInvInit == ASSUME AssistantInit PROVE AssistantInv
<1>1. messages = <<"tip">> /\ AnswerDue = 0
  BY DEF AssistantInit, AnswerDue
<1>2. "tip" \in Kinds
  BY DEF Kinds
<1>3. messages \in Seq(Kinds)
  BY <1>1, <1>2
<1> QED
  BY <1>1, <1>3, Counts DEF AssistantInv, EveryMessageAnswered

LEMMA AssistantInvStep ==
    ASSUME AssistantInv, AssistantNext \/ UNCHANGED assistantVars
    PROVE  AssistantInv'
<1>0. messages \in Seq(Kinds) /\ AllAnswered(messages, AnswerDue, restarted)
      /\ Asked(messages) \in Nat /\ Replied(messages) \in Nat
      /\ {"tip", "user", "answer", "error", "injected"} = Kinds
  BY AnsweredIsClaim, Counts DEF AssistantInv, Kinds
<1> SUFFICES messages' \in Seq(Kinds) /\ AllAnswered(messages', AnswerDue', restarted')
  BY AnsweredIsClaimNext DEF AssistantInv
<1>1. CASE UNCHANGED <<messages, chatBusy, restarted>>
  BY <1>0, <1>1 DEF AnswerDue
<1>2. CASE Restart /\ UNCHANGED chatBusy
  <2>1. messages' = <<"tip">> /\ messages' \in Seq(Kinds)
    BY <1>0, <1>2 DEF Restart
  <2>2. AnswerDue' = AnswerDue /\ AnswerDue \in {0, 1} /\ (~restarted' => AnswerDue = 0)
    BY <1>2 DEF Restart, AnswerDue
  <2> QED
    BY <2>1, <2>2, Counts DEF AllAnswered
<1>3. CASE Inject
  <2>1. messages' \in {messages, Append(messages, "injected")} /\ AnswerDue' = AnswerDue
        /\ UNCHANGED restarted
    BY <1>3 DEF Inject, AnswerDue
  <2>2. Append(messages, "injected") \in Seq(Kinds)
        /\ Asked(Append(messages, "injected")) = Asked(messages)
        /\ Replied(Append(messages, "injected")) = Replied(messages)
    BY <1>0, Counts
  <2> QED
    BY <1>0, <2>1, <2>2 DEF AllAnswered
<1>4. CASE ToModel /\ chatBusy = "" /\ UNCHANGED restarted
  <2>1. messages' = Append(messages, "user") /\ AnswerDue = 0 /\ AnswerDue' = 1 /\ UNCHANGED restarted
    BY <1>4 DEF ToModel, AnswerDue
  <2>2. Append(messages, "user") \in Seq(Kinds) /\ Asked(Append(messages, "user")) = Asked(messages) + 1
        /\ Replied(Append(messages, "user")) = Replied(messages)
    BY <1>0, Counts
  <2> QED
    BY <1>0, <2>1, <2>2 DEF AllAnswered
<1>5. ASSUME NEW r \in {"answer", "error"}, messages' = messages \o <<"user", r>>, chatBusy # "chat",
             chatBusy' # "chat", UNCHANGED restarted
      PROVE  messages' \in Seq(Kinds) /\ AllAnswered(messages', AnswerDue', restarted')
  <2> DEFINE one == Append(messages, "user")
             two == Append(one, r)
  <2>1. one \in Seq(Kinds) /\ Asked(one) = Asked(messages) + 1 /\ Replied(one) = Replied(messages)
    BY <1>0, Counts
  <2>2. messages' = two
    BY <1>0, <1>5
  <2> HIDE DEF one
  <2>3. two \in Seq(Kinds) /\ Asked(two) = Asked(one) /\ Replied(two) = Replied(one) + 1
    BY <1>0, <2>1, Counts
  <2>4. AnswerDue = 0 /\ AnswerDue' = 0
    BY <1>5 DEF AnswerDue
  <2> HIDE DEF two
  <2>5. Asked(two) = Asked(messages) + 1 /\ Replied(two) = Replied(messages) + 1
    BY <2>1, <2>3
  <2>6. AllAnswered(two, 0, restarted)
    BY <1>0, <2>4, <2>5 DEF AllAnswered
  <2> QED
    BY <1>5, <2>2, <2>3, <2>4, <2>6
<1>6. CASE Send
  <2>1. chatBusy = "" /\ UNCHANGED restarted
    BY <1>6 DEF Send, ChatControls
  <2>2. CASE chatBusy' = "refine" /\ UNCHANGED messages
    <3>1. AnswerDue = 0 /\ AnswerDue' = 0
      BY <2>1, <2>2 DEF AnswerDue
    <3> QED
      BY <1>0, <2>1, <2>2, <3>1
  <2>3. CASE messages' = messages \o <<"user", "answer">> /\ UNCHANGED chatBusy
    BY <1>5, <2>1, <2>3
  <2> QED
    BY <1>4, <1>6, <2>1, <2>2, <2>3 DEF Send
<1>7. CASE SendQuick
  BY <1>4, <1>7 DEF SendQuick, ChatControls
<1>8. CASE ChatAnswered
  <2>1. PICK r \in {"answer", "error"} : messages' = Append(messages, r)
    BY <1>8 DEF ChatAnswered
  <2>2. AnswerDue = 1 /\ AnswerDue' = 0 /\ UNCHANGED restarted
    BY <1>8 DEF ChatAnswered, AnswerDue
  <2>3. Append(messages, r) \in Seq(Kinds) /\ Asked(Append(messages, r)) = Asked(messages)
        /\ Replied(Append(messages, r)) = Replied(messages) + 1
    BY <1>0, Counts
  <2> QED
    BY <1>0, <2>1, <2>2, <2>3 DEF AllAnswered
<1>9. CASE RefineAnswered
  <2>1. chatBusy = "refine" /\ chatBusy' = "" /\ UNCHANGED restarted
    BY <1>9 DEF RefineAnswered
  <2>2. CASE UNCHANGED messages
    <3>1. AnswerDue = 0 /\ AnswerDue' = 0
      BY <2>1 DEF AnswerDue
    <3> QED
      BY <1>0, <2>1, <2>2, <3>1
  <2> QED
    BY <1>5, <1>9, <2>1, <2>2 DEF RefineAnswered
<1>10. ASSUME NEW s, ChangeStep(s)
       PROVE  messages' \in Seq(Kinds) /\ AllAnswered(messages', AnswerDue', restarted')
  BY <1>1, <1>2, <1>10 DEF ChangeStep
<1>11. CASE ClearConversation
  BY <1>2, <1>11 DEF ClearConversation
<1>12. CASE TypeMessage \/ BriefGone \/ UNCHANGED assistantVars
  BY <1>1, <1>12 DEF TypeMessage, BriefGone, assistantVars
<1> QED
  BY <1>3, <1>6, <1>7, <1>8, <1>9, <1>10, <1>11, <1>12 DEF AssistantNext

-----------------------------------------------------------------------------
(* The operator's members: a list that is old is about to be read again.    *)

MemberRows == [approved : BOOLEAN, active : BOOLEAN]
MemberLists == [list : [Members -> MemberRows], at : Nat]
MemberAsks ==
    [n : Nat, step : {"asked", "changed", "listing", "read"}, user : Members,
     kind : {"approve", "suspend", "activate"}, seen : MemberLists]

MembersShape ==
    /\ member \in [Members -> MemberRows] /\ commits \in Nat /\ memberAsked \in Nat
    /\ shownMembers \in MemberLists /\ memberAsks \subseteq MemberAsks /\ behind \in BOOLEAN

\* A list that was read after c changes is the server's after as many.
ReadIsTrue(l) == l.at <= commits /\ (l.at = commits => l.list = member)
ReadsAreTrue == ReadIsTrue(shownMembers) /\ \A q \in memberAsks : q.step = "read" => ReadIsTrue(q.seen)

\* The list is old only while it is being read again.
OldOnlyForNow == ~behind /\ shownMembers.at # commits => \E q \in memberAsks : BringsNews(q)

MembersInv == MembersShape /\ ReadsAreTrue /\ OldOnlyForNow

LEMMA MembersInvInit == ASSUME MembersInit PROVE MembersInv
<1>1. Candidate \in MemberRows
  BY DEF Candidate, MemberRows
<1>2. member \in [Members -> MemberRows] /\ shownMembers \in MemberLists /\ shownMembers.at = 0
      /\ shownMembers.list = member
  BY <1>1 DEF MembersInit, MemberLists
<1>3. commits = 0 /\ memberAsks = {} /\ memberAsked = 0 /\ behind = FALSE
  BY DEF MembersInit
<1>4. MembersShape
  BY <1>2, <1>3 DEF MembersShape
<1>5. ReadsAreTrue /\ OldOnlyForNow
  BY <1>2, <1>3 DEF ReadsAreTrue, ReadIsTrue, OldOnlyForNow
<1> QED
  BY <1>4, <1>5 DEF MembersInv

\* A request takes its next step, or is over.
LEMMA NextStepOfAsk ==
    ASSUME NEW q \in MemberAsks, NEW st \in {"asked", "changed", "listing", "read"}
    PROVE  [q EXCEPT !.step = st] \in MemberAsks /\ [q EXCEPT !.step = st].step = st
BY DEF MemberAsks

LEMMA MembersInvStep ==
    ASSUME MembersInv, MembersNext \/ UNCHANGED memberVars
    PROVE  MembersInv'
<1>0. MembersShape /\ ReadsAreTrue /\ OldOnlyForNow
  BY DEF MembersInv
<1>1. ASSUME NEW u \in Members, NEW kind \in {"approve", "suspend", "activate"}, AskMember(u, kind)
      PROVE  MembersInv'
  <2> DEFINE q == [n |-> memberAsked + 1, step |-> "asked", user |-> u, kind |-> kind,
                   seen |-> shownMembers]
  <2>1. memberAsks' = memberAsks \cup {q} /\ memberAsked' = memberAsked + 1
        /\ UNCHANGED <<member, commits, shownMembers, behind>>
    BY <1>1 DEF AskMember
  <2>2. q \in MemberAsks /\ q.step = "asked"
    BY <1>0 DEF MembersShape, MemberAsks
  <2> HIDE DEF q
  <2>3. MembersShape'
    BY <1>0, <2>1, <2>2 DEF MembersShape
  <2>4. ReadsAreTrue'
    BY <1>0, <2>1, <2>2 DEF ReadsAreTrue, ReadIsTrue
  <2>5. OldOnlyForNow'
    BY <1>0, <2>1 DEF OldOnlyForNow, BringsNews
  <2> QED
    BY <2>3, <2>4, <2>5 DEF MembersInv
<1>2. ASSUME NEW q \in memberAsks, MemberChanges(q) PROVE MembersInv'
  <2> DEFINE r == [q EXCEPT !.step = "changed"]
  <2>1. /\ member' = [member EXCEPT ![q.user] = AfterAsk(@, q.kind)] /\ commits' = commits + 1
        /\ memberAsks' = (memberAsks \ {q}) \cup {r}
        /\ UNCHANGED <<shownMembers, memberAsked, behind>>
    BY <1>2 DEF MemberChanges
  <2>2. q \in MemberAsks /\ r \in MemberAsks /\ r.step = "changed"
    BY <1>0, NextStepOfAsk DEF MembersShape
  <2> HIDE DEF r
  <2>3. member' \in [Members -> MemberRows]
    <3>1. \A row \in MemberRows : AfterAsk(row, q.kind) \in MemberRows
      BY DEF AfterAsk, MemberRows
    <3> QED
      BY <1>0, <2>1, <3>1 DEF MembersShape
  <2>4. MembersShape'
    BY <1>0, <2>1, <2>2, <2>3 DEF MembersShape
  <2>5. ReadsAreTrue'
    <3>1. ASSUME NEW l \in MemberLists, ReadIsTrue(l) PROVE l.at <= commits' /\ l.at # commits'
      BY <1>0, <2>1, <3>1 DEF ReadIsTrue, MemberLists, MembersShape
    <3>2. shownMembers \in MemberLists /\ \A p \in memberAsks : p.seen \in MemberLists
      BY <1>0 DEF MembersShape, MemberAsks
    <3> QED
      BY <1>0, <2>1, <2>2, <3>1, <3>2 DEF ReadsAreTrue, ReadIsTrue
  <2>6. OldOnlyForNow'
    BY <2>1, <2>2 DEF OldOnlyForNow, BringsNews
  <2> QED
    BY <2>4, <2>5, <2>6 DEF MembersInv
<1>3. ASSUME NEW q \in memberAsks, AsksForList(q) PROVE MembersInv'
  <2> DEFINE r == [q EXCEPT !.step = "listing"]
  <2>1. memberAsks' = (memberAsks \ {q}) \cup {r}
        /\ UNCHANGED <<member, commits, shownMembers, memberAsked, behind>>
    BY <1>3 DEF AsksForList
  <2>2. r \in MemberAsks /\ r.step = "listing"
    BY <1>0, NextStepOfAsk DEF MembersShape
  <2> HIDE DEF r
  <2>3. MembersShape'
    BY <1>0, <2>1, <2>2 DEF MembersShape
  <2>4. ReadsAreTrue'
    BY <1>0, <2>1, <2>2 DEF ReadsAreTrue, ReadIsTrue
  <2>5. OldOnlyForNow'
    BY <1>0, <2>1, <2>2 DEF OldOnlyForNow, BringsNews
  <2> QED
    BY <2>3, <2>4, <2>5 DEF MembersInv
<1>4. ASSUME NEW q \in memberAsks, ListIsRead(q) PROVE MembersInv'
  <2> DEFINE r == [q EXCEPT !.step = "read", !.seen = [list |-> member, at |-> commits]]
  <2>1. memberAsks' = (memberAsks \ {q}) \cup {r}
        /\ UNCHANGED <<member, commits, shownMembers, memberAsked, behind>>
    BY <1>4 DEF ListIsRead
  <2>2. r \in MemberAsks /\ r.step = "read" /\ r.seen.at = commits /\ r.seen.list = member
    BY <1>0 DEF MembersShape, MemberAsks, MemberLists
  <2> HIDE DEF r
  <2>3. MembersShape'
    BY <1>0, <2>1, <2>2 DEF MembersShape
  <2>4. ReadsAreTrue'
    BY <1>0, <2>1, <2>2 DEF ReadsAreTrue, ReadIsTrue, MembersShape
  <2>5. OldOnlyForNow'
    BY <1>0, <2>1, <2>2 DEF OldOnlyForNow, BringsNews
  <2> QED
    BY <2>3, <2>4, <2>5 DEF MembersInv
<1>5. ASSUME NEW q \in memberAsks, UsersArrive(q) PROVE MembersInv'
  <2>1. /\ q.step = "read" /\ memberAsks' = memberAsks \ {q} /\ shownMembers' = q.seen
        /\ UNCHANGED <<member, commits, memberAsked>>
    BY <1>5 DEF UsersArrive
  <2>2. behind' \in BOOLEAN /\ (~behind' => ~(q.seen.at < shownMembers.at))
        /\ (~behind' /\ q.seen.at # commits => ~behind)
    BY <1>5 DEF UsersArrive
  <2>3. q.seen \in MemberLists /\ q.seen.at \in Nat /\ shownMembers.at \in Nat /\ commits \in Nat
    BY <1>0 DEF MembersShape, MemberAsks, MemberLists
  <2>4. MembersShape'
    BY <1>0, <2>1, <2>2, <2>3 DEF MembersShape
  <2>5. ReadsAreTrue'
    BY <1>0, <2>1 DEF ReadsAreTrue, ReadIsTrue
  <2>6. OldOnlyForNow'
    <3> SUFFICES ASSUME ~behind', q.seen.at # commits
                 PROVE  \E p \in memberAsks \ {q} : BringsNews(p)
      BY <2>1 DEF OldOnlyForNow, BringsNews
    <3>1. shownMembers.at # commits /\ ~behind
      BY <1>0, <2>1, <2>2, <2>3 DEF ReadsAreTrue, ReadIsTrue
    <3>2. PICK p \in memberAsks : BringsNews(p)
      BY <1>0, <3>1 DEF OldOnlyForNow
    <3> QED
      BY <2>1, <3>2 DEF BringsNews
  <2> QED
    BY <2>4, <2>5, <2>6 DEF MembersInv
<1>6. ASSUME NEW q \in memberAsks, MemberAskFails(q) PROVE MembersInv'
  <2>1. memberAsks' = memberAsks \ {q} /\ UNCHANGED <<member, commits, shownMembers, memberAsked>>
    BY <1>6 DEF MemberAskFails
  <2>2. behind' \in BOOLEAN /\ (~behind' => ~behind /\ q.step = "asked")
    BY <1>6 DEF MemberAskFails
  <2>3. MembersShape'
    BY <1>0, <2>1, <2>2 DEF MembersShape
  <2>4. ReadsAreTrue'
    BY <1>0, <2>1 DEF ReadsAreTrue, ReadIsTrue
  <2>5. OldOnlyForNow'
    BY <1>0, <2>1, <2>2 DEF OldOnlyForNow, BringsNews
  <2> QED
    BY <2>3, <2>4, <2>5 DEF MembersInv
<1>7. CASE UNCHANGED memberVars
  BY <1>0, <1>7 DEF memberVars, MembersInv, MembersShape, ReadsAreTrue, ReadIsTrue, OldOnlyForNow,
                    BringsNews
<1> QED
  BY <1>1, <1>2, <1>3, <1>4, <1>5, <1>6, <1>7 DEF MembersNext

-----------------------------------------------------------------------------
(* The notices: a deletion that finds its notice in the form began with it  *)
(* there.                                                                   *)

NoticeAsks ==
    [n : Nat, kind : {"save", "delete", "list"}, saves : BOOLEAN, id : NoticeIds \cup {NoNotice},
     editing : NoticeIds \cup {NoNotice}]

NoticesShape ==
    /\ notices \subseteq NoticeIds /\ shownNotices \subseteq NoticeIds
    /\ editingAnnId \in NoticeIds \cup {NoNotice} /\ noticeAsked \in Nat
    /\ noticeAsks \subseteq NoticeAsks

EditedExists == editingAnnId # NoNotice /\ ~lateEdit => editingAnnId \in notices
DeletionsClear ==
    \A q \in noticeAsks :
        q.kind = "delete" /\ q.id = editingAnnId /\ editingAnnId # NoNotice /\ ~lateEdit => q.editing = q.id

NoticesInv == NoticesShape /\ EditedExists /\ DeletionsClear

LEMMA NoticesInvInit == NoticesInit => NoticesInv
BY DEF NoticesInit, NoticesInv, NoticesShape, EditedExists, DeletionsClear

\* A request that is none of the deletions joins the others.
LEMMA NoticesInvStep ==
    ASSUME NoticesInv, NoticesNext \/ UNCHANGED noticeVars
    PROVE  NoticesInv'
<1>0. NoticesShape /\ EditedExists /\ DeletionsClear
  BY DEF NoticesInv
<1>1. CASE TypeTitle \/ UNCHANGED noticeVars
  <2>1. UNCHANGED <<notices, shownNotices, editingAnnId, noticeAsks, noticeAsked, lateEdit>>
    BY <1>1 DEF TypeTitle, noticeVars
  <2> QED
    BY <1>0, <2>1 DEF NoticesInv, NoticesShape, EditedExists, DeletionsClear
<1>2. CASE CancelEdit
  <2>1. editingAnnId' = NoNotice /\ UNCHANGED <<notices, shownNotices, noticeAsks, noticeAsked>>
    BY <1>2 DEF CancelEdit, FormReset
  <2> QED
    BY <1>0, <2>1 DEF NoticesInv, NoticesShape, EditedExists, DeletionsClear
<1>3. CASE SaveAnnouncement \/ RefreshNotices
  <2>1. PICK q : /\ noticeAsks' = noticeAsks \cup {q} /\ q \in NoticeAsks /\ q.kind # "delete"
                 /\ noticeAsked' \in Nat
                 /\ UNCHANGED <<notices, shownNotices, editingAnnId, lateEdit>>
    <3>1. CASE SaveAnnouncement
      <4> DEFINE q == [n |-> noticeAsked + 1, kind |-> "save", saves |-> TRUE, id |-> editingAnnId,
                       editing |-> editingAnnId]
      <4>1. q \in NoticeAsks /\ q.kind # "delete"
        BY <1>0 DEF NoticesShape, NoticeAsks
      <4>2. noticeAsks' = noticeAsks \cup {q} /\ noticeAsked' = noticeAsked + 1
            /\ UNCHANGED <<notices, shownNotices, editingAnnId, lateEdit>>
        BY <3>1 DEF SaveAnnouncement
      <4>3. noticeAsked' \in Nat
        BY <1>0, <4>2 DEF NoticesShape
      <4> HIDE DEF q
      <4> QED
        BY <4>1, <4>2, <4>3
    <3>2. CASE RefreshNotices
      <4> DEFINE q == [n |-> noticeAsked + 1, kind |-> "list", saves |-> FALSE, id |-> NoNotice,
                       editing |-> NoNotice]
      <4>1. q \in NoticeAsks /\ q.kind # "delete"
        BY <1>0 DEF NoticesShape, NoticeAsks
      <4>2. noticeAsks' = noticeAsks \cup {q} /\ noticeAsked' = noticeAsked + 1
            /\ UNCHANGED <<notices, shownNotices, editingAnnId, lateEdit>>
        BY <3>2 DEF RefreshNotices
      <4>3. noticeAsked' \in Nat
        BY <1>0, <4>2 DEF NoticesShape
      <4> HIDE DEF q
      <4> QED
        BY <4>1, <4>2, <4>3
    <3> QED
      BY <1>3, <3>1, <3>2
  <2>2. NoticesShape'
    BY <1>0, <2>1 DEF NoticesShape
  <2>3. EditedExists' /\ DeletionsClear'
    BY <1>0, <2>1 DEF EditedExists, DeletionsClear
  <2> QED
    BY <2>2, <2>3 DEF NoticesInv
<1>4. ASSUME NEW id \in NoticeIds, StartEditAnn(id) PROVE NoticesInv'
  <2>1. editingAnnId' = id /\ UNCHANGED <<notices, shownNotices, noticeAsks, noticeAsked>>
    BY <1>4 DEF StartEditAnn
  <2>2. ~lateEdit' => id \in notices /\ \A q \in noticeAsks : ~(q.kind = "delete" /\ q.id = id)
    BY <1>4 DEF StartEditAnn
  <2> QED
    BY <1>0, <2>1, <2>2 DEF NoticesInv, NoticesShape, EditedExists, DeletionsClear
<1>5. ASSUME NEW id \in NoticeIds, DeleteAnn(id) PROVE NoticesInv'
  <2> DEFINE q == [n |-> noticeAsked + 1, kind |-> "delete", saves |-> FALSE, id |-> id,
                   editing |-> editingAnnId]
  <2>1. noticeAsks' = noticeAsks \cup {q} /\ noticeAsked' = noticeAsked + 1
        /\ UNCHANGED <<notices, shownNotices, editingAnnId, lateEdit>>
    BY <1>5 DEF DeleteAnn
  <2>2. q \in NoticeAsks /\ q.id = id /\ q.editing = editingAnnId
    BY <1>0 DEF NoticesShape, NoticeAsks
  <2> HIDE DEF q
  <2>3. NoticesShape'
    BY <1>0, <2>1, <2>2 DEF NoticesShape
  <2>4. EditedExists' /\ DeletionsClear'
    BY <1>0, <2>1, <2>2 DEF EditedExists, DeletionsClear
  <2> QED
    BY <2>3, <2>4 DEF NoticesInv
<1>6. ASSUME NEW q \in noticeAsks, NoticeDone(q) PROVE NoticesInv'
  <2> DEFINE r == [q EXCEPT !.kind = "list"]
  <2>1. noticeAsks' = (noticeAsks \ {q}) \cup {r} /\ UNCHANGED <<shownNotices, noticeAsked>>
    BY <1>6 DEF NoticeDone
  <2>2. q \in NoticeAsks /\ r \in NoticeAsks /\ r.kind = "list"
    BY <1>0 DEF NoticesShape, NoticeAsks
  <2> HIDE DEF r
  <2>3. notices' \subseteq NoticeIds
    BY <1>0, <1>6 DEF NoticeDone, NoticesShape
  <2>4. CASE ClearsForm(q)
    <3>1. editingAnnId' = NoNotice
      BY <1>6, <2>4 DEF NoticeDone, FormReset
    <3> QED
      BY <1>0, <2>1, <2>2, <2>3, <3>1 DEF NoticesInv, NoticesShape, EditedExists, DeletionsClear
  <2>5. CASE ~ClearsForm(q)
    <3>1. q.kind = "delete" /\ UNCHANGED <<editingAnnId, lateEdit>> /\ q.editing # q.id
          /\ notices' = notices \ {q.id}
      BY <1>6, <2>2, <2>5 DEF NoticeDone, ClearsForm, NoticeAsks
    <3>2. NoticesShape'
      BY <1>0, <2>1, <2>2, <2>3, <3>1 DEF NoticesShape
    <3>3. EditedExists'
      BY <1>0, <3>1 DEF EditedExists, DeletionsClear
    <3>4. DeletionsClear'
      BY <1>0, <2>1, <2>2, <3>1 DEF DeletionsClear
    <3> QED
      BY <3>2, <3>3, <3>4 DEF NoticesInv
  <2> QED
    BY <2>4, <2>5
<1>7. ASSUME NEW q \in noticeAsks, NoticesListed(q) \/ NoticeFails(q) PROVE NoticesInv'
  <2>1. noticeAsks' = noticeAsks \ {q} /\ shownNotices' \in {shownNotices, notices}
        /\ UNCHANGED <<notices, editingAnnId, noticeAsked, lateEdit>>
    BY <1>7 DEF NoticesListed, NoticeFails
  <2> QED
    BY <1>0, <2>1 DEF NoticesInv, NoticesShape, EditedExists, DeletionsClear
<1> QED
  BY <1>1, <1>2, <1>3, <1>4, <1>5, <1>6, <1>7 DEF NoticesNext

-----------------------------------------------------------------------------
(* The panel of the home page: its main step needs a token.                 *)

DoorInv == panelStep \in {"password", "main"} /\ (panelStep = "main" => panelToken)

LEMMA DoorInvInit == PanelDoorInit => DoorInv
BY DEF PanelDoorInit, DoorInv

LEMMA DoorInvStep ==
    ASSUME DoorInv, PanelDoorNext \/ UNCHANGED panelDoorVars
    PROVE  DoorInv'
<1>1. CASE OpenPanel
  BY <1>1 DEF OpenPanel, DoorInv
<1>2. CASE ClosePanel \/ HandleLogoutPanel
  BY <1>2 DEF ClosePanel, HandleLogoutPanel, DoorInv
<1>3. CASE HandleLogin \/ UNCHANGED panelDoorVars
  BY <1>3 DEF HandleLogin, panelDoorVars, DoorInv
<1>4. ASSUME NEW kind, AskFromPanel(kind) PROVE DoorInv'
  BY <1>4 DEF AskFromPanel, DoorInv
<1>5. ASSUME NEW q, LoginAnswers(q) \/ PanelAnswers(q) PROVE DoorInv'
  BY <1>5 DEF LoginAnswers, PanelAnswers, DoorInv
<1>6. ASSUME NEW q, PanelAskFails(q) PROVE DoorInv'
  BY <1>6 DEF PanelAskFails, DoorInv
<1> QED
  BY <1>1, <1>2, <1>3, <1>4, <1>5, <1>6 DEF PanelDoorNext

LEMMA AdminSound ==
    ASSUME MembersInv, NoticesInv, DoorInv
    PROVE  AdminSeesServer
<1>1. shownMembers.list # member /\ ~behind => \E q \in memberAsks : BringsNews(q)
  BY DEF MembersInv, ReadsAreTrue, ReadIsTrue, OldOnlyForNow
<1>2. editingAnnId # NoNotice /\ ~lateEdit => editingAnnId \in notices
  BY DEF NoticesInv, EditedExists
<1>3. panelOpen /\ panelStep = "main" => panelToken
  BY DEF DoorInv
<1> QED
  BY <1>1, <1>2, <1>3 DEF AdminSeesServer

-----------------------------------------------------------------------------
(* The file in the kernel.                                                 *)

\* What is being loaded is what is named, and while a file is uploaded nothing
\* is loaded or marked, unless another was chosen under the load.
LoadInv ==
    /\ LoadTypeOK
    /\ ~swapped => /\ loadOf \in {named, NoTable}
                   /\ upStage = "uploading" => loadOf = NoTable /\ ~marked
    /\ MarkIsOfNamed

LEMMA LoadInvInit == ASSUME LoadInit PROVE LoadInv
BY DEF LoadInit, LoadInv, LoadTypeOK, MarkIsOfNamed

LEMMA LoadInvStep ==
    ASSUME LoadInv, LoadNext \/ UNCHANGED loadVars
    PROVE  LoadInv'
<1> USE LoadAssumption DEF LoadInv, LoadTypeOK, MarkIsOfNamed
<1>1. CASE ChooseTable
  BY <1>1 DEF ChooseTable
<1>2. CASE TableUploadFails
  BY <1>2 DEF TableUploadFails
<1>3. CASE LoadTable
  BY <1>3 DEF LoadTable
<1>4. CASE TableLoaded
  BY <1>4 DEF TableLoaded
<1>5. CASE TableLoadFails
  BY <1>5 DEF TableLoadFails
<1>6. CASE KernelStarts
  BY <1>6 DEF KernelStarts
<1>7. ASSUME NEW f \in Tables, TableUploaded(f)
      PROVE  LoadInv'
  BY <1>7 DEF TableUploaded
<1>8. ASSUME NEW ok \in BOOLEAN, TablePreviewed(ok)
      PROVE  LoadInv'
  BY <1>8 DEF TablePreviewed
<1>9. CASE UNCHANGED loadVars
  BY <1>9 DEF loadVars
<1> QED
  BY <1>1, <1>2, <1>3, <1>4, <1>5, <1>6, <1>7, <1>8, <1>9 DEF LoadNext

-----------------------------------------------------------------------------
(* The traces.                                                             *)

\* What is stored is shown, and nothing is shown that was not made.
TracesInv ==
    /\ made \in Nat /\ tracesShown \subseteq 1 .. made /\ atServer \subseteq 1 .. made
    /\ posting \subseteq 1 .. made /\ tracesKept \subseteq tracesShown
    /\ NewestTracesKept

LEMMA TracesInvInit == ASSUME TraceInit PROVE TracesInv
<1>1. 1 .. 0 = {}
  OBVIOUS
<1> QED
  BY <1>1 DEF TraceInit, TracesInv, NewestTracesKept, Newest

\* Of the records that were made, those among the newest are among the newest
\* of any list that has them.
LEMMA NewestInList ==
    ASSUME NEW n \in Nat, NEW S \in SUBSET (1 .. n), NEW k \in Nat
    PROVE  Newest(1 .. n, k) \cap S \subseteq Newest(S, k)
<1> SUFFICES ASSUME NEW t \in Newest(1 .. n, k), t \in S
             PROVE  Cardinality({u \in S : u > t}) < k
  BY DEF Newest
<1> DEFINE above == {u \in 1 .. n : u > t}
           higher == {u \in S : u > t}
<1>1. IsFiniteSet(above) /\ higher \subseteq above
  <2>1. IsFiniteSet(1 .. n) /\ above \subseteq 1 .. n
    BY FS_Interval
  <2> QED
    BY <2>1, FS_Subset
<1>2. Cardinality(higher) <= Cardinality(above) /\ Cardinality(above) \in Nat
      /\ Cardinality(higher) \in Nat
  BY <1>1, FS_Subset, FS_CardinalityType
<1>3. Cardinality(above) < k
  BY DEF Newest
<1> QED
  BY <1>2, <1>3

\* One more record: the newest of before but perhaps the oldest of them.
LEMMA NewestGrows ==
    ASSUME NEW n \in Nat, NEW k \in Nat
    PROVE  Newest(1 .. n + 1, k) \subseteq Newest(1 .. n, k) \cup {n + 1}
<1> SUFFICES ASSUME NEW t \in Newest(1 .. n + 1, k), t # n + 1
             PROVE  t \in 1 .. n /\ Cardinality({u \in 1 .. n : u > t}) < k
  BY DEF Newest
<1> DEFINE above == {u \in 1 .. n + 1 : u > t}
           before == {u \in 1 .. n : u > t}
<1>1. IsFiniteSet(above) /\ before \subseteq above
  BY FS_Interval, FS_Subset
<1>2. Cardinality(before) <= Cardinality(above) /\ Cardinality(above) \in Nat
      /\ Cardinality(before) \in Nat
  BY <1>1, FS_Subset, FS_CardinalityType
<1>3. Cardinality(above) < k /\ t \in 1 .. n + 1
  BY DEF Newest
<1> QED
  BY <1>2, <1>3

\* A list that had what is stored grows, and the newest of it are stored.
LEMMA ListKeepsNewest ==
    ASSUME TracesInv, NEW n \in Nat, NEW U, NEW S \in SUBSET (1 .. n),
           n = made \/ (n = made + 1 /\ n \in S), tracesShown \subseteq S, unstored \ S \subseteq U
    PROVE  /\ Newest(1 .. n, KeepLocal) \ U \subseteq Newest(S, KeepLocal)
           /\ Newest(S, KeepLocal) \subseteq S
<1>1. Newest(1 .. n, KeepLocal) \subseteq Newest(1 .. made, KeepLocal) \cup (S \cap {n})
      \/ n = made
  BY NewestGrows, TraceAssumption DEF TracesInv
<1>2. Newest(1 .. n, KeepLocal) \ U \subseteq S
  BY <1>1 DEF TracesInv, NewestTracesKept
<1>3. Newest(1 .. n, KeepLocal) \cap S \subseteq Newest(S, KeepLocal)
  BY NewestInList, TraceAssumption
<1> QED
  BY <1>2, <1>3 DEF Newest

LEMMA TracesInvStep ==
    ASSUME TracesInv, TraceNext \/ UNCHANGED traceVars
    PROVE  TracesInv'
<1> USE DEF TracesInv, NewestTracesKept
<1>1. CASE Record
  <2>1. made + 1 \in Nat /\ 1 .. made \subseteq 1 .. made + 1 /\ made + 1 \in 1 .. made + 1
        /\ made' = made + 1 /\ posting' = posting \cup {made + 1} /\ atServer' = atServer
    BY <1>1 DEF Record
  <2>2. CASE alive
    <3>1. tracesShown' = tracesShown \cup {made + 1} /\ WriteLocal({made + 1})
      BY <1>1, <2>2 DEF Record
    <3>2. tracesShown' \in SUBSET (1 .. made + 1)
      BY <2>1, <3>1
    <3>3. CASE /\ tracesKept' = Newest(tracesShown', KeepLocal)
               /\ unstored' = unstored \ tracesShown'
      <4>1. /\ Newest(1 .. made + 1, KeepLocal) \ unstored' \subseteq Newest(tracesShown', KeepLocal)
            /\ Newest(tracesShown', KeepLocal) \subseteq tracesShown'
        BY <2>1, <3>1, <3>2, <3>3, ListKeepsNewest
      <4> QED
        BY <2>1, <3>1, <3>2, <3>3, <4>1
    <3>4. CASE tracesKept' = tracesKept /\ unstored' = unstored \cup {made + 1}
      <4>1. Newest(1 .. made + 1, KeepLocal) \subseteq Newest(1 .. made, KeepLocal) \cup {made + 1}
        BY NewestGrows, TraceAssumption
      <4> QED
        BY <2>1, <3>1, <3>2, <3>4, <4>1
    <3> QED
      BY <3>1, <3>3, <3>4 DEF WriteLocal
  <2>3. CASE ~alive
    <3>1. unstored' = unstored \cup {made + 1} /\ UNCHANGED <<tracesShown, tracesKept>>
      BY <1>1, <2>1, <2>3 DEF Record
    <3>2. Newest(1 .. made + 1, KeepLocal) \subseteq Newest(1 .. made, KeepLocal) \cup {made + 1}
      BY NewestGrows, TraceAssumption
    <3> QED
      BY <2>1, <3>1, <3>2
  <2> QED
    BY <2>2, <2>3
<1>2. ASSUME NEW t \in 1 .. MaxTraces, PostEnds(t)
      PROVE  TracesInv'
  BY <1>2 DEF PostEnds
<1>3. CASE ServerListArrives
  <2>1. made' = made /\ atServer' = atServer /\ posting' = posting
    BY <1>3 DEF ServerListArrives
  <2>2. CASE UNCHANGED <<tracesShown, tracesKept, unstored>>
    BY <2>1, <2>2
  <2>3. CASE tracesShown' = tracesShown \cup Newest(atServer, AskServer) /\ WriteLocal({})
    <3>1. tracesShown' \in SUBSET (1 .. made)
      BY <2>3 DEF Newest
    <3>2. CASE tracesKept' = Newest(tracesShown', KeepLocal) /\ unstored' = unstored \ tracesShown'
      <4>1. /\ Newest(1 .. made, KeepLocal) \ unstored' \subseteq Newest(tracesShown', KeepLocal)
            /\ Newest(tracesShown', KeepLocal) \subseteq tracesShown'
        BY <2>3, <3>1, <3>2, ListKeepsNewest
      <4> QED
        BY <2>1, <2>3, <3>1, <3>2, <4>1
    <3>3. CASE tracesKept' = tracesKept /\ unstored' = unstored
      BY <2>1, <2>3, <3>1, <3>3
    <3> QED
      BY <2>3, <3>2, <3>3 DEF WriteLocal
  <2> QED
    BY <1>3, <2>2, <2>3 DEF ServerListArrives
<1>4. CASE ToggleTraces
  BY <1>4 DEF ToggleTraces
<1>5. CASE CloseTraces
  BY <1>5 DEF CloseTraces
<1>6. CASE OpenTraces
  BY <1>6 DEF OpenTraces
<1>7. CASE UNCHANGED traceVars
  BY <1>7 DEF traceVars
<1> QED
  BY <1>1, <1>2, <1>3, <1>4, <1>5, <1>6, <1>7 DEF TraceNext

-----------------------------------------------------------------------------
(* The columns around the notebook.                                        *)

\* A drag is of one of the two sides, and begins with a width.
ColumnsInv ==
    /\ drag.side \in Sides \cup {"none"} /\ drag.from \in Int
    /\ column \in [Sides -> Int] /\ ColumnsHold

LEMMA ClampedHolds ==
    ASSUME NEW s \in Sides, NEW w \in Int
    PROVE  Clamped(s, w) \in Int /\ Clamped(s, w) \in Width[s].min .. Width[s].max
BY FrameAssumption DEF Clamped, Sides

LEMMA ColumnsInvInit == ASSUME FrameInit PROVE ColumnsInv
<1>1. PICK w \in -Reach .. Reach : column = [s \in Sides |-> Clamped(s, Width[s].default + w)]
  BY DEF FrameInit
<1>2. \A s \in Sides : Width[s].default + w \in Int
  BY FrameAssumption DEF Sides
<1>3. drag.side = "none" /\ drag.from = 0
  BY DEF FrameInit, NoDrag
<1> QED
  BY <1>1, <1>2, <1>3, ClampedHolds DEF ColumnsInv, ColumnsHold

LEMMA ColumnsInvStep ==
    ASSUME ColumnsInv, FrameNext \/ UNCHANGED frameVars
    PROVE  ColumnsInv'
<1>1. ASSUME UNCHANGED <<column, drag>> PROVE ColumnsInv'
  BY <1>1 DEF ColumnsInv, ColumnsHold
<1>2. ASSUME NEW s \in Sides, FoldSide(s) PROVE ColumnsInv'
  BY <1>1, <1>2 DEF FoldSide
<1>3. ASSUME NEW s \in Sides, BeginColumnDrag(s) PROVE ColumnsInv'
  BY <1>3 DEF BeginColumnDrag, ColumnsInv, ColumnsHold
<1>4. ASSUME NEW dx \in -Reach .. Reach, DragTo(dx) PROVE ColumnsInv'
  <2> DEFINE w == IF drag.side = "left" THEN drag.from + dx ELSE drag.from - dx
  <2>1. w \in Int
    BY FrameAssumption DEF ColumnsInv
  <2>2. column' = [column EXCEPT ![drag.side] = Clamped(drag.side, w)] /\ drag' = drag
    BY <1>4 DEF DragTo
  <2> HIDE DEF w
  <2>3. CASE drag.side \in Sides
    BY <2>1, <2>2, <2>3, ClampedHolds DEF ColumnsInv, ColumnsHold
  <2>4. CASE drag.side = "none"
    <3>1. column' = column
      BY <2>2, <2>4 DEF ColumnsInv, Sides
    <3> QED
      BY <1>1, <2>2, <3>1
  <2> QED
    BY <2>3, <2>4 DEF ColumnsInv
<1>5. CASE EndDrag
  BY <1>5 DEF EndDrag, NoDrag, ColumnsInv, ColumnsHold
<1>6. CASE ResetLayout
  BY <1>6, FrameAssumption DEF ResetLayout, ColumnsInv, ColumnsHold, Sides
<1>7. CASE TabsNext
  BY <1>1, <1>2, <1>7 DEF TabsNext, ChangeTab, GatewayAnswers, ShowRecord
<1>8. CASE TraceViewNext
  BY <1>1, <1>8 DEF TraceViewNext, Trace, ClearTrace, FilterTrace, UnfoldRow
<1>9. CASE UNCHANGED frameVars
  BY <1>1, <1>9 DEF frameVars
<1> QED
  BY <1>2, <1>3, <1>4, <1>5, <1>6, <1>7, <1>8, <1>9 DEF FrameNext, SideNext

-----------------------------------------------------------------------------
(* The choice of the provider.                                             *)

\* The last news on its way to a tab is of the stored choice, unless the tab
\* chose under older news.
ChoiceInv ==
    /\ aiEvents \in [AiTabs -> Seq(ChatChoices)] /\ DOMAIN aiShown = AiTabs /\ DOMAIN aiPage = AiTabs
    /\ \A t \in AiTabs \ aiCrossed : aiEvents[t] # <<>> => aiEvents[t][Len(aiEvents[t])] = aiStored
    /\ ChoiceIsShared

LEMMA ChoiceInvInit == ASSUME AiInit PROVE ChoiceInv
<1>1. <<>> \in Seq(ChatChoices)
  BY EmptySeq
<1> QED
  BY <1>1 DEF AiInit, ChoiceInv, ChoiceIsShared

LEMMA AppendLast ==
    ASSUME NEW S, NEW s \in Seq(S), NEW v \in S
    PROVE  /\ Append(s, v) \in Seq(S) /\ Append(s, v) # <<>>
           /\ Append(s, v)[Len(Append(s, v))] = v
BY AppendProperties

LEMMA TailLast ==
    ASSUME NEW S, NEW s \in Seq(S), s # <<>>
    PROVE  /\ Tail(s) \in Seq(S)
           /\ Tail(s) # <<>> => Tail(s)[Len(Tail(s))] = s[Len(s)]
           /\ Tail(s) = <<>> => Head(s) = s[Len(s)]
<1>1. Len(s) \in Nat \ {0} /\ Len(Tail(s)) = Len(s) - 1 /\ Tail(s) \in Seq(S) /\ Head(s) = s[1]
      /\ \A i \in 1 .. Len(s) - 1 : Tail(s)[i] = s[i + 1]
  BY HeadTailProperties, EmptySeq
<1>2. CASE Len(s) = 1
  <2>1. Len(Tail(s)) = 0
    BY <1>1, <1>2
  <2>2. Tail(s) = <<>>
    BY <1>1, <2>1, EmptySeq
  <2> QED
    BY <1>1, <1>2, <2>2
<1>3. CASE Len(s) > 1
  <2>1. Len(s) - 1 \in 1 .. Len(s) - 1 /\ Len(Tail(s)) # 0
    BY <1>1, <1>3
  <2>2. Tail(s) # <<>>
    BY <2>1, EmptySeq
  <2> QED
    BY <1>1, <1>3, <2>1, <2>2
<1> QED
  BY <1>1, <1>2, <1>3

LEMMA ChoiceInvStep ==
    ASSUME ChoiceInv, ChoiceNext \/ UNCHANGED aiVars
    PROVE  ChoiceInv'
<1>1. ASSUME NEW t \in AiTabs, StorageEvent(t) PROVE ChoiceInv'
  <2> DEFINE s == aiEvents[t]
  <2>1. s \in Seq(ChatChoices) /\ s # <<>> /\ aiEvents' = [aiEvents EXCEPT ![t] = Tail(s)]
        /\ aiStored' = aiStored /\ aiCrossed' = aiCrossed /\ aiPage' = aiPage
    BY <1>1 DEF StorageEvent, ChoiceInv
  <2>2. aiPage[t] = "desk" => aiShown' = [aiShown EXCEPT ![t] = Normal(Head(s))]
    BY <1>1 DEF StorageEvent
  <2>3. aiPage[t] # "desk" => aiShown' = aiShown
    BY <1>1 DEF StorageEvent
  <2>4. t \notin aiCrossed => s[Len(s)] = aiStored
    BY <2>1 DEF ChoiceInv
  <2> HIDE DEF s
  <2>5. /\ Tail(s) \in Seq(ChatChoices)
        /\ Tail(s) # <<>> => Tail(s)[Len(Tail(s))] = s[Len(s)]
        /\ Tail(s) = <<>> => Head(s) = s[Len(s)]
    BY <2>1, TailLast
  <2>6. aiEvents' \in [AiTabs -> Seq(ChatChoices)] /\ DOMAIN aiShown' = AiTabs
    BY <2>1, <2>2, <2>3, <2>5 DEF ChoiceInv
  <2>7. \A o \in AiTabs \ aiCrossed : aiEvents'[o] # <<>> => aiEvents'[o][Len(aiEvents'[o])] = aiStored
    BY <2>1, <2>4, <2>5 DEF ChoiceInv
  <2>8. \A o \in AiTabs \ aiCrossed :
           aiPage[o] = "desk" /\ aiEvents'[o] = <<>> => aiShown'[o] = Normal(aiStored)
    BY <2>1, <2>2, <2>3, <2>4, <2>5 DEF ChoiceInv, ChoiceIsShared
  <2> QED
    BY <2>1, <2>6, <2>7, <2>8 DEF ChoiceInv, ChoiceIsShared, Normal
<1>2. ASSUME NEW t \in AiTabs, NEW p \in {"none", "chat", "desk"}, OpenAiPage(t, p)
      PROVE  ChoiceInv'
  <2>1. /\ aiPage' = [aiPage EXCEPT ![t] = p] /\ UNCHANGED <<aiStored, aiEvents>>
        /\ aiShown' = [aiShown EXCEPT ![t] = ShownOn(p, aiStored)]
        /\ aiEvents[t] # <<>> => aiCrossed' = aiCrossed
        /\ aiEvents[t] = <<>> => aiCrossed' = aiCrossed \ {t}
    BY <1>2 DEF OpenAiPage
  <2>2. p = "desk" => ShownOn(p, aiStored) = Normal(aiStored)
    BY DEF ShownOn
  <2>3. \A o \in AiTabs \ aiCrossed' : aiEvents[o] # <<>> => aiEvents[o][Len(aiEvents[o])] = aiStored
    BY <2>1 DEF ChoiceInv
  <2>4. \A o \in AiTabs \ aiCrossed' :
           aiPage'[o] = "desk" /\ aiEvents[o] = <<>> => aiShown'[o] = Normal(aiStored)
    BY <2>1, <2>2 DEF ChoiceInv, ChoiceIsShared
  <2> QED
    BY <2>1, <2>3, <2>4 DEF ChoiceInv, ChoiceIsShared, Normal
<1>3. ASSUME NEW t \in AiTabs, NEW v \in ChatChoices, ChooseProvider(t, v) PROVE ChoiceInv'
  <2>1. /\ aiPage' = aiPage /\ aiShown' = [aiShown EXCEPT ![t] = v] /\ aiStored' = v
        /\ aiEvents' = [o \in AiTabs |->
              IF o = t \/ v = aiStored THEN aiEvents[o] ELSE Append(aiEvents[o], v)]
        /\ aiPage[t] = "desk" => v \in DeskProviders
    BY <1>3 DEF ChooseProvider, WriteChoice
  <2>2. /\ aiEvents[t] # <<>> => t \in aiCrossed'
        /\ v = aiStored => aiCrossed \subseteq aiCrossed' \cup {t}
    BY <1>3 DEF ChooseProvider, WriteChoice
  <2>3. aiPage[t] = "desk" => Normal(v) = v
    BY <2>1 DEF Normal
  <2>4. \A o \in AiTabs : /\ Append(aiEvents[o], v) \in Seq(ChatChoices) /\ Append(aiEvents[o], v) # <<>>
                          /\ Append(aiEvents[o], v)[Len(Append(aiEvents[o], v))] = v
    BY AppendLast DEF ChoiceInv
  <2>5. aiEvents' \in [AiTabs -> Seq(ChatChoices)] /\ DOMAIN aiShown' = AiTabs
    BY <2>1, <2>4 DEF ChoiceInv
  <2>6. \A o \in AiTabs \ aiCrossed' : aiEvents'[o] # <<>> => aiEvents'[o][Len(aiEvents'[o])] = v
    BY <2>1, <2>2, <2>4 DEF ChoiceInv
  <2>7. \A o \in AiTabs \ aiCrossed' :
           aiPage[o] = "desk" /\ aiEvents'[o] = <<>> => aiShown'[o] = Normal(v)
    BY <2>1, <2>2, <2>3, <2>4 DEF ChoiceInv, ChoiceIsShared
  <2> QED
    BY <2>1, <2>5, <2>6, <2>7 DEF ChoiceInv, ChoiceIsShared, Normal
<1>4. CASE UNCHANGED aiVars
  BY <1>4 DEF aiVars, ChoiceInv, ChoiceIsShared, Normal
<1> QED
  BY <1>1, <1>2, <1>3, <1>4 DEF ChoiceNext

-----------------------------------------------------------------------------
(* The guide: the open place.                                              *)

\* A stage and one of its activities.
Fits(p) ==
    /\ p = [stage |-> p.stage, activity |-> p.activity] /\ p.stage \in ToSet(Stages)
    /\ \E a \in ToSet(ActivitiesOf(p.stage)) : a.name = p.activity

LEMMA StageNames == ToSet(Stages) = {"define", "data", "run", "analyze", "report"}
BY DEF Stages, ToSet

\* Each list as a set.
LEMMA ListedActivities ==
    /\ ToSet(DefineActivities) =
          {Activity("define.goal", 2, {}), Activity("define.kpi", 1, {}),
           Activity("define.constraints", 1, {}), Activity("define.scope", 1, {})}
    /\ ToSet(DataActivities) =
          {Activity("data.ingest", 1, {"read"}), Activity("data.profile", 1, {"profile", "missing"}),
           Activity("data.clean", 1, {"clean"}), Activity("data.feature", 1, {"encode"}),
           Activity("data.split", 0, {"split"})}
    /\ ToSet(RunActivities) =
          {Activity("run.baseline", 1, {"baseline"}), Activity("run.candidates", 0, {"compare"}),
           Activity("run.tune", 0, {"tune"}), Activity("run.final", 0, {"final"}),
           Activity("run.log", 0, {"save"})}
    /\ ToSet(AnalyzeActivities) =
          {Activity("analyze.metrics", 0, {"curves"}), Activity("analyze.importance", 0, {"importance"}),
           Activity("analyze.errors", 1, {}), Activity("analyze.compare", 1, {})}
    /\ ToSet(ReportActivities) =
          {Activity("report.summary", 1, {}), Activity("report.method", 0, {}),
           Activity("report.results", 0, {}), Activity("report.limits", 0, {}),
           Activity("report.export", 0, {"export"})}
<1>1. ToSet(DefineActivities) =
          {Activity("define.goal", 2, {}), Activity("define.kpi", 1, {}),
           Activity("define.constraints", 1, {}), Activity("define.scope", 1, {})}
  BY DEF DefineActivities, ToSet
<1>2. ToSet(DataActivities) =
          {Activity("data.ingest", 1, {"read"}), Activity("data.profile", 1, {"profile", "missing"}),
           Activity("data.clean", 1, {"clean"}), Activity("data.feature", 1, {"encode"}),
           Activity("data.split", 0, {"split"})}
  BY DEF DataActivities, ToSet
<1>3. ToSet(RunActivities) =
          {Activity("run.baseline", 1, {"baseline"}), Activity("run.candidates", 0, {"compare"}),
           Activity("run.tune", 0, {"tune"}), Activity("run.final", 0, {"final"}),
           Activity("run.log", 0, {"save"})}
  BY DEF RunActivities, ToSet
<1>4. ToSet(AnalyzeActivities) =
          {Activity("analyze.metrics", 0, {"curves"}), Activity("analyze.importance", 0, {"importance"}),
           Activity("analyze.errors", 1, {}), Activity("analyze.compare", 1, {})}
  BY DEF AnalyzeActivities, ToSet
<1>5. ToSet(ReportActivities) =
          {Activity("report.summary", 1, {}), Activity("report.method", 0, {}),
           Activity("report.results", 0, {}), Activity("report.limits", 0, {}),
           Activity("report.export", 0, {"export"})}
  BY DEF ReportActivities, ToSet
<1> QED
  BY <1>1, <1>2, <1>3, <1>4, <1>5

\* The names of a stage.
NamesOf(stage) ==
    CASE stage = "define" -> {"define.goal", "define.kpi", "define.constraints", "define.scope"}
      [] stage = "data" -> {"data.ingest", "data.profile", "data.clean", "data.feature", "data.split"}
      [] stage = "run" -> {"run.baseline", "run.candidates", "run.tune", "run.final", "run.log"}
      [] stage = "analyze" -> {"analyze.metrics", "analyze.importance", "analyze.errors", "analyze.compare"}
      [] OTHER -> {"report.summary", "report.method", "report.results", "report.limits", "report.export"}

LEMMA NamesGiven ==
    \A s \in ToSet(Stages) : {a.name : a \in ToSet(ActivitiesOf(s))} = NamesOf(s)
<1>1. {a.name : a \in ToSet(DefineActivities)} = {"define.goal", "define.kpi", "define.constraints", "define.scope"}
  BY ListedActivities DEF Activity
<1>2. {a.name : a \in ToSet(DataActivities)} = {"data.ingest", "data.profile", "data.clean", "data.feature", "data.split"}
  BY ListedActivities DEF Activity
<1>3. {a.name : a \in ToSet(RunActivities)} = {"run.baseline", "run.candidates", "run.tune", "run.final", "run.log"}
  BY ListedActivities DEF Activity
<1>4. {a.name : a \in ToSet(AnalyzeActivities)} = {"analyze.metrics", "analyze.importance", "analyze.errors", "analyze.compare"}
  BY ListedActivities DEF Activity
<1>5. {a.name : a \in ToSet(ReportActivities)} = {"report.summary", "report.method", "report.results", "report.limits", "report.export"}
  BY ListedActivities DEF Activity
<1> QED
  BY <1>1, <1>2, <1>3, <1>4, <1>5, StageNames DEF ActivitiesOf, NamesOf

LEMMA NamesApart ==
    \A s, r \in ToSet(Stages) : \A n : n \in NamesOf(s) /\ n \in NamesOf(r) => s = r
BY StageNames DEF NamesOf

\* The stage of an activity that a stage has.
LEMMA StageIsOwn ==
    ASSUME NEW s \in ToSet(Stages), NEW a \in ToSet(ActivitiesOf(s))
    PROVE  StageOf(a.name) = s
<1>1. \A r \in ToSet(Stages) : \A b \in ToSet(ActivitiesOf(r)) : b.name \in NamesOf(r)
  BY NamesGiven
<1>2. a \in AllActivities
  BY DEF AllActivities
<1>3. PICK b \in AllActivities : b.name = a.name /\ b = GetActivity(a.name)
  BY <1>2 DEF GetActivity
<1>4. \A r \in ToSet(Stages) : b \in ToSet(ActivitiesOf(r)) => r = s
  BY <1>1, <1>3, NamesApart
<1>5. \E r \in ToSet(Stages) : b \in ToSet(ActivitiesOf(r))
  BY <1>3 DEF AllActivities
<1>6. StageOf(a.name) = CHOOSE r \in ToSet(Stages) : b \in ToSet(ActivitiesOf(r))
  BY <1>3 DEF StageOf
<1> QED
  BY <1>4, <1>5, <1>6

\* What a stage has as its first, and any of its list.
LEMMA ListMembers ==
    ASSUME NEW s \in ToSet(Stages)
    PROVE  /\ \A i \in DOMAIN ActivitiesOf(s) : ActivitiesOf(s)[i] \in ToSet(ActivitiesOf(s))
           /\ 1 \in DOMAIN ActivitiesOf(s)
<1>1. \A i \in DOMAIN ActivitiesOf(s) : ActivitiesOf(s)[i] \in ToSet(ActivitiesOf(s))
  BY DEF ToSet
<1>2. 1 \in DOMAIN ActivitiesOf(s)
  BY StageNames DEF ActivitiesOf, DefineActivities, DataActivities, RunActivities,
     AnalyzeActivities, ReportActivities
<1> QED
  BY <1>1, <1>2

LEMMA FittingStays ==
    ASSUME NEW p, Fits(p)
    PROVE  Hydrate(p) = p /\ StageOf(p.activity) = p.stage
<1>1. PICK a \in ToSet(ActivitiesOf(p.stage)) : a.name = p.activity
  BY DEF Fits
<1>2. p.stage \in ToSet(Stages) /\ a \in AllActivities
  BY <1>1 DEF Fits, AllActivities
<1>3. Hydrate(p) = [stage |-> p.stage, activity |-> p.activity]
  BY <1>1, <1>2 DEF Hydrate
<1> QED
  BY <1>1, <1>2, <1>3, StageIsOwn DEF Fits

LEMMA FirstFits ==
    ASSUME NEW s \in ToSet(Stages)
    PROVE  Fits([stage |-> s, activity |-> FirstOfStage(s)])
BY ListMembers DEF Fits, FirstOfStage

\* What is open, kept, recorded or under way names a stage and one of its
\* activities; a load began in the data stage.
PlacesInv ==
    /\ Fits(place) /\ Fits(Hydrate(keptPlace))
    /\ ~placeDirty => place = Hydrate(keptPlace)
    /\ \A q \in deskAsks : Fits(q.at) /\ (q.kind = "load" => q.at.stage = "data")
    /\ \A t \in placeTraces : Fits(t)
    /\ \A a \in loadNotes : StageOf(a) = "data"
    /\ legacyBanner => ~bannerGone

LEMMA PlacesInvInit == ASSUME PlacesInit PROVE PlacesInv
<1>1. Fits(Hydrate(keptPlace))
  <2>1. \A a \in AllActivities : a.name # "unknown"
    <3>1. \A s \in ToSet(Stages) : \A a \in ToSet(ActivitiesOf(s)) : a.name \in NamesOf(s)
      BY NamesGiven
    <3>2. \A s \in ToSet(Stages) : "unknown" \notin NamesOf(s)
      BY StageNames DEF NamesOf
    <3> QED
      BY <3>1, <3>2 DEF AllActivities
  <2>2. CASE keptPlace = [stage |-> "unknown", activity |-> "unknown"]
    <3>1. Hydrate(keptPlace) = [stage |-> Stages[1], activity |-> FirstOfStage(Stages[1])]
      BY <2>1, <2>2, StageNames DEF Hydrate
    <3>2. Stages[1] \in ToSet(Stages)
      BY StageNames DEF Stages
    <3> QED
      BY <3>1, <3>2, FirstFits
  <2>3. CASE keptPlace = [stage |-> "data", activity |-> "unknown"]
    <3>1. Hydrate(keptPlace) = [stage |-> "data", activity |-> FirstOfStage("data")]
      BY <2>1, <2>3, StageNames DEF Hydrate
    <3> QED
      BY <3>1, FirstFits, StageNames
  <2> QED
    BY <2>2, <2>3 DEF PlacesInit
<1> QED
  BY <1>1 DEF PlacesInit, PlacesInv

LEMMA MoveKeeps ==
    ASSUME PlacesInv, NEW s, NEW a, MoveTo(s, a), Fits([stage |-> s, activity |-> a])
    PROVE  PlacesInv'
BY DEF MoveTo, PlacesInv, Fits, Hydrate

LEMMA PlacesInvStep ==
    ASSUME PlacesInv, PlacesNext \/ UNCHANGED placeVars
    PROVE  PlacesInv'
<1>1. ASSUME NEW s \in ToSet(Stages), SetStage(s) PROVE PlacesInv'
  BY <1>1, FirstFits, MoveKeeps DEF SetStage
<1>2. ASSUME NEW i \in 1 .. 5, SetActivity(i) PROVE PlacesInv'
  <2>1. i \in DOMAIN ActivitiesOf(place.stage) /\ MoveTo(place.stage, ActivitiesOf(place.stage)[i].name)
    BY <1>2 DEF SetActivity
  <2>2. place.stage \in ToSet(Stages)
    BY DEF PlacesInv, Fits
  <2>3. Fits([stage |-> place.stage, activity |-> ActivitiesOf(place.stage)[i].name])
    BY <2>1, <2>2, ListMembers DEF Fits
  <2> QED
    BY <2>1, <2>3, MoveKeeps
<1>3. CASE UseTemplate
  BY <1>3 DEF UseTemplate, PlacesInv, Fits, Hydrate
<1>4. CASE SavePlace
  <2>1. keptPlace' = place /\ Fits(place) /\ Hydrate(place) = place
    BY <1>4, FittingStays DEF SavePlace, PlacesInv
  <2>2. Hydrate(keptPlace)' = place /\ UNCHANGED <<place, deskAsks, placeTraces, loadNotes, legacyBanner, bannerGone>>
    BY <1>4, <2>1 DEF SavePlace, Hydrate
  <2> QED
    BY <2>1, <2>2 DEF PlacesInv, Fits
<1>5. CASE DismissLegacy
  BY <1>5 DEF DismissLegacy, PlacesInv, Fits, Hydrate
<1>6. CASE LeaveDesk
  BY <1>6 DEF LeaveDesk, PlacesInv, Fits, Hydrate
<1>7. CASE ReturnToDesk
  BY <1>7 DEF ReturnToDesk, PlacesInv, Fits, Hydrate
<1>8. ASSUME NEW k \in {"run", "load"}, BeginAsk(k) PROVE PlacesInv'
  <2>1. /\ UNCHANGED <<place, keptPlace, placeDirty, loadNotes, legacyBanner, bannerGone>>
        /\ deskAsks' = deskAsks \cup {[kind |-> k, at |-> place, visit |-> deskVisit]}
        /\ placeTraces' \subseteq placeTraces \cup {place}
        /\ k = "load" => place.stage = "data"
    BY <1>8 DEF BeginAsk
  <2> QED
    BY <2>1 DEF PlacesInv, Fits, Hydrate
<1>9. ASSUME NEW q \in deskAsks, NEW ok \in BOOLEAN, AskEnds(q, ok) PROVE PlacesInv'
  <2>1. /\ UNCHANGED <<place, keptPlace, legacyBanner, bannerGone>>
        /\ deskAsks' = deskAsks \ {q} /\ (placeDirty => placeDirty')
        /\ placeTraces' \subseteq placeTraces \cup {q.at}
        /\ loadNotes' \subseteq loadNotes \cup {q.at.activity}
        /\ q.kind # "load" => loadNotes' = loadNotes
    BY <1>9 DEF AskEnds
  <2>2. Fits(q.at) /\ (q.kind = "load" => StageOf(q.at.activity) = "data")
    BY FittingStays DEF PlacesInv
  <2> QED
    BY <2>1, <2>2 DEF PlacesInv, Fits, Hydrate
<1>10. CASE UNCHANGED placeVars
  BY <1>10 DEF placeVars, PlacesInv, Fits, Hydrate
<1> QED
  BY <1>1, <1>2, <1>3, <1>4, <1>5, <1>6, <1>7, <1>8, <1>9, <1>10 DEF PlacesNext

LEMMA PlacesSound == ASSUME PlacesInv PROVE PlacesAgree
<1>1. StageOf(place.activity) = place.stage /\ \A t \in placeTraces : StageOf(t.activity) = t.stage
  BY FittingStays DEF PlacesInv
<1>2. SavedLabel = "saved" => Hydrate(keptPlace) = place
  BY DEF SavedLabel, PlacesInv
<1> QED
  BY <1>1, <1>2 DEF PlacesAgree, PlacesInv

-----------------------------------------------------------------------------
(* The guide: its snippets.                                                *)

SnippetNames == {"read", "profile", "missing", "clean", "encode", "split", "baseline", "compare",
                 "tune", "final", "save", "curves", "importance", "export"}

\* The place of a snippet's activity in the guide.
StandsAt(s) ==
    CASE s = "read" -> 5 [] s = "profile" -> 6 [] s = "missing" -> 6 [] s = "clean" -> 7
      [] s = "encode" -> 8 [] s = "split" -> 9 [] s = "baseline" -> 10 [] s = "compare" -> 11
      [] s = "tune" -> 12 [] s = "final" -> 13 [] s = "save" -> 14 [] s = "curves" -> 15
      [] s = "importance" -> 16 [] s = "export" -> 23

LEMMA SnippetsGiven == Snippets = SnippetNames
<1>1. UNION {a.snippets : a \in ToSet(DefineActivities)} = {}
  BY ListedActivities DEF Activity
<1>2. UNION {a.snippets : a \in ToSet(DataActivities)} = {"read", "profile", "missing", "clean", "encode", "split"}
  BY ListedActivities DEF Activity
<1>3. UNION {a.snippets : a \in ToSet(RunActivities)} = {"baseline", "compare", "tune", "final", "save"}
  BY ListedActivities DEF Activity
<1>4. UNION {a.snippets : a \in ToSet(AnalyzeActivities)} = {"curves", "importance"}
  BY ListedActivities DEF Activity
<1>5. UNION {a.snippets : a \in ToSet(ReportActivities)} = {"export"}
  BY ListedActivities DEF Activity
<1>6. AllActivities = ToSet(DefineActivities) \cup ToSet(DataActivities) \cup ToSet(RunActivities)
                      \cup ToSet(AnalyzeActivities) \cup ToSet(ReportActivities)
  BY StageNames DEF AllActivities, ActivitiesOf
<1> QED
  BY <1>1, <1>2, <1>3, <1>4, <1>5, <1>6 DEF Snippets, SnippetNames

LEMMA ListOfFour ==
    ASSUME NEW S, NEW a \in S, NEW b \in S, NEW c \in S, NEW d \in S
    PROVE  <<a, b, c, d>> \in Seq(S) /\ Len(<<a, b, c, d>>) = 4
OBVIOUS

LEMMA ListOfFive ==
    ASSUME NEW S, NEW a \in S, NEW b \in S, NEW c \in S, NEW d \in S, NEW e \in S
    PROVE  <<a, b, c, d, e>> \in Seq(S) /\ Len(<<a, b, c, d, e>>) = 5
OBVIOUS

\* That g is s followed by t, of m and n elements.
Joins(g, s, t, m, n) ==
    /\ Len(g) = m + n
    /\ \A k \in 1 .. m : g[k] = s[k]
    /\ \A k \in 1 .. n : g[m + k] = t[k]

LEMMA Joined ==
    ASSUME NEW S, NEW s \in Seq(S), NEW t \in Seq(S), NEW m, NEW n, Len(s) = m, Len(t) = n
    PROVE  s \o t \in Seq(S) /\ Joins(s \o t, s, t, m, n)
<1>1. /\ s \o t \in Seq(S) /\ Len(s \o t) = Len(s) + Len(t)
      /\ \A k \in 1 .. Len(s) + Len(t) : (s \o t)[k] = IF k <= Len(s) THEN s[k] ELSE t[k - Len(s)]
  BY ConcatProperties
<1>2. Len(s) \in Nat /\ Len(t) \in Nat
  BY LenProperties
<1> QED
  BY <1>1, <1>2 DEF Joins

\* The guide, activity after activity.
LEMMA GuideGiven ==
    /\ DOMAIN GuideOrder = 1 .. 23
    /\ \A k \in 1 .. 4 : GuideOrder[k] = DefineActivities[k]
    /\ \A k \in 1 .. 5 : GuideOrder[4 + k] = DataActivities[k]
    /\ \A k \in 1 .. 5 : GuideOrder[9 + k] = RunActivities[k]
    /\ \A k \in 1 .. 4 : GuideOrder[14 + k] = AnalyzeActivities[k]
    /\ \A k \in 1 .. 5 : GuideOrder[18 + k] = ReportActivities[k]
<1> DEFINE S == UNION {ToSet(DefineActivities), ToSet(DataActivities), ToSet(RunActivities),
                        ToSet(AnalyzeActivities), ToSet(ReportActivities)}
           D == DefineActivities
           A == DataActivities
           R == RunActivities
           N == AnalyzeActivities
           P == ReportActivities
<1> HIDE DEF S
<1>1. D \in Seq(S) /\ Len(D) = 4
  <2>1. /\ Activity("define.goal", 2, {}) \in S
        /\ Activity("define.kpi", 1, {}) \in S
        /\ Activity("define.constraints", 1, {}) \in S
        /\ Activity("define.scope", 1, {}) \in S
    BY ListedActivities DEF S
  <2> QED
    BY <2>1, ListOfFour DEF DefineActivities
<1>2. A \in Seq(S) /\ Len(A) = 5
  <2>1. /\ Activity("data.ingest", 1, {"read"}) \in S
        /\ Activity("data.profile", 1, {"profile", "missing"}) \in S
        /\ Activity("data.clean", 1, {"clean"}) \in S
        /\ Activity("data.feature", 1, {"encode"}) \in S
        /\ Activity("data.split", 0, {"split"}) \in S
    BY ListedActivities DEF S
  <2> QED
    BY <2>1, ListOfFive DEF DataActivities
<1>3. R \in Seq(S) /\ Len(R) = 5
  <2>1. /\ Activity("run.baseline", 1, {"baseline"}) \in S
        /\ Activity("run.candidates", 0, {"compare"}) \in S
        /\ Activity("run.tune", 0, {"tune"}) \in S
        /\ Activity("run.final", 0, {"final"}) \in S
        /\ Activity("run.log", 0, {"save"}) \in S
    BY ListedActivities DEF S
  <2> QED
    BY <2>1, ListOfFive DEF RunActivities
<1>4. N \in Seq(S) /\ Len(N) = 4
  <2>1. /\ Activity("analyze.metrics", 0, {"curves"}) \in S
        /\ Activity("analyze.importance", 0, {"importance"}) \in S
        /\ Activity("analyze.errors", 1, {}) \in S
        /\ Activity("analyze.compare", 1, {}) \in S
    BY ListedActivities DEF S
  <2> QED
    BY <2>1, ListOfFour DEF AnalyzeActivities
<1>5. P \in Seq(S) /\ Len(P) = 5
  <2>1. /\ Activity("report.summary", 1, {}) \in S
        /\ Activity("report.method", 0, {}) \in S
        /\ Activity("report.results", 0, {}) \in S
        /\ Activity("report.limits", 0, {}) \in S
        /\ Activity("report.export", 0, {"export"}) \in S
    BY ListedActivities DEF S
  <2> QED
    BY <2>1, ListOfFive DEF ReportActivities
<1>6. GuideOrder = (((D \o A) \o R) \o N) \o P
  BY DEF GuideOrder
<1> HIDE DEF D, A, R, N, P
<1> DEFINE G2 == D \o A
           G3 == G2 \o R
           G4 == G3 \o N
           G5 == G4 \o P
<1>8. G2 \in Seq(S) /\ Joins(G2, D, A, 4, 5)
  BY <1>1, <1>2, Joined
<1>18. Len(G2) = 9
  BY <1>8 DEF Joins
<1> HIDE DEF G2
<1>9. G3 \in Seq(S) /\ Joins(G3, G2, R, 9, 5)
  BY <1>3, <1>8, <1>18, Joined
<1>19. Len(G3) = 14
  BY <1>9 DEF Joins
<1> HIDE DEF G3
<1>10. G4 \in Seq(S) /\ Joins(G4, G3, N, 14, 4)
  BY <1>4, <1>9, <1>19, Joined
<1>20. Len(G4) = 18
  BY <1>10 DEF Joins
<1> HIDE DEF G4
<1>11. G5 \in Seq(S) /\ Joins(G5, G4, P, 18, 5)
  BY <1>5, <1>10, <1>20, Joined
<1>21. Len(G5) = 23
  BY <1>11 DEF Joins
<1>12. GuideOrder = G5
  BY <1>6 DEF G2, G3, G4
<1> HIDE DEF G5
<1>13. DOMAIN GuideOrder = 1 .. 23 /\ \A k \in 1 .. 5 : GuideOrder[18 + k] = P[k]
  BY <1>11, <1>12, <1>21, LenProperties DEF Joins
<1>14. \A k \in 1 .. 4 : GuideOrder[14 + k] = N[k]
  <2>1. \A k \in 1 .. 4 : 14 + k \in 1 .. 18
    OBVIOUS
  <2> QED
    BY <1>10, <1>11, <1>12, <2>1 DEF Joins
<1>15. \A k \in 1 .. 5 : GuideOrder[9 + k] = R[k]
  <2>1. \A k \in 1 .. 5 : 9 + k \in 1 .. 18 /\ 9 + k \in 1 .. 14
    OBVIOUS
  <2> QED
    BY <1>9, <1>10, <1>11, <1>12, <2>1 DEF Joins
<1>16. \A k \in 1 .. 5 : GuideOrder[4 + k] = A[k]
  <2>1. \A k \in 1 .. 5 : 4 + k \in 1 .. 18 /\ 4 + k \in 1 .. 14 /\ 4 + k \in 1 .. 9
    OBVIOUS
  <2>2. \A i \in 1 .. 9 : i \in 1 .. 18 /\ i \in 1 .. 14
    OBVIOUS
  <2>3. \A i \in 1 .. 9 : GuideOrder[i] = G2[i]
    BY <1>9, <1>10, <1>11, <1>12, <2>2 DEF Joins
  <2> QED
    BY <1>8, <2>1, <2>3 DEF Joins
<1>17. \A k \in 1 .. 4 : GuideOrder[k] = D[k]
  <2>1. \A k \in 1 .. 4 : k \in 1 .. 18 /\ k \in 1 .. 14 /\ k \in 1 .. 9
    OBVIOUS
  <2>2. \A k \in 1 .. 4 : GuideOrder[k] = G2[k]
    BY <1>9, <1>10, <1>11, <1>12, <2>1 DEF Joins
  <2> QED
    BY <1>8, <2>1, <2>2 DEF Joins
<1> QED
  BY <1>13, <1>14, <1>15, <1>16, <1>17 DEF D, A, R, N, P

\* A snippet is offered at one place.
LEMMA GuidePlaces ==
    \A s \in SnippetNames, k \in 1 .. 23 : s \in GuideOrder[k].snippets <=> k = StandsAt(s)
<1>1. \A k \in 1 .. 4 : GuideOrder[k].snippets = {}
  BY GuideGiven DEF DefineActivities, Activity
<1>2. /\ GuideOrder[5].snippets = {"read"} /\ GuideOrder[6].snippets = {"profile", "missing"}
      /\ GuideOrder[7].snippets = {"clean"} /\ GuideOrder[8].snippets = {"encode"}
      /\ GuideOrder[9].snippets = {"split"}
  <2>1. \A k \in 1 .. 5 : GuideOrder[4 + k] = DataActivities[k]
    BY GuideGiven
  <2> QED
    BY <2>1 DEF DataActivities, Activity
<1>3. /\ GuideOrder[10].snippets = {"baseline"} /\ GuideOrder[11].snippets = {"compare"}
      /\ GuideOrder[12].snippets = {"tune"} /\ GuideOrder[13].snippets = {"final"}
      /\ GuideOrder[14].snippets = {"save"}
  <2>1. \A k \in 1 .. 5 : GuideOrder[9 + k] = RunActivities[k]
    BY GuideGiven
  <2> QED
    BY <2>1 DEF RunActivities, Activity
<1>4. /\ GuideOrder[15].snippets = {"curves"} /\ GuideOrder[16].snippets = {"importance"}
      /\ GuideOrder[17].snippets = {} /\ GuideOrder[18].snippets = {}
  <2>1. \A k \in 1 .. 4 : GuideOrder[14 + k] = AnalyzeActivities[k]
    BY GuideGiven
  <2> QED
    BY <2>1 DEF AnalyzeActivities, Activity
<1>5. /\ GuideOrder[19].snippets = {} /\ GuideOrder[20].snippets = {} /\ GuideOrder[21].snippets = {}
      /\ GuideOrder[22].snippets = {} /\ GuideOrder[23].snippets = {"export"}
  <2>1. \A k \in 1 .. 5 : GuideOrder[18 + k] = ReportActivities[k]
    BY GuideGiven
  <2> QED
    BY <2>1 DEF ReportActivities, Activity
<1> QED
  BY <1>1, <1>2, <1>3, <1>4, <1>5 DEF SnippetNames, StandsAt

LEMMA PlacesAreNumbers == \A s \in SnippetNames : StandsAt(s) \in 1 .. 23
BY DEF SnippetNames, StandsAt

\* What comes before a snippet.
LEMMA ComesEarlier ==
    ASSUME NEW s \in SnippetNames, NEW p \in SnippetNames, StandsAt(p) < StandsAt(s)
    PROVE  p \in Earlier(s)
<1> DEFINE own == CHOOSE k \in DOMAIN GuideOrder : s \in GuideOrder[k].snippets
<1>1. StandsAt(s) \in 1 .. 23 /\ StandsAt(p) \in 1 .. 23
  BY PlacesAreNumbers
<1>2. own = StandsAt(s)
  <2>1. \A k \in DOMAIN GuideOrder : s \in GuideOrder[k].snippets <=> k = StandsAt(s)
    BY GuideGiven, GuidePlaces
  <2> QED
    BY <1>1, <2>1, GuideGiven
<1> HIDE DEF own
<1>3. StandsAt(p) \in 1 .. own - 1
  BY <1>1, <1>2
<1>5. p \in GuideOrder[StandsAt(p)].snippets
  BY <1>1, GuidePlaces
<1>4. Earlier(s) = UNION {GuideOrder[k].snippets : k \in 1 .. own - 1}
  BY DEF Earlier, own
<1> QED
  BY <1>3, <1>4, <1>5

\* What was run has left its names in the kernel, and nothing leaves the name
\* of a file.
SnippetsInv ==
    /\ tableLoaded => {"pd", "df"} \subseteq kernelNames
    /\ \A s \in followed : SnippetImports(s) \cup SnippetMakes(s) \subseteq kernelNames
    /\ "FILE_PATH" \notin kernelNames /\ "read" \notin followed

LEMMA NobodyMakesAPath == \A s \in SnippetNames : "FILE_PATH" \notin SnippetImports(s) \cup SnippetMakes(s)
BY DEF SnippetNames, SnippetImports, SnippetMakes

LEMMA ReadWantsAPath == SnippetReads("read") = {"FILE_PATH"}
BY DEF SnippetReads

LEMMA SnippetsInvInit == ASSUME SnippetsInit PROVE SnippetsInv
BY DEF SnippetsInit, SnippetsInv

LEMMA SnippetsInvStep ==
    ASSUME SnippetsInv, SnippetsNext \/ UNCHANGED snippetVars
    PROVE  SnippetsInv'
<1>1. CASE LoadIntoKernel
  BY <1>1 DEF LoadIntoKernel, SnippetsInv
<1>2. CASE KernelIsNew
  BY <1>2 DEF KernelIsNew, SnippetsInv
<1>3. ASSUME NEW s \in Snippets, RunSnippet(s) PROVE SnippetsInv'
  <2>1. kernelNames \subseteq kernelNames' /\ tableLoaded' = tableLoaded
    BY <1>3 DEF RunSnippet
  <2>2. \/ followed' = followed
        \/ /\ followed' = followed \cup {s}
           /\ SnippetImports(s) \cup SnippetMakes(s) \subseteq kernelNames'
    BY <1>3 DEF RunSnippet
  <2>3. "FILE_PATH" \notin kernelNames'
    BY <1>3, SnippetsGiven, NobodyMakesAPath DEF RunSnippet, SnippetsInv
  <2>4. s = "read" => followed' = followed
    <3>1. s = "read" => "FILE_PATH" \in MissingNames(s)
      BY SnippetsGiven, NobodyMakesAPath, ReadWantsAPath DEF MissingNames, SnippetsInv
    <3> QED
      BY <1>3, <3>1 DEF RunSnippet
  <2> QED
    BY <2>1, <2>2, <2>3, <2>4 DEF SnippetsInv
<1>4. CASE UNCHANGED snippetVars
  BY <1>4 DEF snippetVars, SnippetsInv
<1> QED
  BY <1>1, <1>2, <1>3, <1>4 DEF SnippetsNext

\* Who gives the names a snippet reads: the table and snippets before it.
NeededBy(s) ==
    CASE s = "encode" -> {"clean"} [] s = "split" -> {"encode"}
      [] s = "baseline" -> {"encode", "split"}
      [] s = "compare" -> {"baseline", "encode", "split"}
      [] s = "tune" -> {"baseline", "compare", "encode", "split"}
      [] s = "final" -> {"tune", "split"}
      [] s = "save" -> {"final", "tune"}
      [] s = "curves" -> {"final", "split", "encode"}
      [] s = "importance" -> {"final", "split", "missing"}
      [] s = "export" -> {"compare"}
      [] OTHER -> {}

NamesLeftBy(S) == UNION {SnippetImports(p) \cup SnippetMakes(p) : p \in S}

LEMMA NeedsComeEarlier ==
    ASSUME NEW s \in SnippetNames \ {"read"}
    PROVE  \A p \in NeededBy(s) : p \in SnippetNames \ {"read"} /\ StandsAt(p) < StandsAt(s)
BY DEF SnippetNames, NeededBy, StandsAt

LEMMA NeedsSuffice ==
    ASSUME NEW s \in SnippetNames \ {"read"}
    PROVE  SnippetReads(s) \subseteq {"pd", "df"} \cup SnippetImports(s) \cup NamesLeftBy(NeededBy(s))
BY DEF SnippetNames, NeededBy, NamesLeftBy, SnippetReads, SnippetImports, SnippetMakes

LEMMA SnippetsSound == ASSUME SnippetsInv PROVE GuideCanBeFollowed
<1>1. ASSUME tableLoaded, NEW s \in SnippetNames \ {"read"}, Earlier(s) \ {"read"} \subseteq followed
      PROVE  MissingNames(s) = {}
  <2>1. \A p \in NeededBy(s) : p \in followed
    BY <1>1, NeedsComeEarlier, ComesEarlier
  <2>2. NamesLeftBy(NeededBy(s)) \subseteq kernelNames
    BY <2>1 DEF NamesLeftBy, SnippetsInv
  <2>3. {"pd", "df"} \subseteq kernelNames
    BY <1>1 DEF SnippetsInv
  <2> QED
    BY <2>2, <2>3, NeedsSuffice DEF MissingNames
<1>2. MissingNames("read") = {"FILE_PATH"}
  <2>1. "read" \in SnippetNames
    BY DEF SnippetNames
  <2> QED
    BY <2>1, NobodyMakesAPath, ReadWantsAPath DEF MissingNames, SnippetsInv
<1> QED
  BY <1>1, <1>2, SnippetsGiven DEF GuideCanBeFollowed, SnippetsInv

-----------------------------------------------------------------------------
(* Types: what each part keeps besides the invariants above. *)

\* A probe that pauses has tries left.
ConnType == ConnTypeOK /\ (probe.stage = "pause" => probe.attempt < 3)

LEMMA ConnTypeInit == ASSUME ConnInit PROVE ConnType
BY ConnectionAssumption DEF ConnInit, ConnType, ConnTypeOK

LEMMA ConnTypeStep ==
    ASSUME ConnType, ConnNext \/ UNCHANGED connVars
    PROVE  ConnType'
<1> USE ConnectionAssumption DEF ConnType, ConnTypeOK, settings
<1>1. CASE HealthOk
  BY <1>1 DEF HealthOk
<1>2. CASE HealthFails
  BY <1>2 DEF HealthFails
<1>3. CASE HealthAgain
  BY <1>3 DEF HealthAgain
<1>4. CASE FormMounts
  BY <1>4 DEF FormMounts, ProbeIs
<1>5. CASE FormGoes
  BY <1>5 DEF FormGoes, ProbeIs
<1>6. CASE ProbeOk
  BY <1>6 DEF ProbeOk, ProbeIs
<1>7. CASE ProbeRefused
  BY <1>7 DEF ProbeRefused, ProbeIs
<1>8. CASE ProbeUnanswered
  BY <1>8 DEF ProbeUnanswered, ProbeIs
<1>9. CASE ProbeAgain
  BY <1>9 DEF ProbeAgain, ProbeIs
<1>10. CASE ApiSend
  BY <1>10 DEF ApiSend
<1>11. CASE ApiAnswers
  BY <1>11 DEF ApiAnswers
<1>12. CASE ApiLost
  BY <1>12 DEF ApiLost
<1>13. CASE ApiBody
  BY <1>13 DEF ApiBody
<1>14. CASE UNCHANGED connVars
  BY <1>14 DEF connVars
<1> QED
  BY <1>1, <1>2, <1>3, <1>4, <1>5, <1>6, <1>7, <1>8, <1>9, <1>10, <1>11, <1>12, <1>13, <1>14
  DEF ConnNext, PollNext, FormNext

LEMMA GuideTypeInit == ASSUME GuideInit PROVE GuideTypeOK
BY DEF GuideInit, GuideTypeOK

LEMMA GuideTypeStep ==
    ASSUME GuideTypeOK, GuideNext \/ UNCHANGED guideVars
    PROVE  GuideTypeOK'
<1> USE DEF GuideTypeOK
<1>1. ASSUME NEW b \in Briefs \cup {NoBrief}, EditBrief(b) PROVE GuideTypeOK'
  BY <1>1 DEF EditBrief
<1>2. ASSUME NEW r \in BOOLEAN, StartBusy(r) PROVE GuideTypeOK'
  BY <1>2 DEF StartBusy
<1>3. CASE EndBusy
  BY <1>3 DEF EndBusy
<1>4. CASE OpenGuide
  BY <1>4 DEF OpenGuide, GuideBrief
<1>5. CASE GuideAnswered
  BY <1>5 DEF GuideAnswered
<1>6. CASE CloseGuide
  BY <1>6 DEF CloseGuide
<1>7. CASE UNCHANGED guideVars
  BY <1>7 DEF guideVars
<1> QED
  BY <1>1, <1>2, <1>3, <1>4, <1>5, <1>6, <1>7 DEF GuideNext

LEMMA TraceTypeInit == ASSUME TraceInit PROVE TraceTypeOK
<1>1. 1 .. 0 = {} /\ 0 \in 0 .. MaxTraces /\ \A S : {} \in SUBSET S
  BY TraceAssumption
<1> QED
  BY <1>1 DEF TraceInit, TraceTypeOK

LEMMA TraceTypeStep ==
    ASSUME TraceTypeOK, TraceNext \/ UNCHANGED traceVars
    PROVE  TraceTypeOK'
<1> USE TraceAssumption DEF TraceTypeOK
<1>0. \A S, n : Newest(S, n) \subseteq S
  BY DEF Newest
<1>1. CASE Record
  <2>1. made' = made + 1 /\ made' \in 0 .. MaxTraces /\ 1 .. made \subseteq 1 .. made' /\ made' \in 1 .. made'
    BY <1>1 DEF Record
  <2>2. /\ posting' = posting \cup {made'} /\ UNCHANGED <<atServer, serverAsked, alive, drawer>>
        /\ tracesShown' \subseteq tracesShown \cup {made'}
        /\ tracesKept' \subseteq tracesKept \cup tracesShown'
        /\ unstored' \subseteq unstored \cup {made'}
    BY <1>0, <1>1 DEF Record, WriteLocal
  <2> QED
    BY <2>1, <2>2
<1>2. CASE ServerListArrives
  <2>1. /\ UNCHANGED <<made, atServer, posting, alive, drawer>> /\ serverAsked' = "done"
        /\ tracesShown' \subseteq tracesShown \cup atServer
        /\ tracesKept' \subseteq tracesKept \cup tracesShown'
        /\ unstored' \subseteq unstored
    BY <1>0, <1>2 DEF ServerListArrives, WriteLocal
  <2> QED
    BY <2>1
<1>3. CASE ToggleTraces
  BY <1>3 DEF ToggleTraces
<1>4. CASE CloseTraces
  BY <1>4 DEF CloseTraces
<1>5. CASE OpenTraces
  BY <1>5 DEF OpenTraces
<1>6. ASSUME NEW t \in 1 .. MaxTraces, PostEnds(t) PROVE TraceTypeOK'
  BY <1>6 DEF PostEnds
<1>7. CASE UNCHANGED traceVars
  BY <1>7 DEF traceVars
<1> QED
  BY <1>1, <1>2, <1>3, <1>4, <1>5, <1>6, <1>7 DEF TraceNext

ChatFlags ==
    /\ {beside, workbench, input, briefWaits, titleWaits, restarted} \subseteq BOOLEAN
    /\ chatBusy \in {"", "chat", "refine"}
Waits(busy) == busy \in {"chat", "refine"}

\* There is room for an answer and what it answers while one is waited for.
ChatFits ==
    /\ messages \in Seq(Kinds) /\ Len(messages) >= 1 /\ Len(messages) <= MaxMessages + 2
    /\ (Waits(chatBusy) => Len(messages) <= MaxMessages)
    /\ workStep \in {"step1", "step2"}

ChatType == ChatFlags /\ ChatFits

LEMMA ChatTypeSound == ASSUME ChatType PROVE AssistantTypeOK
<1>1. /\ {beside, workbench, input, briefWaits, titleWaits, restarted} \subseteq BOOLEAN
      /\ chatBusy \in {"", "chat", "refine"}
  BY DEF ChatType, ChatFlags
<1>2. /\ \A i \in DOMAIN messages : messages[i] \in Kinds
      /\ Len(messages) <= MaxMessages + 2
      /\ workStep \in {"step1", "step2"}
  BY DEF ChatType, ChatFits
<1> QED
  BY <1>1, <1>2 DEF AssistantTypeOK

LEMMA ChatTypeInit == ASSUME AssistantInit PROVE ChatType
<1>1. ChatFlags
  BY DEF AssistantInit, ChatFlags
<1>2. messages = <<"tip">> /\ "tip" \in Kinds
  BY DEF AssistantInit, Kinds
<1>3. workStep = "step1" /\ ~Waits(chatBusy)
  BY DEF AssistantInit, Waits
<1>4. messages \in Seq(Kinds) /\ Len(messages) = 1
  BY <1>2
<1> QED
  BY <1>1, <1>3, <1>4, AssistantAssumption DEF ChatType, ChatFits

\* What an answer may add to the conversation.
LEMMA Grown ==
    ASSUME ChatFits, NEW k \in Kinds
    PROVE  /\ Append(messages, k) \in Seq(Kinds)
           /\ Len(Append(messages, k)) = Len(messages) + 1
BY DEF ChatFits

LEMMA GrownTwice ==
    ASSUME ChatFits, NEW k \in Kinds, NEW l \in Kinds
    PROVE  /\ messages \o <<k, l>> \in Seq(Kinds)
           /\ Len(messages \o <<k, l>>) = Len(messages) + 2
<1>1. <<k, l>> \in Seq(Kinds) /\ Len(<<k, l>>) = 2
  OBVIOUS
<1>2. messages \in Seq(Kinds)
  BY DEF ChatFits
<1> DEFINE two == <<k, l>>
<1> HIDE DEF two
<1>3. messages \o two \in Seq(Kinds) /\ Len(messages \o two) = Len(messages) + Len(two)
  BY <1>1, <1>2 DEF two
<1> QED
  BY <1>1, <1>3 DEF two

\* A question is asked of the model only while there is room for its answer.
LEMMA ToModelFits ==
    ASSUME ChatFits, Len(messages) < MaxMessages, ToModel, UNCHANGED workStep
    PROVE  ChatFits'
<1>1. "user" \in Kinds
  BY DEF Kinds
<1>2. messages' \in Seq(Kinds) /\ Len(messages') = Len(messages) + 1
  BY <1>1, Grown DEF ToModel
<1>3. Len(messages) \in Nat /\ MaxMessages \in Nat
  BY AssistantAssumption DEF ChatFits
<1> QED
  BY <1>2, <1>3 DEF ToModel, ChatFits

LEMMA RestartFits ==
    ASSUME ChatFits, Restart, UNCHANGED chatBusy, workStep' \in {"step1", "step2"}
    PROVE  ChatFits'
<1>1. "tip" \in Kinds
  BY DEF Kinds
<1>2. messages' = <<"tip">>
  BY DEF Restart
<1>3. messages' \in Seq(Kinds) /\ Len(messages') = 1
  BY <1>1, <1>2
<1>4. Len(messages) \in Nat /\ MaxMessages \in Nat
  BY AssistantAssumption DEF ChatFits
<1> QED
  BY <1>3, <1>4 DEF ChatFits

LEMMA ChatFitsStep ==
    ASSUME ChatFits, AssistantNext \/ UNCHANGED assistantVars
    PROVE  ChatFits'
<1>0. {"user", "answer", "error", "injected"} \subseteq Kinds
  BY DEF Kinds
<1>n. Len(messages) \in Nat /\ MaxMessages \in Nat /\ messages \in Seq(Kinds)
  BY AssistantAssumption DEF ChatFits
\* A request that ends may add two messages, one that stays on none too many.
<1>1. ASSUME messages' \in Seq(Kinds), UNCHANGED workStep,
             \/ ~Waits(chatBusy)' /\ Len(messages') \in {Len(messages), Len(messages) + 1, Len(messages) + 2}
                /\ Len(messages) <= MaxMessages
             \/ UNCHANGED chatBusy /\ Len(messages') >= Len(messages) /\ Len(messages') <= MaxMessages
      PROVE  ChatFits'
  BY <1>1, <1>n DEF ChatFits
<1>2. CASE UNCHANGED <<messages, workStep, chatBusy>>
  BY <1>2 DEF ChatFits
<1>3. CASE ClearConversation
  BY <1>3, RestartFits DEF ClearConversation, ChatFits
<1>4. ASSUME NEW s \in {"step1", "step2"}, ChangeStep(s) PROVE ChatFits'
  <2>1. workStep' \in {"step1", "step2"} /\ UNCHANGED chatBusy
    BY <1>4 DEF ChangeStep
  <2>2. CASE beside
    BY <1>4, <2>1, <2>2, RestartFits DEF ChangeStep
  <2>3. CASE ~beside
    <3>1. UNCHANGED messages
      BY <1>4, <2>3 DEF ChangeStep
    <3> QED
      BY <2>1, <3>1 DEF ChatFits
  <2> QED
    BY <2>2, <2>3
<1>5. CASE Inject
  <2>1. messages' = messages \/ messages' = Append(messages, "injected")
    BY <1>5 DEF Inject
  <2>2. Len(messages) < MaxMessages /\ UNCHANGED <<workStep, chatBusy>>
    BY <1>5 DEF Inject
  <2>3. messages' \in Seq(Kinds) /\ Len(messages') \in {Len(messages), Len(messages) + 1}
    BY <1>0, <1>n, <2>1, Grown
  <2> QED
    BY <1>1, <1>n, <2>2, <2>3
<1>6. CASE Send
  <2>1. Len(messages) < MaxMessages /\ UNCHANGED workStep
    BY <1>6 DEF Send
  <2>6. ~Waits(chatBusy)
    BY <1>6 DEF Send, ChatControls, Waits
  <2>2. CASE chatBusy' = "refine" /\ UNCHANGED messages
    BY <1>n, <2>1, <2>2 DEF ChatFits
  <2>3. CASE ToModel
    BY <2>1, <2>3, ToModelFits
  <2>4. CASE messages' = messages \o <<"user", "answer">> /\ UNCHANGED chatBusy
    <3>1. messages' \in Seq(Kinds) /\ Len(messages') = Len(messages) + 2
      BY <2>4, <1>0, GrownTwice
    <3> QED
      BY <1>n, <2>1, <2>4, <2>6, <3>1 DEF ChatFits
  <2>5. \/ chatBusy' = "refine" /\ UNCHANGED messages
        \/ ToModel
        \/ messages' = messages \o <<"user", "answer">> /\ UNCHANGED chatBusy
    BY <1>6 DEF Send
  <2> QED
    BY <2>2, <2>3, <2>4, <2>5
<1>7. CASE SendQuick
  <2>1. ToModel /\ Len(messages) < MaxMessages /\ UNCHANGED workStep
    BY <1>7 DEF SendQuick
  <2> QED
    BY <2>1, ToModelFits
<1>8. CASE ChatAnswered
  <2>4. Waits(chatBusy) /\ ~Waits(chatBusy)'
    BY <1>8 DEF ChatAnswered, Waits
  <2>1. UNCHANGED workStep
        /\ messages' \in {Append(messages, "answer"), Append(messages, "error")}
    BY <1>8 DEF ChatAnswered
  <2>2. messages' \in Seq(Kinds) /\ Len(messages') = Len(messages) + 1
    BY <2>1, <1>0, Grown
  <2>3. Len(messages) <= MaxMessages
    BY <2>4 DEF ChatFits
  <2> QED
    BY <1>1, <2>1, <2>2, <2>3, <2>4
<1>9. CASE RefineAnswered
  <2>4. Waits(chatBusy) /\ ~Waits(chatBusy)'
    BY <1>9 DEF RefineAnswered, Waits
  <2>1. UNCHANGED workStep
        /\ messages' \in {messages \o <<"user", "answer">>, messages \o <<"user", "error">>, messages}
    BY <1>9 DEF RefineAnswered
  <2>2. messages' \in Seq(Kinds) /\ Len(messages') \in {Len(messages), Len(messages) + 2}
    BY <2>1, <1>0, <1>n, GrownTwice
  <2>3. Len(messages) <= MaxMessages
    BY <2>4 DEF ChatFits
  <2> QED
    BY <1>1, <2>1, <2>2, <2>3, <2>4
<1> QED
  BY <1>2, <1>3, <1>4, <1>5, <1>6, <1>7, <1>8, <1>9
     DEF AssistantNext, assistantVars, TypeMessage, BriefGone

LEMMA ChatFlagsStep ==
    ASSUME ChatFlags, AssistantNext \/ UNCHANGED assistantVars
    PROVE  ChatFlags'
<1> USE DEF ChatFlags
<1>1. CASE UNCHANGED <<beside, workbench, input, briefWaits, titleWaits, restarted>>
           /\ (chatBusy' = "" \/ UNCHANGED chatBusy)
  BY <1>1
<1>2. CASE TypeMessage \/ BriefGone
  BY <1>2 DEF TypeMessage, BriefGone
<1>3. CASE ClearConversation
  BY <1>3 DEF ClearConversation, Restart
<1>4. ASSUME NEW s \in {"step1", "step2"}, ChangeStep(s) PROVE ChatFlags'
  BY <1>4 DEF ChangeStep, Restart
<1>5. CASE Inject
  BY <1>5 DEF Inject
<1>6. CASE Send
  <2>1. input' = FALSE /\ UNCHANGED <<beside, workbench, briefWaits, restarted>>
        /\ (titleWaits' = FALSE \/ UNCHANGED titleWaits)
        /\ (chatBusy' = "refine" \/ chatBusy' = "chat" \/ UNCHANGED chatBusy)
    BY <1>6 DEF Send, ToModel
  <2> QED
    BY <2>1
<1>7. CASE SendQuick
  BY <1>7 DEF SendQuick, ToModel
<1> QED
  BY <1>1, <1>2, <1>3, <1>4, <1>5, <1>6, <1>7
     DEF AssistantNext, assistantVars, ChatAnswered, RefineAnswered

LEMMA ChatTypeStep ==
    ASSUME ChatType, AssistantNext \/ UNCHANGED assistantVars
    PROVE  ChatType'
BY ChatFlagsStep, ChatFitsStep DEF ChatType

\* The entry that is unfolded is one of the trace, or none.
FrameType ==
    /\ drag.side \in Sides \cup {"none"} /\ collapsed \subseteq Sides
    /\ sideTab \in {"summary", "viz", "interp", "compare", "export"}
    /\ events \in Seq(Actors) /\ Len(events) <= MaxEvents /\ expanded \in 0 .. Len(events)

LEMMA FrameTypeSound == ASSUME FrameType PROVE FrameTypeOK
BY DEF FrameType, FrameTypeOK, GatewayChip

LEMMA FrameTypeInit == ASSUME FrameInit PROVE FrameType
<1>1. events \in Seq(Actors) /\ Len(events) = 0
  BY EmptySeq DEF FrameInit
<1>2. MaxEvents \in Nat
  BY FrameAssumption
<1> QED
  BY <1>1, <1>2 DEF FrameInit, FrameType, NoDrag

LEMMA FrameTypeStep ==
    ASSUME FrameType, FrameNext \/ UNCHANGED frameVars
    PROVE  FrameType'
<1>0. events \in Seq(Actors) /\ Len(events) \in Nat /\ MaxEvents \in Nat \ {0}
      /\ Len(events) <= MaxEvents /\ expanded \in Nat /\ expanded <= Len(events)
  BY FrameAssumption DEF FrameType
<1>1. CASE UNCHANGED <<drag, collapsed, sideTab, events, expanded>>
  BY <1>1 DEF FrameType
<1>2. ASSUME NEW s \in Sides, FoldSide(s) \/ BeginColumnDrag(s) PROVE FrameType'
  BY <1>2 DEF FoldSide, BeginColumnDrag, FrameType
<1>3. CASE EndDrag
  BY <1>3 DEF EndDrag, NoDrag, FrameType
<1>4. ASSUME NEW t \in {"summary", "export"}, ChangeTab(t) PROVE FrameType'
  BY <1>4 DEF ChangeTab, FrameType
<1>5. ASSUME NEW a \in Actors, Trace(a) PROVE FrameType'
  <2> DEFINE rest == IF Len(events) = MaxEvents THEN Tail(events) ELSE events
  <2>1. events' = Append(rest, a)
        /\ expanded' = (IF Len(events) = MaxEvents /\ expanded > 0 THEN expanded - 1 ELSE expanded)
        /\ UNCHANGED <<drag, collapsed, sideTab>>
    BY <1>5 DEF Trace
  <2>2. CASE Len(events) = MaxEvents
    <3>1. events # <<>>
      BY <1>0, <2>2
    <3>2. rest \in Seq(Actors) /\ Len(rest) = Len(events) - 1
      BY <1>0, <2>2, <3>1
    <3> HIDE DEF rest
    <3>3. events' \in Seq(Actors) /\ Len(events') = Len(events)
      BY <1>0, <2>1, <3>2
    <3>4. expanded' \in 0 .. Len(events)
      BY <1>0, <2>1
    <3> QED
      BY <1>0, <2>1, <3>3, <3>4 DEF FrameType
  <2>3. CASE Len(events) # MaxEvents
    <3>1. rest = events
      BY <2>3
    <3> HIDE DEF rest
    <3>2. events' \in Seq(Actors) /\ Len(events') = Len(events) + 1 /\ expanded' = expanded
      BY <1>0, <2>1, <2>3, <3>1
    <3>3. expanded' \in 0 .. Len(events')
      BY <1>0, <3>2
    <3> QED
      BY <1>0, <2>1, <2>3, <3>2, <3>3 DEF FrameType
  <2> QED
    BY <2>2, <2>3
<1>6. CASE ClearTrace
  <2>1. events' \in Seq(Actors) /\ Len(events') = 0 /\ expanded' = 0
        /\ UNCHANGED <<drag, collapsed, sideTab>>
    BY <1>6, EmptySeq DEF ClearTrace
  <2> QED
    BY <1>0, <2>1 DEF FrameType
<1>7. ASSUME NEW i, UnfoldRow(i) PROVE FrameType'
  <2>1. expanded' \in {0, i} /\ i \in DOMAIN events /\ UNCHANGED <<drag, collapsed, sideTab, events>>
    BY <1>7 DEF UnfoldRow, Rows
  <2>2. expanded' \in 0 .. Len(events)
    BY <1>0, <2>1
  <2> QED
    BY <2>1, <2>2 DEF FrameType
<1> QED
  BY <1>1, <1>2, <1>3, <1>4, <1>5, <1>6, <1>7
     DEF FrameNext, SideNext, TabsNext, TraceViewNext, frameVars, DragTo, ResetLayout,
         GatewayAnswers, ShowRecord, FilterTrace

(* The dialogs. *)
DialogsType ==
    /\ pwOpened \in Nat /\ pwOpening \in 0 .. pwOpened /\ pwAsked \in 0 .. pwOpened
    /\ pwMessage \in 0 .. pwOpened

LEMMA DialogsTypeInit == ASSUME DialogsInit PROVE DialogsType
BY DEF DialogsInit, DialogsType

LEMMA DialogsTypeStep ==
    ASSUME DialogsType, DialogsNext \/ UNCHANGED dialogVars
    PROVE  DialogsType'
<1>1. CASE OpenPassword
  BY <1>1 DEF OpenPassword, DialogsType
<1>2. CASE ClosePassword \/ PasswordAnswers \/ SubmitRegistration \/ UNCHANGED dialogVars
  BY <1>2 DEF ClosePassword, PasswordAnswers, SubmitRegistration, dialogVars, DialogsType
<1>3. ASSUME NEW ok \in BOOLEAN, SubmitPassword(ok) \/ RegistrationAnswered(ok) PROVE DialogsType'
  BY <1>3 DEF SubmitPassword, RegistrationAnswered, DialogsType
<1> QED
  BY <1>1, <1>2, <1>3 DEF DialogsNext

LEMMA AdminTypeSound ==
    ASSUME MembersInv, NoticesInv, DoorInv, DialogsType
    PROVE  AdminTypeOK
<1>1. \A u \in Members : member[u] \in [approved : BOOLEAN, active : BOOLEAN]
  BY DEF MembersInv, MembersShape, MemberRows
<1>2. shownMembers.at \in 0 .. commits
  BY DEF MembersInv, MembersShape, MemberLists, ReadsAreTrue, ReadIsTrue
<1>3. notices \subseteq NoticeIds /\ editingAnnId \in NoticeIds \cup {NoNotice}
  BY DEF NoticesInv, NoticesShape
<1>4. pwMessage <= pwOpened
  BY DEF DialogsType
<1> QED
  BY <1>1, <1>2, <1>3, <1>4 DEF AdminTypeOK, DoorInv

-----------------------------------------------------------------------------
(* The guide. *)
GuideNames == {a.name : a \in AllActivities}
NotesType == loadNotes \subseteq GuideNames /\ hasCells \subseteq GuideNames

LEMMA FitsIsNamed == ASSUME NEW p, Fits(p) PROVE p.activity \in GuideNames
BY DEF Fits, GuideNames, AllActivities

LEMMA NotesTypeInit == ASSUME PlacesInit PROVE NotesType
BY DEF PlacesInit, NotesType

LEMMA NotesTypeStep ==
    ASSUME PlacesInv, NotesType, PlacesNext \/ UNCHANGED placeVars
    PROVE  NotesType'
<1>1. CASE UNCHANGED <<loadNotes, hasCells>>
  BY <1>1 DEF NotesType
<1>2. CASE UseTemplate
  <2>1. place.activity \in GuideNames
    BY FitsIsNamed DEF PlacesInv
  <2>2. GetActivity(place.activity).name = place.activity
    BY <2>1 DEF GuideNames, GetActivity
  <2>3. hasCells' = hasCells \cup {GetActivity(place.activity).name} /\ UNCHANGED loadNotes
    BY <1>2 DEF UseTemplate
  <2> QED
    BY <2>1, <2>2, <2>3 DEF NotesType
<1>3. ASSUME NEW q \in deskAsks, NEW ok \in BOOLEAN, AskEnds(q, ok) PROVE NotesType'
  <2>1. q.at.activity \in GuideNames
    BY FitsIsNamed DEF PlacesInv
  <2>2. loadNotes' \subseteq loadNotes \cup {q.at.activity} /\ UNCHANGED hasCells
    BY <1>3 DEF AskEnds
  <2> QED
    BY <2>1, <2>2 DEF NotesType
<1> QED
  BY <1>1, <1>2, <1>3
     DEF PlacesNext, placeVars, SetStage, SetActivity, MoveTo, SavePlace, DismissLegacy, LeaveDesk,
         ReturnToDesk, BeginAsk

FollowedType == followed \subseteq Snippets

LEMMA FollowedTypeInit == ASSUME SnippetsInit PROVE FollowedType
BY DEF SnippetsInit, FollowedType

LEMMA FollowedTypeStep ==
    ASSUME FollowedType, SnippetsNext \/ UNCHANGED snippetVars
    PROVE  FollowedType'
<1>1. ASSUME NEW s \in Snippets, RunSnippet(s) PROVE FollowedType'
  <2>1. followed' \in {followed, followed \cup {s}}
    BY <1>1 DEF RunSnippet
  <2> QED
    BY <2>1 DEF FollowedType
<1> QED
  BY <1>1 DEF SnippetsNext, snippetVars, LoadIntoKernel, KernelIsNew, FollowedType

LEMMA GuideDeskTypeSound ==
    ASSUME PlacesInv, NotesType, FollowedType
    PROVE  GuideDeskTypeOK
<1>1. place.stage \in ToSet(Stages)
  BY DEF PlacesInv, Fits
<1>2. TraceBadges \subseteq GuideNames
  BY FitsIsNamed DEF PlacesInv, TraceBadges
<1>3. SavedLabel \in {"unsaved", "new", "saved"}
  BY DEF SavedLabel
<1> QED
  BY <1>1, <1>2, <1>3 DEF NotesType, FollowedType, GuideNames, GuideDeskTypeOK

(* The provider of the chat and its keys. *)
AiType == aiStored \in ChatChoices /\ aiShown \in [AiTabs -> ChatChoices] /\ aiCrossed \subseteq AiTabs
KeysType ==
    /\ keyHealth \in [loading : BOOLEAN, keys : SUBSET serverKeys, error : BOOLEAN]

LEMMA AiTypeSound == ASSUME AiType, KeysType PROVE AiTypeOK
<1>1. keyHealth.keys \subseteq serverKeys
  BY DEF KeysType
<1>2. \A v \in DeskProviders : ProviderDot(v) \in {"pending", "ok", "off"}
  BY DEF ProviderDot
<1> QED
  BY <1>1, <1>2 DEF AiType, AiTypeOK

LEMMA NormalIsOffered == \A v \in ChatChoices : \A p : ShownOn(p, v) \in ChatChoices /\ Normal(v) \in ChatChoices
<1>1. DefaultProvider \in ChatChoices
  BY AiAssumption DEF DeskProviders, DefaultProvider
<1> QED
  BY <1>1 DEF ShownOn, Normal

LEMMA AiTypeInit == ASSUME AiInit PROVE AiType
<1>1. DefaultProvider \in ChatChoices
  BY AiAssumption DEF DeskProviders, DefaultProvider
<1> QED
  BY <1>1 DEF AiInit, AiType

LEMMA AiTypeStep ==
    ASSUME ChoiceInv, AiType, ChoiceNext \/ UNCHANGED aiVars
    PROVE  AiType'
<1>1. CASE UNCHANGED aiVars
  BY <1>1 DEF aiVars, AiType
<1>2. ASSUME NEW t \in AiTabs, StorageEvent(t) PROVE AiType'
  <2>1. aiEvents[t] \in Seq(ChatChoices) /\ aiEvents[t] # <<>>
    BY <1>2 DEF StorageEvent, ChoiceInv
  <2>2. Head(aiEvents[t]) \in ChatChoices
    BY <2>1
  <2>3. PICK v \in ChatChoices : v = Normal(Head(aiEvents[t]))
    BY <2>2, NormalIsOffered
  <2>4. aiShown' \in {aiShown, [aiShown EXCEPT ![t] = v]} /\ UNCHANGED <<aiStored, aiCrossed>>
    BY <1>2, <2>3 DEF StorageEvent
  <2> QED
    BY <2>4 DEF AiType
<1>3. ASSUME NEW t \in AiTabs, NEW pg \in {"none", "chat", "desk"}, OpenAiPage(t, pg) PROVE AiType'
  <2>1. PICK v \in ChatChoices : v = ShownOn(pg, aiStored)
    BY NormalIsOffered DEF AiType
  <2>2. aiShown' = [aiShown EXCEPT ![t] = v] /\ UNCHANGED aiStored /\ aiCrossed' \subseteq aiCrossed
    BY <1>3, <2>1 DEF OpenAiPage
  <2> QED
    BY <2>2 DEF AiType
<1>4. ASSUME NEW t \in AiTabs, NEW v \in ChatChoices, ChooseProvider(t, v) PROVE AiType'
  <2>1. aiShown' = [aiShown EXCEPT ![t] = v] /\ aiStored' = v /\ aiCrossed' \subseteq aiCrossed \cup {t}
    BY <1>4 DEF ChooseProvider, WriteChoice
  <2> QED
    BY <2>1 DEF AiType
<1> QED
  BY <1>1, <1>2, <1>3, <1>4 DEF ChoiceNext

LEMMA KeysTypeInit == ASSUME HealthInit PROVE KeysType
BY DEF HealthInit, KeysType

LEMMA KeysTypeStep ==
    ASSUME KeysType, HealthNext \/ UNCHANGED healthVars
    PROVE  KeysType'
<1> USE DEF KeysType
<1>1. CASE UNCHANGED healthVars
  BY <1>1 DEF healthVars
<1>2. ASSUME NEW v, KeyIsSet(v) PROVE KeysType'
  <2>1. SUBSET serverKeys \subseteq SUBSET serverKeys' /\ UNCHANGED keyHealth
    BY <1>2 DEF KeyIsSet
  <2> QED
    BY <2>1
<1>3. CASE RefreshHealth
  BY <1>3 DEF RefreshHealth
<1>4. ASSUME NEW q \in keyAsks, NEW ok \in BOOLEAN, HealthAnswers(q, ok) PROVE KeysType'
  <2>1. CASE ok
    <3>1. keyHealth' = [loading |-> FALSE, keys |-> serverKeys, error |-> FALSE] /\ UNCHANGED serverKeys
      BY <1>4, <2>1 DEF HealthAnswers
    <3> QED
      BY <3>1
  <2>2. CASE ~ok
    <3>1. keyHealth' = [keyHealth EXCEPT !.loading = FALSE, !.error = TRUE] /\ UNCHANGED serverKeys
      BY <1>4, <2>2 DEF HealthAnswers
    <3> QED
      BY <3>1
  <2> QED
    BY <2>1, <2>2
<1> QED
  BY <1>1, <1>2, <1>3, <1>4 DEF HealthNext
=============================================================================
