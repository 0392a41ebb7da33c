---------------------------- MODULE ProjectBrief ----------------------------
(***************************************************************************)
(* The form in which a project is described (ProjectsPage.jsx) and what it *)
(* leaves in the browser's session storage for the AI assistant next to it *)
(* (AiChatPage.jsx): the draft, the mark that the assistant is to refine   *)
(* it, a title waiting for a yes. Form and assistant are separate          *)
(* components; they meet in the storage and in window events, and every    *)
(* request of either runs on while the user types.                         *)
(***************************************************************************)
EXTENDS Naturals, FiniteSets

CONSTANT MaxInFlight  \* bound: requests in flight when the user starts one more

VARIABLES
    mounted,     \* the form is on the screen
    form,        \* briefTitle and briefContent
    timer,       \* the 500 ms timer of the autosave runs
    saveStatus,  \* briefSaveStatus
    draft,       \* storage: ailab_brief_draft
    supplement,  \* storage: ailab_brief_supplement_active
    pending,     \* storage: ailab_pending_title
    analysis,    \* analysis: recommendations are shown
    analyzing,   \* runAnalyze: the form it was started with
    registering, \* runRegisterFromBrief: its stage
    reading,     \* the file being turned into text: "", "client" or "server"
    suggesting,  \* a title is being suggested
    refining,    \* the assistant refines this draft
    gone,        \* the handlers in flight of a form that was left
    overtaken    \* history: since the last autosave an analysis of an older
                 \* form, or a handler of a form that was left, wrote the draft

briefVars == <<mounted, form, timer, saveStatus, draft, supplement, pending,
               analysis, analyzing, registering, reading, suggesting, refining,
               gone, overtaken>>

\* A title is missing or there; a text is missing, typed, or an extended or
\* refined one.
Forms == [title : {"", "set"}, content : {"", "typed", "more"}]
EmptyForm == [title |-> "", content |-> ""]
NoForm == [title |-> "none", content |-> "none"]

NoneGone == [analyzing |-> NoForm, registering |-> FALSE, suggesting |-> FALSE]

Complete(f) == f.title # "" /\ f.content # ""

\* What the screen lets the user do: the buttons wait for different requests.
BriefButtons ==
    {b \in {"clear", "analyze", "register"} :
        /\ mounted
        /\ b = "clear" => analyzing = NoForm /\ registering = "idle"
        /\ b = "analyze" => analyzing = NoForm
        /\ b = "register" => registering = "idle"}

\* The recommendations under the form.
RecommendationShown == mounted /\ analysis

\* What the form says of the autosave; the saved one has the time of it.
FormPills == {p \in {"typing", "saved", "error"} : mounted /\ saveStatus = p}

\* Where the text of a file is taken from first, by the kind of its name.
FirstReader == [text |-> "client", office |-> "server", other |-> "server"]

InFlight ==
    Cardinality({r \in {"analyze", "register", "read", "suggest", "refine"} :
        \/ r = "analyze" /\ analyzing # NoForm
        \/ r = "register" /\ registering # "idle"
        \/ r = "read" /\ reading # ""
        \/ r = "suggest" /\ suggesting
        \/ r = "refine" /\ refining # NoForm})
    + (IF gone = NoneGone THEN 0 ELSE 1)

-----------------------------------------------------------------------------
BriefInit ==
    /\ mounted = TRUE
    /\ form = EmptyForm /\ timer = FALSE /\ saveStatus = "idle"
    /\ draft = NoForm /\ supplement = FALSE /\ pending = FALSE
    /\ analysis = FALSE /\ analyzing = NoForm
    /\ registering = "idle"
    /\ reading = "" /\ suggesting = FALSE
    /\ refining = NoForm /\ gone = NoneGone
    /\ overtaken = FALSE

\* The form is set; a change starts the autosave's timer anew.
SetForm(f) ==
    /\ form' = f
    /\ IF mounted /\ f # form
       THEN timer' = TRUE /\ saveStatus' = "typing"
       ELSE UNCHANGED <<timer, saveStatus>>

Type ==
    /\ mounted
    /\ \E f \in {[form EXCEPT !.title = "set"], [form EXCEPT !.content = "typed"],
                 [form EXCEPT !.title = ""], [form EXCEPT !.content = ""]} :
            f # form /\ SetForm(f)
    /\ UNCHANGED <<mounted, draft, supplement, pending, analysis, analyzing,
                   registering, reading, suggesting, refining, overtaken, gone>>

\* The timer fires. A storage that is full or forbidden refuses.
Autosave ==
    /\ timer
    /\ timer' = FALSE
    /\ \/ draft' = form /\ saveStatus' = "saved" /\ overtaken' = FALSE
       \/ UNCHANGED <<draft, overtaken>> /\ saveStatus' = "error"
    /\ UNCHANGED <<mounted, form, supplement, pending, analysis, analyzing,
                   registering, reading, suggesting, refining, gone>>

\* Leaving the page drops the form and its timer; coming back starts from an
\* empty form, which is not saved. Handlers in flight go on, for nobody.
LeaveOrReturn ==
    /\ mounted' = ~mounted
    /\ form' = EmptyForm /\ timer' = FALSE /\ saveStatus' = "idle"
    /\ analysis' = FALSE
    /\ analyzing' = NoForm /\ registering' = "idle" /\ reading' = "" /\ suggesting' = FALSE
    /\ gone' = IF mounted
               THEN [analyzing |-> IF analyzing = NoForm THEN gone.analyzing ELSE analyzing,
                     registering |-> gone.registering \/ registering = "creating",
                     suggesting |-> gone.suggesting \/ suggesting]
               ELSE gone
    /\ UNCHANGED <<draft, supplement, pending, refining, overtaken>>

\* Clear, or New Project of App.jsx (which waits for nothing).
Forget ==
    /\ SetForm(EmptyForm)
    /\ analysis' = FALSE
    /\ supplement' = FALSE /\ draft' = NoForm

ClearBrief ==
    /\ "clear" \in BriefButtons
    /\ Forget
    /\ UNCHANGED <<mounted, pending, analyzing, registering, reading, suggesting,
                   refining, overtaken, gone>>

AutoStart ==
    /\ mounted
    /\ Forget
    /\ UNCHANGED <<mounted, pending, analyzing, registering, reading, suggesting,
                   refining, overtaken, gone>>

-----------------------------------------------------------------------------
(* A file dropped on the form: text files are read in the browser and go   *)
(* to the server if that fails, office files go there at once, and blocked *)
(* kinds are refused.                                                      *)

DropFile(kind) ==
    /\ mounted /\ reading = "" /\ InFlight < MaxInFlight
    /\ reading' = FirstReader[kind]
    /\ UNCHANGED <<mounted, form, timer, saveStatus, draft, supplement, pending,
                   analysis, analyzing, registering, suggesting, refining, overtaken, gone>>

FileUnreadable ==
    /\ reading # ""
    /\ reading' = IF reading = "client" THEN "server" ELSE ""
    /\ UNCHANGED <<mounted, form, timer, saveStatus, draft, supplement, pending,
                   analysis, analyzing, registering, suggesting, refining, overtaken, gone>>

\* The text is appended to what the form holds by now, and a title is asked
\* for it.
FileRead ==
    /\ reading # ""
    /\ SetForm([form EXCEPT !.content = "more"])
    /\ reading' = "" /\ suggesting' = TRUE
    /\ UNCHANGED <<mounted, draft, supplement, pending, analysis, analyzing,
                   registering, refining, overtaken, gone>>

\* A title the server is sure of fills an empty field; another one waits for
\* the user's word to the assistant.
TitleSuggested ==
    /\ suggesting
    /\ suggesting' = FALSE
    /\ \/ /\ SetForm(IF form.title = "" THEN [form EXCEPT !.title = "set"] ELSE form)
          /\ UNCHANGED pending
       \/ pending' = TRUE /\ UNCHANGED <<form, timer, saveStatus>>
       \/ UNCHANGED <<pending, form, timer, saveStatus>>
    /\ UNCHANGED <<mounted, draft, supplement, analysis, analyzing, registering,
                   reading, refining, overtaken, gone>>

-----------------------------------------------------------------------------
(* Analysis and registration.                                              *)

RunAnalyze ==
    /\ "analyze" \in BriefButtons /\ InFlight < MaxInFlight
    /\ analysis' = FALSE
    /\ analyzing' = IF Complete(form) THEN form ELSE NoForm
    /\ UNCHANGED <<mounted, form, timer, saveStatus, draft, supplement, pending,
                   registering, reading, suggesting, refining, overtaken, gone>>

\* The answer puts the form it was asked about into the storage, whatever the
\* form holds by then, and wakes the assistant.
Analyzed ==
    /\ analyzing # NoForm
    /\ analysis' = TRUE
    /\ supplement' = TRUE /\ draft' = analyzing
    /\ analyzing' = NoForm
    /\ overtaken' = (overtaken \/ analyzing # form)
    /\ UNCHANGED <<mounted, form, timer, saveStatus, pending, registering,
                   reading, suggesting, refining, gone>>

AnalyzeFails ==
    /\ analyzing # NoForm
    /\ analyzing' = NoForm
    /\ UNCHANGED <<mounted, form, timer, saveStatus, draft, supplement, pending,
                   analysis, registering, reading, suggesting, refining, overtaken, gone>>

\* Registering is left to ProjectSelection; here is what it does to the form.
RunRegister ==
    /\ "register" \in BriefButtons /\ Complete(form) /\ InFlight < MaxInFlight
    /\ registering' = "creating"
    /\ UNCHANGED <<mounted, form, timer, saveStatus, draft, supplement, pending, analysis,
                   analyzing, reading, suggesting, refining, overtaken, gone>>

Registered ==
    /\ registering = "creating"
    /\ Forget
    /\ registering' = "refreshing"
    /\ UNCHANGED <<mounted, pending, analyzing, reading, suggesting, refining, overtaken, gone>>

RegisterEnds ==
    /\ registering # "idle"
    /\ registering' = "idle"
    /\ UNCHANGED <<mounted, form, timer, saveStatus, draft, supplement, pending,
                   analysis, analyzing, reading, suggesting, refining, overtaken, gone>>

\* What the handlers of a form that was left still do to the storage.
GoneAnswered ==
    /\ \/ /\ gone.analyzing # NoForm
          /\ gone' = [gone EXCEPT !.analyzing = NoForm]
          /\ supplement' = TRUE /\ draft' = gone.analyzing
          /\ overtaken' = TRUE
          /\ UNCHANGED pending
       \/ /\ gone.registering
          /\ gone' = [gone EXCEPT !.registering = FALSE]
          /\ supplement' = FALSE /\ draft' = NoForm
          /\ overtaken' = TRUE
          /\ UNCHANGED pending
       \/ /\ gone.suggesting
          /\ gone' = [gone EXCEPT !.suggesting = FALSE]
          /\ pending' = TRUE
          /\ UNCHANGED <<supplement, draft, overtaken>>
       \/ /\ gone # NoneGone
          /\ gone' = NoneGone
          /\ UNCHANGED <<supplement, draft, overtaken, pending>>
    /\ UNCHANGED <<mounted, form, timer, saveStatus, analysis, analyzing,
                   registering, reading, suggesting, refining>>

-----------------------------------------------------------------------------
(* What the assistant does with the storage when the user sends a message: *)
(* it refines the draft, or takes a yes or a no about the pending title,   *)
(* and talks to the model only otherwise (see Assistant).                  *)

SendRefines == supplement /\ draft # NoForm

Refine ==
    /\ SendRefines /\ refining = NoForm /\ InFlight < MaxInFlight
    /\ refining' = draft
    /\ UNCHANGED <<mounted, form, timer, saveStatus, draft, supplement, pending,
                   analysis, analyzing, registering, reading, suggesting, overtaken, gone>>

\* The refined brief goes to the storage and, by an event, to the form.
Refined ==
    /\ refining # NoForm
    /\ \E f \in {[refining EXCEPT !.title = "set"], [refining EXCEPT !.content = "typed"]} :
        /\ draft' = f
        /\ IF mounted THEN SetForm(f) ELSE UNCHANGED <<form, timer, saveStatus>>
    /\ refining' = NoForm
    /\ UNCHANGED <<mounted, supplement, pending, analysis, analyzing, registering,
                   reading, suggesting, overtaken, gone>>

RefineFails ==
    /\ refining # NoForm
    /\ refining' = NoForm
    /\ UNCHANGED <<mounted, form, timer, saveStatus, draft, supplement, pending,
                   analysis, analyzing, registering, reading, suggesting, overtaken, gone>>

AnswerTitle ==
    /\ ~SendRefines /\ pending /\ refining = NoForm
    /\ pending' = FALSE
    /\ \/ UNCHANGED <<form, timer, saveStatus>>
       \/ mounted /\ SetForm([form EXCEPT !.title = "set"])
    /\ UNCHANGED <<mounted, draft, supplement, analysis, analyzing, registering,
                   reading, suggesting, refining, overtaken, gone>>

BriefNext ==
    \/ Type \/ Autosave \/ LeaveOrReturn \/ ClearBrief \/ AutoStart
    \/ \E kind \in DOMAIN FirstReader : DropFile(kind)
    \/ FileUnreadable \/ FileRead \/ TitleSuggested
    \/ RunAnalyze \/ Analyzed \/ AnalyzeFails
    \/ RunRegister \/ Registered \/ RegisterEnds
    \/ GoneAnswered
    \/ Refine \/ Refined \/ RefineFails \/ AnswerTitle

BriefSpec == BriefInit /\ [][BriefNext]_briefVars

-----------------------------------------------------------------------------
BriefTypeOK ==
    /\ {mounted, timer, supplement, pending, analysis, suggesting, overtaken} \subseteq BOOLEAN
    /\ form \in Forms
    /\ {draft, analyzing, refining} \subseteq Forms \cup {NoForm}
    /\ saveStatus \in {"idle", "typing", "saved", "error"}
    /\ registering \in {"idle", "creating", "refreshing"}
    /\ reading \in {"", "client", "server"}
    /\ gone.analyzing \in Forms \cup {NoForm}

\* While the form says "saved", the storage holds what the form shows (or
\* nothing, for an empty form), although registration, the assistant and the
\* buttons write to both. The exception is "overtaken": an analysis started
\* with an older form, or a handler of a form that was left, has put its own
\* into the storage since the last autosave, and the form still says "saved".
\* The assistant is never told to refine when there is no draft.
SavedIsStored ==
    /\ saveStatus = "saved" /\ ~overtaken =>
            draft = form \/ (form = EmptyForm /\ draft = NoForm)
    /\ supplement => draft # NoForm

=============================================================================
