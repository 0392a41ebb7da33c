---------------------------- MODULE MCFrontend ----------------------------
(***************************************************************************)
(* The parts of the browser application, and the accounts of the server it *)
(* signs in to, on small instances.  What one needs of another (the        *)
(* session, the open page, the answers of the server) is an input of its   *)
(* own actions, so they have no variable in common: a behaviour lets one   *)
(* of them move and leaves the others where they begin, and their states   *)
(* add up.                                                                 *)
(***************************************************************************)
EXTENDS Navigation, ProjectSelection, TrainingDesk, TrainingRun,
        JobsConsole, ProjectBrief, DataGuide, Assistant, Session,
        Connection, ActivityPage, ActivityStore, FileLoad, TraceLog,
        NotebookV2, NotebookFrame, ResultsPanel, CanvasRun, CanvasAgents,
        AdminDesk, ActivityGuide, AiChoice, AppLists, OperatorPages,
        Accounts

CONSTANTS
    Parts,            \* the parts that move
    f1, f2, colA, colB, t1, u1, k1, k2 \* model values the definitions below name

ASSUME NamedAssumption == t1 \in Tabs /\ u1 \in Users

VARIABLE part \* the one that moves

\* The columns of the two versions of a file: the second file never changes.
MCColumnsOf == [f \in {f1, f2} |-> [v \in 1 .. 2 |-> IF f = f2 THEN {colA} ELSE IF v = 1 THEN {colA, colB} ELSE {colB}]]
MCWidth ==
    [s \in {"left", "right"} |->
        IF s = "left" THEN [min |-> 1, default |-> 2, max |-> 3] ELSE [min |-> 1, default |-> 1, max |-> 2]]
\* Runs with other metrics: one has both, one the other way round, one lacks each.
MCValue ==
    [r \in 1 .. 4 |->
        CASE r = 1 -> [acc |-> 2, loss |-> 1]
          [] r = 2 -> [acc |-> 1, loss |-> 2]
          [] r = 3 -> [loss |-> 0]
          [] OTHER -> [acc |-> 2]]
MCOutputs == {{"data_quality_concerns"}, {"executive_summary"}}

-----------------------------------------------------------------------------
\* A part with several initial states has one of them when it does not move.
Pinned(moving, start) == part \notin moving => start

Init ==
    /\ part \in Parts
    /\ RunInit /\ BriefInit /\ PageInit /\ StoreInit /\ TraceInit /\ NotebookInit
    /\ PanelInit /\ CanvasRunInit /\ BlocksInit /\ CellsInit /\ DrawerInit
    /\ MembersInit /\ NoticesInit /\ PanelDoorInit /\ DialogsInit /\ SnippetsInit
    /\ AiInit /\ HealthInit /\ ReportsInit /\ ProbeInit /\ PlatformInit
    /\ NavInit /\ Pinned({"nav"}, session = "guest")
    /\ SelInit /\ Pinned({"selection"}, profile = None)
    /\ DeskInit /\ Pinned({"desk"}, version = [f \in Files |-> 0])
    /\ ConsoleInit /\ Pinned({"cancel", "retry"}, status = [j \in FirstJobs |-> "queued"])
    /\ GuideInit /\ Pinned({"guide"}, lastBrief = NoBrief)
    /\ SessionInit /\ Pinned({"session", "users"}, ownerOf = <<>>) /\ (part = "session" => ownerOf \in {<<>>, <<u1>>})
    /\ LoadInit /\ Pinned({"load"}, kernelUp)
    /\ AssistantInit /\ Pinned({"chat"}, beside /\ workbench)
    /\ ConnInit /\ Pinned({"poll", "form"}, <<build, cloud, aws, mode, cookie>> = <<"dev", NoUrl, NoUrl, "cloud", "none">>)
    /\ FrameInit /\ Pinned({"sides", "tabs", "traceview"}, collapsed = {} /\ \A s \in Sides : column[s] = Width[s].default)
    /\ PlacesInit /\ Pinned({"places"}, keptPlace.stage = "unknown" /\ ~legacyBanner)
    /\ ListsInit /\ Pinned({"lists"}, list = "models")
    /\ AccountsInit /\ born = {k1}

\* Two tabs of one user, of which one hears of the network's return, and one
\* tab of two users: all at once would be many more states.
TwoTabs ==
    \/ TokenStep \/ TabStep(t1, {u1}, {"effect", "online"})
    \/ \E t \in Tabs \ {t1} : TabStep(t, {u1}, {"effect"})
TwoUsers == TokenStep \/ TabStep(t1, Users, {"effect", "online"})

\* Everything about the master and one member, and registrations and deletions
\* that race for the address of two members: both at once would be many more
\* states.
OneMember == AccountsNext /\ born' \subseteq {k1, k2}
TwoMembers ==
    /\ AccountsNext
    /\ \A r \in Requests : handling'[r] \in {"idle", "register", "mail", "verify", "delete"}

\* The form of the brief, of which two requests may be out: analysis,
\* registration and the assistant; a file with its title next to an analysis;
\* and next to the other two. All at once would be many more states.
WithoutFiles == BriefNext /\ reading' = "" /\ ~suggesting' /\ ~pending'
FilesAndAnalysis == BriefNext /\ registering' = "idle" /\ refining' = NoForm
FilesAndTitles == BriefNext /\ analyzing' = NoForm /\ gone'.analyzing = NoForm

\* The second file never changes: it is uploaded once.
OneFileChanges == DeskNext /\ version'[f2] <= 1

\* What is left alone when the part p moves.
Still(p) ==
    /\ IF p = "nav" THEN TRUE ELSE UNCHANGED navVars
    /\ IF p = "selection" THEN TRUE ELSE UNCHANGED selVars
    /\ IF p = "desk" THEN TRUE ELSE UNCHANGED deskVars
    /\ IF p \in {"run", "tasks"} THEN TRUE ELSE UNCHANGED runVars
    /\ IF p \in {"cancel", "retry"} THEN TRUE ELSE UNCHANGED consoleVars
    /\ IF p \in {"brief", "files", "titles"} THEN TRUE ELSE UNCHANGED briefVars
    /\ IF p = "guide" THEN TRUE ELSE UNCHANGED guideVars
    /\ IF p = "chat" THEN TRUE ELSE UNCHANGED assistantVars
    /\ IF p \in {"session", "users"} THEN TRUE ELSE UNCHANGED sessionVars
    /\ IF p \in {"poll", "form"} THEN TRUE ELSE UNCHANGED connVars
    /\ IF p = "page" THEN TRUE ELSE UNCHANGED pageVars
    /\ IF p = "store" THEN TRUE ELSE UNCHANGED storeVars
    /\ IF p = "load" THEN TRUE ELSE UNCHANGED loadVars
    /\ IF p = "traces" THEN TRUE ELSE UNCHANGED traceVars
    /\ IF p = "notebook" THEN TRUE ELSE UNCHANGED nbVars
    /\ IF p \in {"sides", "tabs", "traceview"} THEN TRUE ELSE UNCHANGED frameVars
    /\ IF p \in {"compare", "framed", "panel"} THEN TRUE ELSE UNCHANGED resultsVars
    /\ IF p = "canvas" THEN TRUE ELSE UNCHANGED canvasRunVars
    /\ IF p = "blocks" THEN TRUE ELSE UNCHANGED blockVars
    /\ IF p = "cells" THEN TRUE ELSE UNCHANGED dynVars
    /\ IF p = "drawer" THEN TRUE ELSE UNCHANGED drawerVars
    /\ IF p = "members" THEN TRUE ELSE UNCHANGED memberVars
    /\ IF p = "notices" THEN TRUE ELSE UNCHANGED noticeVars
    /\ IF p = "door" THEN TRUE ELSE UNCHANGED panelDoorVars
    /\ IF p = "dialogs" THEN TRUE ELSE UNCHANGED dialogVars
    /\ IF p = "places" THEN TRUE ELSE UNCHANGED placeVars
    /\ IF p = "snippets" THEN TRUE ELSE UNCHANGED snippetVars
    /\ IF p = "choice" THEN TRUE ELSE UNCHANGED aiVars
    /\ IF p = "keys" THEN TRUE ELSE UNCHANGED healthVars
    /\ IF p = "lists" THEN TRUE ELSE UNCHANGED listVars
    /\ IF p = "reports" THEN TRUE ELSE UNCHANGED reportVars
    /\ IF p = "probe" THEN TRUE ELSE UNCHANGED probeVars
    /\ IF p = "platform" THEN TRUE ELSE UNCHANGED formVars
    /\ IF p \in {"accounts", "addresses"} THEN TRUE ELSE UNCHANGED accountVars
    /\ UNCHANGED part

Next ==
    \/ part = "nav" /\ NavNext /\ Still("nav")
    \/ part = "selection" /\ SelNext /\ Still("selection")
    \/ part = "desk" /\ OneFileChanges /\ Still("desk")
    \/ part = "run" /\ WorkNext /\ Still("run")
    \/ part = "tasks" /\ TaskNext /\ Still("tasks")
    \/ part = "cancel" /\ ConsoleStep({"cancel"}) /\ Still("cancel")
    \/ part = "retry" /\ ConsoleStep({"retry"}) /\ Still("retry")
    \/ part = "brief" /\ WithoutFiles /\ Still("brief")
    \/ part = "files" /\ FilesAndAnalysis /\ Still("files")
    \/ part = "titles" /\ FilesAndTitles /\ Still("titles")
    \/ part = "guide" /\ GuideNext /\ Still("guide")
    \/ part = "chat" /\ AssistantNext /\ Still("chat")
    \/ part = "session" /\ TwoTabs /\ Still("session")
    \/ part = "users" /\ TwoUsers /\ Still("users")
    \/ part = "poll" /\ PollNext /\ Still("poll")
    \/ part = "form" /\ FormNext /\ Still("form")
    \/ part = "page" /\ PageNext /\ Still("page")
    \/ part = "store" /\ StoreNext /\ Still("store")
    \/ part = "load" /\ LoadNext /\ Still("load")
    \/ part = "traces" /\ TraceNext /\ Still("traces")
    \/ part = "notebook" /\ NotebookNext /\ Still("notebook")
    \/ part = "sides" /\ SideNext /\ Still("sides")
    \/ part = "tabs" /\ TabsNext /\ Still("tabs")
    \/ part = "traceview" /\ TraceViewNext /\ Still("traceview")
    \/ part = "compare" /\ CompareNext /\ Still("compare")
    \/ part = "framed" /\ SizeNext /\ Still("framed")
    \/ part = "panel" /\ PanelViewNext /\ Still("panel")
    \/ part = "canvas" /\ CanvasRunNext /\ Still("canvas")
    \/ part = "blocks" /\ BlocksNext /\ Still("blocks")
    \/ part = "cells" /\ CellsNext /\ Still("cells")
    \/ part = "drawer" /\ DrawerNext /\ Still("drawer")
    \/ part = "members" /\ MembersNext /\ Still("members")
    \/ part = "notices" /\ NoticesNext /\ Still("notices")
    \/ part = "door" /\ PanelDoorNext /\ Still("door")
    \/ part = "dialogs" /\ DialogsNext /\ Still("dialogs")
    \/ part = "places" /\ PlacesNext /\ Still("places")
    \/ part = "snippets" /\ SnippetsNext /\ Still("snippets")
    \/ part = "choice" /\ ChoiceNext /\ Still("choice")
    \/ part = "keys" /\ HealthNext /\ Still("keys")
    \/ part = "lists" /\ ListsNext /\ Still("lists")
    \/ part = "reports" /\ ReportsNext /\ Still("reports")
    \/ part = "probe" /\ ProbeNext /\ Still("probe")
    \/ part = "platform" /\ PlatformNext /\ Still("platform")
    \/ part = "accounts" /\ OneMember /\ Still("accounts")
    \/ part = "addresses" /\ TwoMembers /\ Still("addresses")

vars == <<part, navVars, selVars, deskVars, runVars, consoleVars, briefVars,
          guideVars, assistantVars, sessionVars, connVars, pageVars, storeVars,
          loadVars, traceVars, nbVars, frameVars, resultsVars, canvasRunVars,
          blockVars, dynVars, drawerVars, memberVars, noticeVars, panelDoorVars,
          dialogVars, placeVars, snippetVars, aiVars, healthVars, listVars,
          reportVars, probeVars, formVars, accountVars>>

Spec == Init /\ [][Next]_vars /\ ListsFairness

-----------------------------------------------------------------------------
\* What holds of the part that moves: the rest is as it began.
Where(parts, claim) == part \in parts => claim

\* Every part has its type in every state.
FrontendTypeOK ==
    /\ Where({"nav"}, NavTypeOK) /\ Where({"selection"}, SelTypeOK) /\ Where({"desk"}, DeskTypeOK)
    /\ Where({"run", "tasks"}, RunTypeOK) /\ Where({"cancel", "retry"}, ConsoleTypeOK)
    /\ Where({"brief", "files", "titles"}, BriefTypeOK) /\ Where({"guide"}, GuideTypeOK) /\ Where({"chat"}, AssistantTypeOK)
    /\ Where({"session", "users"}, SessionTypeOK) /\ Where({"poll", "form"}, ConnTypeOK)
    /\ Where({"page"}, PageTypeOK) /\ Where({"store"}, StoreTypeOK) /\ Where({"load"}, LoadTypeOK)
    /\ Where({"traces"}, TraceTypeOK) /\ Where({"notebook"}, NotebookV2TypeOK)
    /\ Where({"sides", "tabs", "traceview"}, FrameTypeOK) /\ Where({"compare", "framed", "panel"}, PanelTypeOK)
    /\ Where({"canvas"}, CanvasRunTypeOK) /\ Where({"blocks", "cells", "drawer"}, CanvasAgentsTypeOK)
    /\ Where({"members", "notices", "door", "dialogs"}, AdminTypeOK)
    /\ Where({"places", "snippets"}, GuideDeskTypeOK) /\ Where({"choice", "keys"}, AiTypeOK)
    /\ Where({"lists"}, ListsTypeOK) /\ Where({"reports", "probe", "platform"}, PagesTypeOK)
    /\ Where({"accounts", "addresses"}, AccountsTypeOK)

\* A signed-in user sees one page, whoever moved it last, and nobody finds
\* open what the user before had.
ScreenFitsSession == Where({"nav"}, OneMainPanel /\ NoWorkspaceForGuests)

\* Once the newest request for it was answered and no older answer came after
\* that one, the preview is of the selected file and the log of the open job;
\* an older answer that comes later does replace either, until the next is
\* shown. A result is never one of a training that was aborted or superseded.
\* The newest job is polled until it ends, unless a late poll of an older job
\* stopped that ("cutOff"). The lists are asked for after a card of the chat
\* names them. A report's preview is of the named one once it was answered
\* last ("previewMixed"), a probe's state of the named job, and a form's word
\* of the last form unless two were sent at once ("formMixed").
LatestAnswerShown ==
    /\ Where({"desk"}, NewestPreviewIsCurrent) /\ Where({"run", "tasks"}, ResultOfLastRun /\ NewestJobIsWatched)
    /\ Where({"cancel", "retry"}, LogIsOfOpenJob) /\ Where({"lists"}, ToolNewsIsAsked)
    /\ Where({"reports"}, PreviewIsOfNamed) /\ Where({"probe"}, ProbeIsNamed)
    /\ Where({"platform"}, VerdictIsOfLast)

\* What is sent off makes sense, whatever was chosen or answered before: a
\* training has inputs of the shown file without the target among them, and the
\* model gets a conversation in which every message is answered.
RequestsMakeSense ==
    Where({"desk"}, TargetIsNoInput) /\ Where({"chat"}, EveryMessageAnswered)

\* A draft of the brief that is said to be saved is the one stored, unless an
\* older analysis or a handler of a form that was left has written since the
\* last autosave ("overtaken"); a page of cells that stops saying it is unsaved
\* has stored what its screen shows, and stores nothing else until it says so
\* again.
WhatIsSavedIsStored == []Where({"brief", "files", "titles"}, SavedIsStored) /\ SavedPageIsStored

\* A tab whose token no other tab replaced ("foreign") sends its requests with
\* the token it holds, and the user it shows is that token's owner, unless the
\* last answer was about an earlier token ("overtaken"). One that shows nobody
\* yet, and no form, is waiting for an answer.
TabIsItsUsers == Where({"session", "users"}, SessionIsOwn /\ LoadingIsAwaited)

\* A cell of the experiment page says "done" or "error" only over outputs of a
\* run of its own that is over, and that it runs only while one of its runs is
\* on or after a return to a page that was left under it ("restored"); of a
\* cell whose runs did not overlap, the outputs are of the newest. The sheets
\* of the notebook, the canvas with its blocks and cells and the results panel,
\* which the repository keeps without a route to them, show what they asked
\* for, with the exceptions each property names ("stuckCells", "twice",
\* "astray", "refolded", "dynRestored", "grown"). The file said to be in the
\* kernel is there unless another was chosen under the load ("swapped"), and
\* the newest traces are kept, but for those refused by the storage
\* ("unstored").
CellsShowTheirRuns ==
    /\ Where({"page"}, CellShowsItsRun) /\ Where({"notebook"}, SheetShowsItsRun)
    /\ Where({"canvas"}, BlockShowsItsRun) /\ Where({"blocks", "cells"}, AnswersInTheirPlace)
    /\ Where({"load"}, MarkIsOfNamed) /\ Where({"traces"}, NewestTracesKept)
    /\ Where({"compare", "framed", "panel"}, TableComparesTicked)

\* The stage and the activity that are open fit each other, also after a
\* return, and so do those a run or a load is recorded under; an experiment
\* page that has heard of every change shows the stored provider unless its own
\* choice crossed another tab's ("aiCrossed"; the chat page shows what it read
\* or chose itself); columns keep their limits; and the guide's snippets find
\* their names in the order they are shown in, without the one that reads a
\* file, which never does.
PlacesAndChoicesAgree ==
    /\ Where({"places"}, PlacesAgree) /\ Where({"snippets"}, GuideCanBeFollowed)
    /\ Where({"choice", "keys"}, ChoiceIsShared) /\ Where({"sides"}, ColumnsHold)

=============================================================================
