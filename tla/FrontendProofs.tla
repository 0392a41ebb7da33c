--------------------------- MODULE FrontendProofs ---------------------------
(***************************************************************************)
(* What holds of the browser application in every state.  One part moves   *)
(* at a time: a step of MCFrontend is a step of a part or leaves it alone, *)
(* and PagesProofs, AnswersProofs and AccountsProofs show what each keeps.  *)
(***************************************************************************)
EXTENDS MCFrontend, PagesProofs, AnswersProofs, AccountsProofs

-----------------------------------------------------------------------------
LEMMA ConnOrStill ==
    ASSUME Next
    PROVE  ConnNext \/ UNCHANGED connVars
BY DEF Next, Still, ConnNext

LEMMA NavOrStill ==
    ASSUME Next
    PROVE  NavNext \/ UNCHANGED navVars
BY DEF Next, Still

LEMMA StoreOrStill ==
    ASSUME Next
    PROVE  StoreNext \/ UNCHANGED storeVars
BY DEF Next, Still

LEMMA BriefOrStill ==
    ASSUME Next
    PROVE  BriefNext \/ UNCHANGED briefVars
BY DEF Next, Still, WithoutFiles, FilesAndAnalysis, FilesAndTitles

LEMMA DeskOrStill ==
    ASSUME Next
    PROVE  DeskNext \/ UNCHANGED deskVars
BY DEF Next, Still, OneFileChanges

LEMMA AssistantOrStill ==
    ASSUME Next
    PROVE  AssistantNext \/ UNCHANGED assistantVars
BY DEF Next, Still

LEMMA AdminOrStill ==
    ASSUME Next
    PROVE  /\ MembersNext \/ UNCHANGED memberVars
           /\ NoticesNext \/ UNCHANGED noticeVars
           /\ PanelDoorNext \/ UNCHANGED panelDoorVars
BY DEF Next, Still

LEMMA SelOrStill ==
    ASSUME Next
    PROVE  SelNext \/ UNCHANGED selVars
BY DEF Next, Still

LEMMA RunOrStill ==
    ASSUME Next
    PROVE  RunNext \/ UNCHANGED runVars
BY DEF Next, Still, RunNext

LEMMA ConsoleOrStill ==
    ASSUME Next
    PROVE  ConsoleNext \/ UNCHANGED consoleVars
<1>1. \/ ConsoleStep({"cancel"}) \/ ConsoleStep({"retry"}) \/ UNCHANGED consoleVars
  BY DEF Next, Still
<1>2. ConsoleStep({"cancel"}) \/ ConsoleStep({"retry"}) => ConsoleNext
  BY DEF ConsoleStep, ConsoleNext
<1> QED
  BY <1>1, <1>2

LEMMA ListsOrStill ==
    ASSUME Next
    PROVE  ListsNext \/ UNCHANGED listVars
BY DEF Next, Still

LEMMA OperatorOrStill ==
    ASSUME Next
    PROVE  /\ ReportsNext \/ UNCHANGED reportVars
           /\ ProbeNext \/ UNCHANGED probeVars
           /\ PlatformNext \/ UNCHANGED formVars
BY DEF Next, Still

LEMMA SessionOrStill ==
    ASSUME Next
    PROVE  SessionNext \/ UNCHANGED sessionVars
<1>1. TwoTabs => SessionNext
  <2>1. ASSUME NEW t \in Tabs, NEW K \in SUBSET {"effect", "online"}, TabStep(t, {u1}, K)
        PROVE  SessionNext
    BY <2>1, NamedAssumption DEF TabStep, SessionNext
  <2> QED
    BY <2>1, NamedAssumption DEF TwoTabs, SessionNext
<1>2. TwoUsers => SessionNext
  BY NamedAssumption DEF TwoUsers, SessionNext
<1>3. TwoTabs \/ TwoUsers \/ UNCHANGED sessionVars
  BY DEF Next, Still
<1> QED
  BY <1>1, <1>2, <1>3

LEMMA CellsOrStill ==
    ASSUME Next
    PROVE  /\ PageNext \/ UNCHANGED pageVars
           /\ NotebookNext \/ UNCHANGED nbVars
           /\ CanvasRunNext \/ UNCHANGED canvasRunVars
           /\ BlocksNext \/ UNCHANGED blockVars
           /\ CellsNext \/ UNCHANGED dynVars
BY DEF Next, Still

LEMMA RecordsOrStill ==
    ASSUME Next
    PROVE  /\ LoadNext \/ UNCHANGED loadVars
           /\ TraceNext \/ UNCHANGED traceVars
           /\ ResultsNext \/ UNCHANGED resultsVars
BY DEF Next, Still, ResultsNext, compareVars, panelVars, resultsVars

LEMMA ChoicesOrStill ==
    ASSUME Next
    PROVE  /\ PlacesNext \/ UNCHANGED placeVars
           /\ SnippetsNext \/ UNCHANGED snippetVars
           /\ ChoiceNext \/ UNCHANGED aiVars
           /\ FrameNext \/ UNCHANGED frameVars
BY DEF Next, Still, FrameNext

-----------------------------------------------------------------------------
\* The banner is shown only after two failures in a row, and the sign-in form
\* is enabled only by a bundle that was mounted with somewhere to go: whatever
\* the bundle was built with, and however the probe, its retries and the form
\* that comes and goes cross.
THEOREM BannerNeedsTwoFailures == Spec => []BannerIsFounded
<1>1. Init => ConnInv
  BY ConnInvInit DEF Init
<1>2. ConnInv /\ [Next]_vars => ConnInv'
  <2> SUFFICES ASSUME ConnInv, [Next]_vars PROVE ConnInv'
    OBVIOUS
  <2>1. ConnNext \/ UNCHANGED connVars
    BY ConnOrStill DEF vars
  <2> QED
    BY <2>1, ConnInvStep
<1>3. ConnInv => BannerIsFounded
  BY DEF ConnInv
<1> QED
  BY <1>1, <1>2, <1>3, PTL DEF Spec

\* A signed-in user sees one main panel, whatever the user, an answer or the
\* end of the session did to the page last, and a guest has no workspace open.
THEOREM OneScreenPerSession == Spec => []ScreenFitsSession
<1>1. Init => NavInv
  BY NavInvInit DEF Init
<1>2. NavInv /\ [Next]_vars => NavInv'
  <2> SUFFICES ASSUME NavInv, [Next]_vars PROVE NavInv'
    OBVIOUS
  <2>1. NavNext \/ UNCHANGED navVars
    BY NavOrStill DEF vars
  <2> QED
    BY <2>1, NavInvStep
<1>3. NavInv => ScreenFitsSession
  BY OnePanel DEF NavInv, ScreenFitsSession, Where
<1> QED
  BY <1>1, <1>2, <1>3, PTL DEF Spec

\* A draft that is said to be saved is the one the browser stores, for any
\* number of edits and requests, as long as no analysis of an older form and no
\* handler of a form that was left wrote to the storage since the last autosave;
\* and whenever the page of cells stops saying that it is unsaved it has stored
\* what its screen shows, in whatever order changes, answers and timer come.
THEOREM SavedMeansStored == Spec => WhatIsSavedIsStored
<1> DEFINE Briefed == Where({"brief", "files", "titles"}, SavedIsStored)
<1>1. Init => StoreInv /\ BriefInv
  BY StoreInvInit, BriefInvInit DEF Init
<1>2. StoreInv /\ BriefInv /\ [Next]_vars => StoreInv' /\ BriefInv'
  <2> SUFFICES ASSUME StoreInv, BriefInv, [Next]_vars PROVE StoreInv' /\ BriefInv'
    OBVIOUS
  <2>1. (StoreNext \/ UNCHANGED storeVars) /\ (BriefNext \/ UNCHANGED briefVars)
    BY StoreOrStill, BriefOrStill DEF vars
  <2> QED
    BY <2>1, StoreInvStep, BriefInvStep
<1>3. StoreInv /\ BriefInv => Briefed
  BY DEF BriefInv, Where
<1>4. StoreInv /\ [Next]_vars => [SavedStep]_storeVars
  <2> SUFFICES ASSUME StoreInv, [Next]_vars PROVE SavedStep
    OBVIOUS
  <2>1. StoreNext \/ UNCHANGED storeVars
    BY StoreOrStill DEF vars
  <2> QED
    BY <2>1, StoreStepSaves
<1>5. Spec => []Briefed /\ [][SavedStep]_storeVars
  BY <1>1, <1>2, <1>3, <1>4, PTL DEF Spec
<1> QED
  BY <1>5 DEF WhatIsSavedIsStored, SavedPageIsStored, SavedStep

\* For any tabs, users and tokens: as long as no other tab has stored or removed
\* a token since its own sign-in, a tab sends its requests with the token it
\* holds, and shows that token's owner unless the last answer was about an
\* earlier token; in every tab, one that shows nobody and no form waits for an
\* answer. Nothing is claimed of a tab whose token another one replaced.
THEOREM TabsActAsTheirUsers == Spec => []TabIsItsUsers
<1>1. Init => SessionInv
  BY SessionInvInit DEF Init
<1>2. SessionInv /\ [Next]_vars => SessionInv'
  <2> SUFFICES ASSUME SessionInv, [Next]_vars PROVE SessionInv'
    OBVIOUS
  <2>1. SessionNext \/ UNCHANGED sessionVars
    BY SessionOrStill DEF vars
  <2> QED
    BY <2>1, SessionInvStep
<1>3. SessionInv => TabIsItsUsers
  BY SessionSound DEF TabIsItsUsers, Where
<1> QED
  BY <1>1, <1>2, <1>3, PTL DEF Spec

\* A training has inputs of the shown file without the target among them,
\* whatever order previews, uploads and choices come in; and in what is sent to
\* the model every message of the user was answered, once unless the
\* conversation began anew under a request.
THEOREM RequestsAlwaysMakeSense == Spec => []RequestsMakeSense
<1>1. Init => DeskInv /\ AssistantInv
  BY DeskInvInit, AssistantInvInit DEF Init
<1>2. DeskInv /\ AssistantInv /\ [Next]_vars => DeskInv' /\ AssistantInv'
  <2> SUFFICES ASSUME DeskInv, AssistantInv, [Next]_vars PROVE DeskInv' /\ AssistantInv'
    OBVIOUS
  <2>1. (DeskNext \/ UNCHANGED deskVars) /\ (AssistantNext \/ UNCHANGED assistantVars)
    BY DeskOrStill, AssistantOrStill DEF vars
  <2> QED
    BY <2>1, DeskInvStep, AssistantInvStep
<1>3. DeskInv /\ AssistantInv => RequestsMakeSense
  BY DeskSound DEF AssistantInv, RequestsMakeSense, Where
<1> QED
  BY <1>1, <1>2, <1>3, PTL DEF Spec

\* For any members, notices and requests: while the operator's list is not the
\* server's, a request under way brings it, except after a failed reading or
\* when an older answer came after a later one; the form edits a notice that
\* exists unless it was opened on one being deleted or gone; and an open panel
\* has a token.
THEOREM OperatorSeesServer == Spec => []AdminSeesServer
<1> DEFINE Inv == MembersInv /\ NoticesInv /\ DoorInv
<1>1. Init => Inv
  BY MembersInvInit, NoticesInvInit, DoorInvInit DEF Init
<1>2. Inv /\ [Next]_vars => Inv'
  <2> SUFFICES ASSUME Inv, [Next]_vars PROVE Inv'
    OBVIOUS
  <2>1. /\ MembersNext \/ UNCHANGED memberVars
        /\ NoticesNext \/ UNCHANGED noticeVars
        /\ PanelDoorNext \/ UNCHANGED panelDoorVars
    BY AdminOrStill DEF vars
  <2> QED
    BY <2>1, MembersInvStep, NoticesInvStep, DoorInvStep
<1>3. Inv => AdminSeesServer
  BY AdminSound
<1> QED
  BY <1>1, <1>2, <1>3, PTL DEF Spec

\* For any number of requests: the answer to the newest preview or log request
\* is what is shown as long as no older answer comes after it, no result is of
\* a training that was aborted or superseded, the newest job is watched unless
\* a late poll of an older one ended that, and lists, reports, probes and forms
\* are of what they name, with the exceptions named in the properties. That
\* answers come in order is not claimed: the code takes them as they come.
THEOREM LatestAnswersWin == Spec => []LatestAnswerShown
<1> DEFINE Inv == /\ ViewInv /\ WorkInv /\ WatchInv /\ ConsoleInv /\ ListsInv
                  /\ PreviewInv /\ ProbeInv /\ FormInv
<1>1. Init => Inv
  BY ViewInvInit, WorkInvInit, WatchInvInit, ConsoleInvInit, ListsInvInit,
     PreviewInvInit, ProbeInvInit, FormInvInit DEF Init
<1>2. Inv /\ [Next]_vars => Inv'
  <2> SUFFICES ASSUME Inv, [Next]_vars PROVE Inv'
    OBVIOUS
  <2>1. /\ DeskNext \/ UNCHANGED deskVars
        /\ RunNext \/ UNCHANGED runVars
        /\ ConsoleNext \/ UNCHANGED consoleVars
        /\ ListsNext \/ UNCHANGED listVars
    BY DeskOrStill, RunOrStill, ConsoleOrStill, ListsOrStill DEF vars
  <2>2. /\ ReportsNext \/ UNCHANGED reportVars
        /\ ProbeNext \/ UNCHANGED probeVars
        /\ PlatformNext \/ UNCHANGED formVars
    BY OperatorOrStill DEF vars
  <2> QED
    BY <2>1, <2>2, ViewInvStep, WorkInvStep, WatchInvStep, ConsoleInvStep, ListsInvStep,
       PreviewInvStep, ProbeInvStep, FormInvStep
<1>3. Inv => LatestAnswerShown
  BY ViewSound, RunSound, ConsoleSound, PreviewSound, FormSound
  DEF ListsInv, ProbeInv, LatestAnswerShown, Where
<1> QED
  BY <1>1, <1>2, <1>3, PTL DEF Spec

\* For any cells, runs, prompts, tables and traces, moved, deleted and converted
\* while they run: a cell that says "done" or "error" shows a run of its own
\* that is over, one that says it runs has a run on or was restored, and one
\* whose runs never overlapped shows the newest; the other parts show what they
\* asked for and the newest traces are kept, each with the exceptions named in
\* its property.
THEOREM CellsTellTheirRuns == Spec => []CellsShowTheirRuns
<1> DEFINE Inv == /\ PageInv /\ HonestCells /\ NbInv /\ CanvasInv /\ BlocksInv /\ DynInv
                  /\ LoadInv /\ TracesInv /\ PanelInv
<1>1. Init => Inv
  BY PageInvInit, HonestCellsInit, NbInvInit, CanvasInvInit, BlocksInvInit, DynInvInit, LoadInvInit,
     TracesInvInit, PanelInvInit DEF Init
<1>2. Inv /\ [Next]_vars => Inv'
  <2> SUFFICES ASSUME Inv, [Next]_vars PROVE Inv'
    OBVIOUS
  <2>1. /\ PageNext \/ UNCHANGED pageVars
        /\ NotebookNext \/ UNCHANGED nbVars
        /\ CanvasRunNext \/ UNCHANGED canvasRunVars
        /\ BlocksNext \/ UNCHANGED blockVars
        /\ CellsNext \/ UNCHANGED dynVars
    BY CellsOrStill DEF vars
  <2>2. /\ LoadNext \/ UNCHANGED loadVars
        /\ TraceNext \/ UNCHANGED traceVars
        /\ ResultsNext \/ UNCHANGED resultsVars
    BY RecordsOrStill DEF vars
  <2> QED
    BY <2>1, <2>2, PageInvStep, HonestCellsStep, NbInvStep, CanvasInvStep, BlocksInvStep, DynInvStep,
       LoadInvStep, TracesInvStep, PanelInvStep
<1>3. Inv => CellsShowTheirRuns
  BY PageSound, NbSound, CanvasSound, AgentsSound, PanelSound
  DEF LoadInv, TracesInv, CellsShowTheirRuns, Where
<1> QED
  BY <1>1, <1>2, <1>3, PTL DEF Spec

\* For any activities, tabs, providers, limits and visits: the open stage and
\* activity fit each other, and so do those recorded later; an experiment page
\* that has heard of every change shows the stored provider, unless its own
\* choice crossed another tab's; columns keep their limits; and whoever loads a
\* table and follows the guide finds every name a snippet reads, except the
\* FILE_PATH of the first, which nothing makes.
THEOREM PlacesAlwaysAgree == Spec => []PlacesAndChoicesAgree
<1> DEFINE Inv == PlacesInv /\ SnippetsInv /\ ChoiceInv /\ ColumnsInv
<1>1. Init => Inv
  BY PlacesInvInit, SnippetsInvInit, ChoiceInvInit, ColumnsInvInit DEF Init
<1>2. Inv /\ [Next]_vars => Inv'
  <2> SUFFICES ASSUME Inv, [Next]_vars PROVE Inv'
    OBVIOUS
  <2>1. /\ PlacesNext \/ UNCHANGED placeVars
        /\ SnippetsNext \/ UNCHANGED snippetVars
        /\ ChoiceNext \/ UNCHANGED aiVars
        /\ FrameNext \/ UNCHANGED frameVars
    BY ChoicesOrStill DEF vars
  <2> QED
    BY <2>1, PlacesInvStep, SnippetsInvStep, ChoiceInvStep, ColumnsInvStep
<1>3. Inv => PlacesAndChoicesAgree
  BY PlacesSound, SnippetsSound DEF ChoiceInv, ColumnsInv, PlacesAndChoicesAgree, Where
<1> QED
  BY <1>1, <1>2, <1>3, PTL DEF Spec

-----------------------------------------------------------------------------
LEMMA SelectionAlways == Spec => [](SelInv /\ ProfileType)
<1>1. Init => SelInv /\ ProfileType
  BY SelInvInit, ProfileTypeInit DEF Init
<1>2. SelInv /\ ProfileType /\ [Next]_vars => SelInv' /\ ProfileType'
  <2> SUFFICES ASSUME SelInv, ProfileType, [Next]_vars PROVE SelInv' /\ ProfileType'
    OBVIOUS
  <2>1. SelNext \/ UNCHANGED selVars
    BY SelOrStill DEF vars
  <2> QED
    BY <2>1, SelInvStep, ProfileTypeStep
<1> QED
  BY <1>1, <1>2, PTL DEF Spec

\* A step in which an empty and locked selection stays locked.
LockedStep == locked /\ cur = None /\ FromTheLock /\ locked' => cur' = None /\ FromTheLock'

\* The lock works for what is asked for under it: once no profile request made
\* before the lock is in flight, an empty selection stays empty until the user
\* or a registration chooses a project, in whatever order the requests are
\* answered. An answer asked for before the lock is taken over.
THEOREM LockedSelectionStaysEmpty == Spec => LockHolds
<1>1. SelInv /\ ProfileType /\ [Next]_vars => [LockedStep]_selVars
  <2> SUFFICES ASSUME SelInv, SelNext \/ UNCHANGED selVars,
                      locked, cur = None, FromTheLock, locked'
               PROVE  cur' = None /\ FromTheLock'
    BY SelOrStill DEF vars, LockedStep
  <2> QED
    BY LockStep
<1>2. Spec => [][LockedStep]_selVars
  BY <1>1, SelectionAlways, PTL DEF Spec
<1> QED
  BY <1>2 DEF LockHolds, LockedStep

\* When nothing is in flight, browser and server agree on the project, unless
\* a request was lost or overtaken.
THEOREM SelectionSettles == Spec => []SettledAgree
<1>1. SelInv /\ ProfileType => SettledAgree
  BY DEF SelInv, PostedOrStored, Awaited, SettledAgree
<1> QED
  BY <1>1, SelectionAlways, PTL

-----------------------------------------------------------------------------
(* The types of every part.                                                *)

LEMMA SessionTypeSound == ASSUME SessionInv PROVE SessionTypeOK
<1>1. stored \in Tokens /\ expired \subseteq Tokens
  BY DEF SessionInv, Tokens
<1>2. \A i \in DOMAIN ownerOf : ownerOf[i] \in Users
  BY DEF SessionInv
<1>3. ASSUME NEW t \in Tabs
      PROVE  /\ tab[t].held \in Tokens /\ tab[t].user \in Users \cup {NoUser}
             /\ tab[t].form \in {"idle", "asking"}
             /\ \A k \in {"effect", "online"} :
                   tab[t][k].stage \in {"off", "due", "out"} /\ tab[t][k].tries < MaxTries
  <2>1. tab[t] \in TabStates /\ tab[t].held <= Len(ownerOf) /\ Len(ownerOf) \in Nat
    BY DEF SessionInv, TabHolds, TokensIssued
  <2>2. tab[t].held \in Tokens
    BY <2>1 DEF TabStates, Tokens
  <2>3. tab[t].effect \in MeRequests /\ tab[t].online \in MeRequests
    BY <2>1 DEF TabStates
  <2>4. /\ tab[t].effect.stage \in {"off", "due", "out"} /\ tab[t].effect.tries < MaxTries
        /\ tab[t].online.stage \in {"off", "due", "out"} /\ tab[t].online.tries < MaxTries
    BY <2>3 DEF MeRequests
  <2>5. tab[t]["effect"] = tab[t].effect /\ tab[t]["online"] = tab[t].online
    OBVIOUS
  <2> QED
    BY <2>1, <2>2, <2>4, <2>5 DEF TabStates
<1> QED
  BY <1>1, <1>2, <1>3 DEF SessionTypeOK

LEMMA SavedTypeSound == ASSUME BriefInv, StoreInv PROVE BriefTypeOK /\ StoreTypeOK
<1>1. BriefTypeOK
  BY DEF BriefInv, BriefShape, BriefTypeOK
<1>2. StoreTypeOK
  BY DEF StoreInv, StoreShape, StoreTypeOK
<1> QED
  BY <1>1, <1>2

LEMMA OthersOrStill ==
    ASSUME Next
    PROVE  /\ GuideNext \/ UNCHANGED guideVars
           /\ DialogsNext \/ UNCHANGED dialogVars
           /\ HealthNext \/ UNCHANGED healthVars
           /\ DrawerNext \/ UNCHANGED drawerVars
BY DEF Next, Still

LEMMA AccountsOrStill ==
    ASSUME Next
    PROVE  AccountsNext \/ UNCHANGED accountVars
BY DEF Next, Still, OneMember, TwoMembers

\* What the screen shows of the session, the connection and the project.
ScreenTypes ==
    /\ NavInv /\ SessionInv /\ ConnType /\ GuideTypeOK /\ BriefInv /\ StoreInv
    /\ LoadInv /\ TraceTypeOK /\ ChatType /\ FrameType

LEMMA ScreenTypesAlways == Spec => []ScreenTypes
<1>1. Init => ScreenTypes
  BY NavInvInit, SessionInvInit, ConnTypeInit, GuideTypeInit, BriefInvInit, StoreInvInit,
     LoadInvInit, TraceTypeInit, ChatTypeInit, FrameTypeInit DEF Init, ScreenTypes
<1>2. ScreenTypes /\ [Next]_vars => ScreenTypes'
  <2> SUFFICES ASSUME ScreenTypes, [Next]_vars PROVE ScreenTypes'
    OBVIOUS
  <2>1. /\ NavNext \/ UNCHANGED navVars
        /\ SessionNext \/ UNCHANGED sessionVars
        /\ ConnNext \/ UNCHANGED connVars
        /\ GuideNext \/ UNCHANGED guideVars
        /\ BriefNext \/ UNCHANGED briefVars
        /\ StoreNext \/ UNCHANGED storeVars
    BY NavOrStill, SessionOrStill, ConnOrStill, OthersOrStill, BriefOrStill, StoreOrStill DEF vars
  <2>2. /\ LoadNext \/ UNCHANGED loadVars
        /\ TraceNext \/ UNCHANGED traceVars
        /\ AssistantNext \/ UNCHANGED assistantVars
        /\ FrameNext \/ UNCHANGED frameVars
    BY RecordsOrStill, AssistantOrStill, ChoicesOrStill DEF vars
  <2> QED
    BY <2>1, <2>2, NavInvStep, SessionInvStep, ConnTypeStep, GuideTypeStep, BriefInvStep, StoreInvStep,
       LoadInvStep, TraceTypeStep, ChatTypeStep, FrameTypeStep DEF ScreenTypes
<1> QED
  BY <1>1, <1>2, PTL DEF Spec

\* What the operator, the guide, the choice of a provider and the server's
\* accounts need.
ServiceTypes ==
    /\ MembersInv /\ NoticesInv /\ DoorInv /\ DialogsType
    /\ PlacesInv /\ NotesType /\ FollowedType
    /\ ChoiceInv /\ AiType /\ KeysType /\ AccountsInv

LEMMA ServiceTypesAlways == Spec => []ServiceTypes
<1>1. Init => ServiceTypes
  BY MembersInvInit, NoticesInvInit, DoorInvInit, DialogsTypeInit, PlacesInvInit, NotesTypeInit,
     FollowedTypeInit, ChoiceInvInit, AiTypeInit, KeysTypeInit, InvInit DEF Init, ServiceTypes
<1>2. ServiceTypes /\ [Next]_vars => ServiceTypes'
  <2> SUFFICES ASSUME ServiceTypes, [Next]_vars PROVE ServiceTypes'
    OBVIOUS
  <2>1. /\ MembersNext \/ UNCHANGED memberVars
        /\ NoticesNext \/ UNCHANGED noticeVars
        /\ PanelDoorNext \/ UNCHANGED panelDoorVars
        /\ DialogsNext \/ UNCHANGED dialogVars
        /\ PlacesNext \/ UNCHANGED placeVars
        /\ SnippetsNext \/ UNCHANGED snippetVars
    BY AdminOrStill, OthersOrStill, ChoicesOrStill DEF vars
  <2>2. /\ ChoiceNext \/ UNCHANGED aiVars
        /\ HealthNext \/ UNCHANGED healthVars
        /\ AccountsNext \/ UNCHANGED accountVars
    BY ChoicesOrStill, OthersOrStill, AccountsOrStill DEF vars
  <2> QED
    BY <2>1, <2>2, MembersInvStep, NoticesInvStep, DoorInvStep, DialogsTypeStep, PlacesInvStep,
       NotesTypeStep, FollowedTypeStep, ChoiceInvStep, AiTypeStep, KeysTypeStep, InvNext
    DEF ServiceTypes
<1> QED
  BY <1>1, <1>2, PTL DEF Spec

\* The project, its files and trainings, the jobs and the lists.
WorkTypes ==
    /\ SelInv /\ ProfileType /\ SelType /\ ViewInv /\ DeskType
    /\ WorkInv /\ WatchInv /\ RunType /\ ConsoleType /\ ListsInv /\ ListsType
    /\ ReportsFlags /\ ReportsType /\ ProbeInv /\ ProbeType /\ FormInv /\ FormType

LEMMA WorkTypesAlways == Spec => []WorkTypes
<1>1. Init => WorkTypes
  BY SelInvInit, ProfileTypeInit, SelTypeInit, ViewInvInit, DeskTypeInit, WorkInvInit, WatchInvInit,
     RunTypeInit, ConsoleTypeInit, ListsInvInit, ListsTypeInit, ReportsTypeInit, ProbeInvInit,
     ProbeTypeInit, FormInvInit, FormTypeInit DEF Init, WorkTypes
<1>2. WorkTypes /\ [Next]_vars => WorkTypes'
  <2> SUFFICES ASSUME WorkTypes, [Next]_vars PROVE WorkTypes'
    OBVIOUS
  <2>1. /\ SelNext \/ UNCHANGED selVars
        /\ DeskNext \/ UNCHANGED deskVars
        /\ RunNext \/ UNCHANGED runVars
        /\ ConsoleNext \/ UNCHANGED consoleVars
        /\ ListsNext \/ UNCHANGED listVars
    BY SelOrStill, DeskOrStill, RunOrStill, ConsoleOrStill, ListsOrStill DEF vars
  <2>2. /\ ReportsNext \/ UNCHANGED reportVars
        /\ ProbeNext \/ UNCHANGED probeVars
        /\ PlatformNext \/ UNCHANGED formVars
    BY OperatorOrStill DEF vars
  <2>3. (SelInv /\ ProfileType /\ SelType)' /\ (ViewInv /\ DeskType)'
    BY <2>1, SelInvStep, ProfileTypeStep, SelTypeStep, ViewInvStep, DeskTypeStep DEF WorkTypes, ViewInv
  <2>4. (WorkInv /\ WatchInv /\ RunType /\ ConsoleType)'
    BY <2>1, WorkInvStep, WatchInvStep, RunTypeStep, ConsoleTypeStep DEF WorkTypes
  <2>5. (ListsInv /\ ListsType)'
    BY <2>1, ListsInvStep, ListsFitStep, ListFlagsStep DEF WorkTypes, ListsType
  <2>6. (ReportsFlags /\ ReportsType /\ ProbeInv /\ ProbeType /\ FormInv /\ FormType)'
    BY <2>2, ReportsFlagsStep, ReportsTypeStep, ProbeInvStep, ProbeTypeStep, FormInvStep, FormTypeStep
    DEF WorkTypes
  <2> QED
    BY <2>3, <2>4, <2>5, <2>6 DEF WorkTypes
<1> QED
  BY <1>1, <1>2, PTL DEF Spec

\* The experiment pages: cells, notebooks, blocks and panels.
CellTypesFit ==
    /\ PageInv /\ PageType /\ NbInv /\ NbType /\ CanvasType /\ BlocksType
    /\ DynInv /\ DynType /\ DrawerType /\ PanelInv /\ PanelType

LEMMA CellTypesAlways == Spec => []CellTypesFit
<1>1. Init => CellTypesFit
  BY PageInvInit, PageTypeInit, NbInvInit, NbTypeInit, CanvasTypeInit, AgentsTypeInit, DynInvInit,
     PanelInvInit, PanelTypeInit DEF Init, CellTypesFit
<1>2. CellTypesFit /\ [Next]_vars => CellTypesFit'
  <2> SUFFICES ASSUME CellTypesFit, [Next]_vars PROVE CellTypesFit'
    OBVIOUS
  <2>1. /\ PageNext \/ UNCHANGED pageVars
        /\ NotebookNext \/ UNCHANGED nbVars
        /\ CanvasRunNext \/ UNCHANGED canvasRunVars
        /\ BlocksNext \/ UNCHANGED blockVars
        /\ CellsNext \/ UNCHANGED dynVars
    BY CellsOrStill DEF vars
  <2>2. (ResultsNext \/ UNCHANGED resultsVars) /\ (DrawerNext \/ UNCHANGED drawerVars)
    BY RecordsOrStill, OthersOrStill DEF vars
  <2> QED
    BY <2>1, <2>2, PageInvStep, PageTypeStep, NbInvStep, NbTypeStep, CanvasTypeStep, BlocksTypeStep,
       DynInvStep, DynTypeStep, DrawerTypeStep, PanelInvStep, PanelTypeStep DEF CellTypesFit
<1> QED
  BY <1>1, <1>2, PTL DEF Spec

\* The types of all parts of the browser application: whatever the user, the
\* timers and the answers do, for any users, tabs, files, runs, cells, lists
\* and members.
THEOREM FrontendTypeCorrect == Spec => []FrontendTypeOK
<1>1. ScreenTypes =>
        /\ NavTypeOK /\ SessionTypeOK /\ ConnTypeOK /\ GuideTypeOK /\ BriefTypeOK /\ StoreTypeOK
        /\ LoadTypeOK /\ TraceTypeOK /\ AssistantTypeOK /\ FrameTypeOK
  BY SessionTypeSound, SavedTypeSound, ChatTypeSound, FrameTypeSound
  DEF ScreenTypes, NavInv, ConnType, LoadInv
<1>2. ServiceTypes => AdminTypeOK /\ GuideDeskTypeOK /\ AiTypeOK /\ AccountsTypeOK
  BY AdminTypeSound, GuideDeskTypeSound, AiTypeSound DEF ServiceTypes, AccountsInv
<1>3. WorkTypes => SelTypeOK /\ DeskTypeOK /\ RunTypeOK /\ ConsoleTypeOK /\ ListsTypeOK /\ PagesTypeOK
  BY SelTypeSound, RunTypeSound, ConsoleTypeSound, ListsTypeSound, PagesTypeSound DEF WorkTypes, DeskType
<1>4. CellTypesFit => PageTypeOK /\ NotebookV2TypeOK /\ CanvasRunTypeOK /\ CanvasAgentsTypeOK /\ PanelTypeOK
  BY PageTypeSound, NbTypeSound, CanvasTypeSound, AgentsTypeSound, PanelTypeSound DEF CellTypesFit
<1>5. ScreenTypes /\ ServiceTypes /\ WorkTypes /\ CellTypesFit => FrontendTypeOK
  BY <1>1, <1>2, <1>3, <1>4 DEF FrontendTypeOK, Where
<1> QED
  BY <1>5, ScreenTypesAlways, ServiceTypesAlways, WorkTypesAlways, CellTypesAlways, PTL

=============================================================================
