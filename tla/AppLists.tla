------------------------------ MODULE AppLists ------------------------------
(***************************************************************************)
(* The lists App.jsx keeps for its pages. Each is loaded at the sign-in,   *)
(* some by clocks too, some after what a page did itself; loads may be     *)
(* under way together and be answered in any order, and each answer        *)
(* replaces the list. The lists never meet, so one of them is followed; a  *)
(* list is known by the version of the server's data it is, 0 when empty.  *)
(***************************************************************************)
EXTENDS Naturals, Sequences, SequencesExt

CONSTANTS
    Lists,       \* the lists of which one is followed
    MaxVersions, \* bound: changes of the server's data
    MaxListLoads, \* bound: loads under way
    MaxLost      \* bound: loads that fail

\* Who asks for a list again, and which keeps its entries when a load fails.
DashboardLists == {"datasets", "models", "history", "monitoring", "jobs"}
BackgroundLists == {"monitoring", "jobs", "artifacts", "runtimes"}
ToolLists == {"datasets", "models", "history", "jobs"}
KeptLists == {"datasets", "models"}
RefreshPages == {"history", "jobs", "artifacts", "knowledge"}   \* the pages with a button that loads the list

ASSUME ListsAssumption == MaxVersions \in Nat \ {0} /\ {MaxListLoads, MaxLost} \subseteq Nat

VARIABLES
    list,       \* the list followed
    listVersion, \* the server's data
    shownList,  \* what the pages show
    listLoads,  \* loads under way in the order asked: what each has read, 0 for nothing yet
    listUser,   \* isAuthenticated
    listPage,   \* currentPage
    tabHidden,  \* document.visibilityState
    toolAsked,  \* a message is with the chat
    toolNamed,  \* the server's data when a tool made what the last card names, or 0
    entrySent,  \* entries of the knowledge form on their way
    askedAt,    \* history: the server's data when the list was last asked for
    lost        \* history: failed loads

listVars == <<list, listVersion, shownList, listLoads, listUser, listPage, tabHidden, toolAsked, toolNamed, entrySent, askedAt, lost>>

ListPages == {"dashboard", "home", "aichat", "history", "jobs", "artifacts", "knowledge"}

ListsInit ==
    /\ list \in Lists
    /\ listVersion = 1 /\ shownList = 0 /\ listLoads = <<>>
    /\ listUser = FALSE /\ listPage = "dashboard" /\ tabHidden = FALSE
    /\ toolAsked = FALSE /\ toolNamed = 0 /\ entrySent = 0 /\ askedAt = 0 /\ lost = 0

\* n requests for the list, when the server's data is v.
Load(n, v) ==
    /\ Len(listLoads) + n <= MaxListLoads
    /\ listLoads' = listLoads \o [i \in 1 .. n |-> 0]
    /\ askedAt' = IF n = 0 THEN askedAt ELSE v

\* What a page asks for when it is opened or the session begins on it.
AskedByPage(p) ==
    IF (p = "dashboard" /\ list \in DashboardLists) \/ (p = "home" /\ list = "home") THEN 1 ELSE 0

\* The effects on isAuthenticated. Signing out leaves the lists as they are.
ListSignIn ==
    /\ ~listUser /\ listUser' = TRUE
    /\ Load(1 + AskedByPage(listPage), listVersion)
    /\ UNCHANGED <<list, listVersion, shownList, listPage, tabHidden, toolAsked, toolNamed, entrySent, lost>>

ListSignOut ==
    /\ listUser /\ listUser' = FALSE
    /\ toolAsked' = FALSE /\ toolNamed' = 0 /\ entrySent' = 0
    /\ UNCHANGED <<list, listVersion, shownList, listLoads, listPage, tabHidden, askedAt, lost>>

OpenListPage(p) ==
    /\ listUser /\ p # listPage
    /\ listPage' = p
    /\ toolAsked' = FALSE /\ toolNamed' = 0 /\ entrySent' = 0
    /\ Load(AskedByPage(p), listVersion)
    /\ UNCHANGED <<list, listVersion, shownList, listUser, tabHidden, lost>>

\* setInterval: 2 s, 10 s and 15 s; the last only while the tab is visible.
DashboardTick == listPage = "dashboard" /\ list \in DashboardLists
BackgroundTick == list \in BackgroundLists
HomeTick == listPage = "home" /\ list = "home" /\ ~tabHidden

ListTick_NotOnDashboard ==
    /\ listUser
    /\ BackgroundTick \/ HomeTick
    /\ Load(1, listVersion)
    /\ UNCHANGED <<list, listVersion, shownList, listUser, listPage, tabHidden, toolAsked, toolNamed, entrySent, lost>>

ListTick ==
    /\ listUser
    /\ DashboardTick \/ BackgroundTick \/ HomeTick
    /\ Load(1, listVersion)
    /\ UNCHANGED <<list, listVersion, shownList, listUser, listPage, tabHidden, toolAsked, toolNamed, entrySent, lost>>

\* visibilitychange: home is asked for at once.
TurnTab ==
    /\ tabHidden' = ~tabHidden
    /\ Load(IF listUser /\ listPage = "home" /\ list = "home" /\ tabHidden THEN 1 ELSE 0, listVersion)
    /\ UNCHANGED <<list, listVersion, shownList, listUser, listPage, toolAsked, toolNamed, entrySent, lost>>

PressRefresh ==
    /\ listUser
    /\ list \in RefreshPages /\ listPage = list
    /\ Load(1, listVersion)
    /\ UNCHANGED <<list, listVersion, shownList, listUser, listPage, tabHidden, toolAsked, toolNamed, entrySent, lost>>

-----------------------------------------------------------------------------
\* Others change the server's data; the server reads it for a load; the answer
\* of a load replaces the list, a failure empties it or is overlooked.
DataChanges ==
    /\ listVersion < MaxVersions /\ listVersion' = listVersion + 1
    /\ UNCHANGED <<list, shownList, listLoads, listUser, listPage, tabHidden, toolAsked, toolNamed, entrySent, askedAt, lost>>

LoadRead(i) ==
    /\ listLoads[i] = 0
    /\ listLoads' = [listLoads EXCEPT ![i] = listVersion]
    /\ UNCHANGED <<list, listVersion, shownList, listUser, listPage, tabHidden, toolAsked, toolNamed, entrySent, askedAt, lost>>

LoadAnswers(i) ==
    /\ listLoads[i] # 0
    /\ listLoads' = RemoveAt(listLoads, i)
    /\ shownList' = listLoads[i]
    /\ UNCHANGED <<list, listVersion, listUser, listPage, tabHidden, toolAsked, toolNamed, entrySent, askedAt, lost>>

LoadFails(i) ==
    /\ lost < MaxLost /\ lost' = lost + 1
    /\ listLoads' = RemoveAt(listLoads, i)
    /\ shownList' = IF list \in KeptLists THEN shownList ELSE 0
    /\ UNCHANGED <<list, listVersion, listUser, listPage, tabHidden, toolAsked, toolNamed, entrySent, askedAt>>

-----------------------------------------------------------------------------
\* The chat's tools change the server's data themselves. The page asks for the
\* lists again by the names and the results of the tools, and its cards tell
\* what they made.
MlTools == {"ml_submit_sweep", "ml_set_registry_stage", "ml_tag_best", "ml_submit_leaderboard", "ml_log_llm_evaluation"}
RunTools == {"train_model", "predict_batch"}
ReadTools == {"list_datasets"}
Results == {"ok", "failed", "unsaid"}

Changes(name, result, dry) == result # "failed" /\ ((name \in RunTools /\ ~dry) \/ name \in MlTools)
ShouldRefreshAfterTools(name, result, dry) ==
    result # "failed" /\ (IF name \in RunTools THEN ~dry ELSE name \in MlTools)
CardNames(name, result, dry) == name \in RunTools /\ result = "ok" /\ ~dry

AskChat ==
    /\ listUser /\ listPage = "aichat" /\ ~toolAsked
    /\ toolAsked' = TRUE
    /\ UNCHANGED <<list, listVersion, shownList, listLoads, listUser, listPage, tabHidden, toolNamed, entrySent, askedAt, lost>>

ChatUsedTool(name, result, dry) ==
    LET changes == Changes(name, result, dry) /\ list \in ToolLists
    IN  /\ toolAsked
        /\ changes => listVersion < MaxVersions
        /\ listVersion' = IF changes THEN listVersion + 1 ELSE listVersion
        /\ toolAsked' = FALSE
        /\ toolNamed' = IF CardNames(name, result, dry) THEN listVersion' ELSE 0
        /\ Load(IF ShouldRefreshAfterTools(name, result, dry) /\ list \in ToolLists THEN 1 ELSE 0, listVersion')
        /\ UNCHANGED <<list, shownList, listUser, listPage, tabHidden, entrySent, lost>>

\* The form of the knowledge page may be sent again while it is sent.
SendEntry ==
    /\ listUser /\ listPage = "knowledge" /\ list = "knowledge" /\ entrySent < 2
    /\ entrySent' = entrySent + 1
    /\ UNCHANGED <<list, listVersion, shownList, listLoads, listUser, listPage, tabHidden, toolAsked, toolNamed, askedAt, lost>>

EntryAnswered(ok) ==
    /\ entrySent > 0 /\ entrySent' = entrySent - 1
    /\ ok => listVersion < MaxVersions
    /\ listVersion' = IF ok THEN listVersion + 1 ELSE listVersion
    /\ Load(IF ok THEN 1 ELSE 0, listVersion')
    /\ UNCHANGED <<list, shownList, listUser, listPage, tabHidden, toolAsked, toolNamed, lost>>

-----------------------------------------------------------------------------
ListsNext ==
    \/ ListSignIn \/ ListSignOut \/ ListTick \/ TurnTab \/ PressRefresh \/ DataChanges
    \/ AskChat \/ SendEntry
    \/ \E p \in ListPages : OpenListPage(p)
    \/ \E i \in DOMAIN listLoads : LoadRead(i) \/ LoadAnswers(i) \/ LoadFails(i)
    \/ \E name \in RunTools \cup {"ml_tag_best"} \cup ReadTools, result \in Results, dry \in BOOLEAN :
          ChatUsedTool(name, result, dry)
    \/ \E ok \in BOOLEAN : EntryAnswered(ok)

\* The clocks go on ticking, and every load ends.
ListsFairness ==
    /\ SF_listVars(ListTick)
    /\ WF_listVars(\E i \in DOMAIN listLoads : LoadRead(i))
    /\ WF_listVars(listLoads # <<>> /\ (LoadAnswers(1) \/ LoadFails(1)))

ListsTypeOK ==
    /\ list \in Lists /\ listVersion \in 1 .. MaxVersions /\ shownList \in 0 .. listVersion
    /\ listLoads \in BoundedSeq(0 .. listVersion, MaxListLoads) /\ listPage \in ListPages
    /\ {listUser, tabHidden, toolAsked} \subseteq BOOLEAN
    /\ entrySent \in 0 .. 2 /\ toolNamed \in 0 .. listVersion /\ askedAt \in 0 .. listVersion /\ lost \in 0 .. MaxLost

\* What a card of the chat names is asked for: the lists are loaded after it.
ToolNewsIsAsked == list \in ToolLists => askedAt >= toolNamed

\* While the dashboard stays open, each of its lists is the server's again and
\* again, whatever failed, was overtaken or changed before.
ListsCatchUp == []<>(shownList = listVersion \/ ~listUser \/ ~DashboardTick)
=============================================================================
