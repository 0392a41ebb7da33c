----------------------------- MODULE AdminDesk -----------------------------
(***************************************************************************)
(* The operator's page: the members and the notices of the home page, each *)
(* change followed by a reading of the list; the panel that a password of  *)
(* its own opens; the dialog that changes a password and the form of a     *)
(* registration. Nothing waits for an earlier request, answers may cross.  *)
(***************************************************************************)
EXTENDS Integers, FiniteSets

CONSTANTS
    Members, NoticeIds, NoNotice,
    MaxAdminAsks    \* bound: requests of each part

ASSUME AdminAssumption == NoNotice \notin NoticeIds /\ MaxAdminAsks \in Nat

VARIABLES
    member,       \* the server's users: approved and active
    commits,      \* history: changes of the users
    shownMembers, \* the list of the page, and the commits it was read after
    memberAsks,   \* requests under way: their step, and what they have read
    memberAsked,  \* history: requests
    behind        \* history: the list may be old: an answer was lost or overtaken a later one

memberVars == <<member, commits, shownMembers, memberAsks, memberAsked, behind>>

Candidate == [approved |-> FALSE, active |-> TRUE]
MembersInit ==
    /\ member = [u \in Members |-> Candidate] /\ commits = 0
    /\ shownMembers = [list |-> member, at |-> 0]
    /\ memberAsks = {} /\ memberAsked = 0 /\ behind = FALSE

\* The buttons of a row: what it offers depends on the list, not the server.
PanelOffered(u) ==
    LET row == shownMembers.list[u]
    IN  (IF row.approved THEN {} ELSE {"approve"}) \cup {IF row.active THEN "suspend" ELSE "activate"}

AskMember(u, kind) ==
    /\ kind \in PanelOffered(u) /\ memberAsked < MaxAdminAsks
    /\ memberAsked' = memberAsked + 1
    /\ memberAsks' = memberAsks \cup
          {[n |-> memberAsked + 1, step |-> "asked", user |-> u, kind |-> kind, seen |-> shownMembers]}
    /\ UNCHANGED <<member, commits, shownMembers, behind>>

\* approve_user, suspend_user and activate_user: each sets one flag, whatever it was.
AfterAsk(row, kind) ==
    CASE kind = "approve" -> [row EXCEPT !.approved = TRUE]
      [] kind = "suspend" -> [row EXCEPT !.active = FALSE]
      [] OTHER -> [row EXCEPT !.active = TRUE]
MemberChanges(q) ==
    /\ q.step = "asked"
    /\ member' = [member EXCEPT ![q.user] = AfterAsk(@, q.kind)]
    /\ commits' = commits + 1
    /\ memberAsks' = (memberAsks \ {q}) \cup {[q EXCEPT !.step = "changed"]}
    /\ UNCHANGED <<shownMembers, memberAsked, behind>>

AsksForList_Omitted(q) ==
    /\ q.step = "changed"
    /\ memberAsks' = memberAsks \ {q}
    /\ UNCHANGED <<member, commits, shownMembers, memberAsked, behind>>

\* The answer of a change asks for the list.
AsksForList(q) ==
    /\ q.step = "changed"
    /\ memberAsks' = (memberAsks \ {q}) \cup {[q EXCEPT !.step = "listing"]}
    /\ UNCHANGED <<member, commits, shownMembers, memberAsked, behind>>

ListIsRead(q) ==
    /\ q.step = "listing"
    /\ memberAsks' = (memberAsks \ {q}) \cup
          {[q EXCEPT !.step = "read", !.seen = [list |-> member, at |-> commits]]}
    /\ UNCHANGED <<member, commits, shownMembers, memberAsked, behind>>

UsersArrive(q) ==
    /\ q.step = "read"
    /\ memberAsks' = memberAsks \ {q}
    /\ shownMembers' = q.seen
    /\ behind' = (q.seen.at < shownMembers.at \/ (behind /\ q.seen.at # commits))
    /\ UNCHANGED <<member, commits, memberAsked>>

\* Whatever fails is shown as an error; the list is not read then.
MemberAskFails(q) ==
    /\ memberAsks' = memberAsks \ {q}
    /\ behind' = (behind \/ q.step # "asked")
    /\ UNCHANGED <<member, commits, shownMembers, memberAsked>>

MembersNext ==
    \/ \E u \in Members, kind \in {"approve", "suspend", "activate"} : AskMember(u, kind)
    \/ \E q \in memberAsks :
          MemberChanges(q) \/ AsksForList(q) \/ ListIsRead(q) \/ UsersArrive(q) \/ MemberAskFails(q)

-----------------------------------------------------------------------------
VARIABLES
    notices,      \* the server's announcements
    shownNotices, \* those of the page's list
    editingAnnId, \* the announcement the form edits, or none: a new one
    annTitle,     \* the form has a title
    annSaving,
    noticeAsks,   \* saves and deletions under way, with the form's announcement when they began
    noticeAsked,  \* history: requests
    lateEdit      \* history: the form was opened on an announcement under deletion or gone

noticeVars == <<notices, shownNotices, editingAnnId, annTitle, annSaving, noticeAsks, noticeAsked, lateEdit>>

NoticesInit ==
    /\ notices = {} /\ shownNotices = {} /\ editingAnnId = NoNotice /\ annTitle = FALSE /\ annSaving = FALSE
    /\ noticeAsks = {} /\ noticeAsked = 0 /\ lateEdit = FALSE

TypeTitle ==
    /\ annTitle' = ~annTitle
    /\ UNCHANGED <<notices, shownNotices, editingAnnId, annSaving, noticeAsks, noticeAsked, lateEdit>>

StartEditAnn(id) ==
    /\ id \in shownNotices
    /\ editingAnnId' = id /\ annTitle' = TRUE
    /\ lateEdit' = (id \notin notices \/ \E q \in noticeAsks : q.kind = "delete" /\ q.id = id)
    /\ UNCHANGED <<notices, shownNotices, annSaving, noticeAsks, noticeAsked>>

\* resetAnnForm, and the button that cancels an edit.
FormReset == editingAnnId' = NoNotice /\ annTitle' = FALSE /\ lateEdit' = FALSE
CancelEdit ==
    /\ editingAnnId # NoNotice /\ FormReset
    /\ UNCHANGED <<notices, shownNotices, annSaving, noticeAsks, noticeAsked>>

SaveAnnouncement ==
    /\ ~annSaving /\ annTitle /\ noticeAsked < MaxAdminAsks
    /\ annSaving' = TRUE /\ noticeAsked' = noticeAsked + 1
    /\ noticeAsks' = noticeAsks \cup
          {[n |-> noticeAsked + 1, kind |-> "save", saves |-> TRUE, id |-> editingAnnId,
            editing |-> editingAnnId]}
    /\ UNCHANGED <<notices, shownNotices, editingAnnId, annTitle, lateEdit>>

DeleteAnn(id) ==
    /\ id \in shownNotices /\ noticeAsked < MaxAdminAsks
    /\ noticeAsked' = noticeAsked + 1
    /\ noticeAsks' = noticeAsks \cup
          {[n |-> noticeAsked + 1, kind |-> "delete", saves |-> FALSE, id |-> id, editing |-> editingAnnId]}
    /\ UNCHANGED <<notices, shownNotices, editingAnnId, annTitle, annSaving, lateEdit>>

\* The button that reads the list again.
RefreshNotices ==
    /\ noticeAsked < MaxAdminAsks /\ noticeAsked' = noticeAsked + 1
    /\ noticeAsks' = noticeAsks \cup
          {[n |-> noticeAsked + 1, kind |-> "list", saves |-> FALSE, id |-> NoNotice, editing |-> NoNotice]}
    /\ UNCHANGED <<notices, shownNotices, editingAnnId, annTitle, annSaving, lateEdit>>

\* A save clears the form whatever it holds by now; a deletion clears it when
\* it held that announcement as the deletion began.
ClearsForm(q) == q.kind = "save" \/ q.editing = q.id
NoticeDone(q) ==
    /\ q.kind # "list"
    /\ noticeAsks' = (noticeAsks \ {q}) \cup {[q EXCEPT !.kind = "list"]}
    /\ CASE q.kind = "delete" -> q.id \in notices /\ notices' = notices \ {q.id}
         [] q.kind = "save" /\ q.id # NoNotice -> q.id \in notices /\ UNCHANGED notices
         [] OTHER -> \E id \in NoticeIds \ notices : notices' = notices \cup {id}
    /\ IF ClearsForm(q) THEN FormReset ELSE UNCHANGED <<editingAnnId, annTitle, lateEdit>>
    /\ UNCHANGED <<shownNotices, annSaving, noticeAsked>>

\* loadAnnouncements after a change; a save is over only then.
NoticesListed(q) ==
    /\ q.kind = "list"
    /\ noticeAsks' = noticeAsks \ {q}
    /\ shownNotices' = notices
    /\ annSaving' = (annSaving /\ ~q.saves)
    /\ UNCHANGED <<notices, editingAnnId, annTitle, noticeAsked, lateEdit>>

NoticeFails(q) ==
    /\ noticeAsks' = noticeAsks \ {q}
    /\ annSaving' = (annSaving /\ ~q.saves)
    /\ UNCHANGED <<notices, shownNotices, editingAnnId, annTitle, noticeAsked, lateEdit>>

NoticesNext ==
    \/ TypeTitle \/ CancelEdit \/ SaveAnnouncement \/ RefreshNotices
    \/ \E id \in NoticeIds : StartEditAnn(id) \/ DeleteAnn(id)
    \/ \E q \in noticeAsks : NoticeDone(q) \/ NoticesListed(q) \/ NoticeFails(q)

-----------------------------------------------------------------------------
VARIABLES
    panelOpen, panelStep, panelToken, panelListed, panelErr,
    panelLoading, \* the password's button is disabled
    panelAsks,    \* requests under way: the password, a list, a change followed by a list
    panelAsked    \* history: requests

panelDoorVars == <<panelOpen, panelStep, panelToken, panelListed, panelErr, panelLoading, panelAsks,
                   panelAsked>>

PanelDoorInit ==
    /\ panelOpen = FALSE /\ panelStep = "password" /\ panelToken = FALSE
    /\ panelListed = FALSE /\ panelErr = FALSE /\ panelLoading = FALSE
    /\ panelAsks = {} /\ panelAsked = 0

AskPanel(kind) ==
    /\ panelAsked < MaxAdminAsks /\ panelAsked' = panelAsked + 1
    /\ panelAsks' = panelAsks \cup {[n |-> panelAsked + 1, kind |-> kind]}

\* The effect of an opening: a stored token goes to the list at once.
OpenPanel ==
    /\ ~panelOpen /\ panelOpen' = TRUE
    /\ IF panelToken THEN panelStep' = "main" /\ panelLoading' = TRUE /\ AskPanel("first list")
       ELSE panelStep' = "password" /\ UNCHANGED <<panelLoading, panelAsks, panelAsked>>
    /\ UNCHANGED <<panelToken, panelListed, panelErr>>

ClosePanel ==
    /\ panelOpen /\ panelOpen' = FALSE
    /\ panelStep' = "password" /\ panelErr' = FALSE
    /\ UNCHANGED <<panelToken, panelListed, panelLoading, panelAsks, panelAsked>>

HandleLogin ==
    /\ panelOpen /\ panelStep = "password" /\ ~panelLoading
    /\ panelErr' = FALSE /\ panelLoading' = TRUE /\ AskPanel("login")
    /\ UNCHANGED <<panelOpen, panelStep, panelToken, panelListed>>

\* The right password: the token is stored, the list is read by the same handler.
LoginAnswers(q) ==
    /\ q.kind = "login"
    /\ panelToken' = TRUE /\ panelStep' = "main"
    /\ panelAsks' = (panelAsks \ {q}) \cup {[q EXCEPT !.kind = "login list"]}
    /\ UNCHANGED <<panelOpen, panelListed, panelErr, panelLoading, panelAsked>>

\* approve and withdraw, and the button that reads the list again; a new
\* password of the panel reads no list.
AskFromPanel(kind) ==
    /\ panelOpen /\ panelStep = "main" /\ ~(panelLoading /\ ~panelListed) /\ AskPanel(kind)
    /\ panelErr' = (panelErr /\ kind = "refresh")
    /\ UNCHANGED <<panelOpen, panelStep, panelToken, panelListed, panelLoading>>

LoadingAfter(q) == panelLoading /\ q.kind \notin {"login", "login list", "first list"}
PanelAnswers(q) ==
    /\ q.kind # "login"
    /\ panelListed' = (panelListed \/ q.kind # "password")
    /\ panelAsks' = panelAsks \ {q} /\ panelLoading' = LoadingAfter(q)
    /\ UNCHANGED <<panelOpen, panelStep, panelToken, panelErr, panelAsked>>

\* Only the list of an opening throws the token away when it fails; nobody
\* hears of a failed refresh.
PanelAskFails(q) ==
    /\ panelAsks' = panelAsks \ {q} /\ panelLoading' = LoadingAfter(q)
    /\ panelErr' = (panelErr \/ q.kind # "refresh")
    /\ IF q.kind = "first list" THEN panelToken' = FALSE /\ panelStep' = "password"
       ELSE UNCHANGED <<panelToken, panelStep>>
    /\ UNCHANGED <<panelOpen, panelListed, panelAsked>>

HandleLogoutPanel ==
    /\ panelOpen /\ panelStep = "main" /\ ~(panelLoading /\ ~panelListed)
    /\ panelToken' = FALSE /\ panelStep' = "password" /\ panelListed' = FALSE
    /\ UNCHANGED <<panelOpen, panelErr, panelLoading, panelAsks, panelAsked>>

PanelDoorNext ==
    \/ OpenPanel \/ ClosePanel \/ HandleLogin \/ HandleLogoutPanel
    \/ \E kind \in {"change", "refresh", "password"} : AskFromPanel(kind)
    \/ \E q \in panelAsks : LoginAnswers(q) \/ PanelAnswers(q) \/ PanelAskFails(q)

-----------------------------------------------------------------------------
VARIABLES
    pwOpening,  \* the dialog: the number of this opening, 0 while it is closed
    pwMessage,  \* the opening whose answer is shown, 0 for none
    pwAsked,    \* the opening a request under way was sent in, 0 for none
    pwOpened,   \* history: openings
    joining \* the form of a registration
dialogVars == <<pwOpening, pwMessage, pwAsked, pwOpened, joining>>

DialogsInit == pwOpening = 0 /\ pwMessage = 0 /\ pwAsked = 0 /\ pwOpened = 0 /\ joining = "form"

OpenPassword ==
    /\ pwOpening = 0 /\ pwOpened < MaxAdminAsks
    /\ pwOpening' = pwOpened + 1 /\ pwOpened' = pwOpened + 1
    /\ UNCHANGED <<pwMessage, pwAsked, joining>>
ClosePassword ==
    /\ pwOpening # 0 /\ pwOpening' = 0 /\ pwMessage' = 0
    /\ UNCHANGED <<pwAsked, pwOpened, joining>>

\* onSubmit: two new passwords that differ, or one like the old, are not sent.
SubmitPassword(fits) ==
    /\ pwOpening # 0 /\ pwAsked = 0
    /\ IF fits THEN pwAsked' = pwOpening /\ pwMessage' = 0
       ELSE pwMessage' = pwOpening /\ UNCHANGED pwAsked
    /\ UNCHANGED <<pwOpening, pwOpened, joining>>
PasswordAnswers ==
    /\ pwAsked # 0 /\ pwMessage' = pwAsked /\ pwAsked' = 0
    /\ UNCHANGED <<pwOpening, pwOpened, joining>>

SubmitRegistration ==
    /\ joining # "sending" /\ joining' = "sending"
    /\ UNCHANGED <<pwOpening, pwMessage, pwAsked, pwOpened>>
RegistrationAnswered(ok) ==
    /\ joining = "sending" /\ joining' = IF ok THEN "done" ELSE "refused"
    /\ UNCHANGED <<pwOpening, pwMessage, pwAsked, pwOpened>>

DialogsNext ==
    \/ OpenPassword \/ ClosePassword \/ PasswordAnswers \/ SubmitRegistration
    \/ \E ok \in BOOLEAN : SubmitPassword(ok) \/ RegistrationAnswered(ok)

-----------------------------------------------------------------------------
AdminTypeOK ==
    /\ \A u \in Members : member[u] \in [approved : BOOLEAN, active : BOOLEAN]
    /\ shownMembers.at \in 0 .. commits
    /\ notices \subseteq NoticeIds /\ editingAnnId \in NoticeIds \cup {NoNotice}
    /\ panelStep \in {"password", "main"} /\ pwMessage <= pwOpened

\* A request that will read the list again, as far as it got, or has read it
\* after the last change.
BringsNews(q) == q.step \in {"changed", "listing"} \/ (q.step = "read" /\ q.seen.at = commits)

\* Whenever the page's members are not the server's, a request under way will
\* bring them, unless the reading after a change failed, or an older answer
\* came after a later one ("behind"; the next list read after the last change
\* ends that). The form edits an announcement that exists, unless it was opened
\* while that one was being deleted or from a list that still showed it
\* ("lateEdit"). An open panel shows the members only with a token stored.
AdminSeesServer ==
    /\ shownMembers.list # member /\ ~behind => \E q \in memberAsks : BringsNews(q)
    /\ editingAnnId # NoNotice /\ ~lateEdit => editingAnnId \in notices
    /\ panelOpen /\ panelStep = "main" => panelToken
=============================================================================
