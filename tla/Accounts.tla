------------------------------ MODULE Accounts ------------------------------
(***************************************************************************)
(* The accounts of the server: registration, verification by mail, sign-   *)
(* in, the administration of members and the roles taken from the          *)
(* environment at every start.  A handler reads the row of a user into its *)
(* database session (LoadRow), works on that copy, and commits: the        *)
(* session writes the columns that differ from the copy, and only those.   *)
(* Passwords are left out; a sign-in is one with the right password.       *)
(***************************************************************************)
CONSTANTS
    Emails,       \* addresses
    Master,       \* MASTER_EMAIL
    UserIds,      \* primary keys; a key is given out once
    Requests,     \* handlers that may be under way at a time
    NaiveExpiry   \* does the expiry of a link come back without a time zone,
                  \* as it does from the column that create_all creates

NoOne == "none"

ASSUME AccountsAssumption ==
    /\ NoOne \notin Emails \cup UserIds /\ Master \in Emails
    /\ NaiveExpiry \in BOOLEAN

VARIABLES
    userRow,     \* table users; NoRow where there is none
    born,        \* keys given out so far
    portalRows,  \* has the user rows in other tables, such as a profile
    hasToken,    \* was the user given an access token (it outlives the row)
    mailLink,    \* the link mailed to a user: "none" (or expired), "open", or
                 \* "answered", when it was opened in time
    handling,    \* what a handler is doing
    userId,      \* the user it is about
    rowSeen      \* the row as its session read it

accountVars == <<userRow, born, portalRows, hasToken, mailLink, handling, userId, rowSeen>>
accountTables == <<userRow, born, portalRows, hasToken, mailLink>>

Row == [email : Emails \cup {NoOne}, lead : BOOLEAN, active : BOOLEAN,
        verified : BOOLEAN, approved : BOOLEAN]

NoRow == [email |-> NoOne, lead |-> FALSE, active |-> FALSE,
          verified |-> FALSE, approved |-> FALSE]
NewMember(e) == [email |-> e, lead |-> FALSE, active |-> TRUE,
                 verified |-> FALSE, approved |-> FALSE]
MasterRow == [email |-> Master, lead |-> TRUE, active |-> TRUE,
              verified |-> TRUE, approved |-> TRUE]

Exists(i) == userRow[i].email # NoOne
Taken(e) == \E i \in UserIds : userRow[i].email = e

\* Who may sign in and use the platform: leads, and members that are verified
\* and approved.
Cleared(u) == u.lead \/ (u.verified /\ u.approved)

\* The first start on an empty database seeds the master.
AccountsInit ==
    /\ \E i \in UserIds :
          /\ userRow = [j \in UserIds |-> IF j = i THEN MasterRow ELSE NoRow]
          /\ born = {i}
    /\ portalRows = [i \in UserIds |-> FALSE]
    /\ hasToken = [i \in UserIds |-> FALSE]
    /\ mailLink = [i \in UserIds |-> "none"]
    /\ handling = [r \in Requests |-> "idle"]
    /\ userId = [r \in Requests |-> NoOne]
    /\ rowSeen = [r \in Requests |-> NoRow]

-----------------------------------------------------------------------------
(* Sessions.                                                              *)

OpenSession(r, o, i, u) ==
    /\ handling[r] = "idle"
    /\ handling' = [handling EXCEPT ![r] = o]
    /\ userId' = [userId EXCEPT ![r] = i]
    /\ rowSeen' = [rowSeen EXCEPT ![r] = u]

LoadRow(r, o, i) == Exists(i) /\ OpenSession(r, o, i, userRow[i]) /\ UNCHANGED accountTables

Done(r) ==
    /\ handling' = [handling EXCEPT ![r] = "idle"]
    /\ userId' = [userId EXCEPT ![r] = NoOne]
    /\ rowSeen' = [rowSeen EXCEPT ![r] = NoRow]

\* What a commit leaves of the row it loaded, if it set the columns to u: a
\* column set to the value it was read with is not written, and a row deleted
\* meanwhile makes the commit fail.
Written_WholeRow(i, old, u) == IF ~Exists(i) THEN userRow ELSE [userRow EXCEPT ![i] = u]
Column(now, old, new) == IF new = old THEN now ELSE new
Written(i, old, u) ==
    IF ~Exists(i) THEN userRow
    ELSE [userRow EXCEPT ![i].active = Column(@, old.active, u.active),
                     ![i].verified = Column(@, old.verified, u.verified),
                     ![i].approved = Column(@, old.approved, u.approved)]

Commit(r, o, u) ==
    /\ handling[r] = o
    /\ userRow' = Written(userId[r], rowSeen[r], u)
    /\ Done(r)

-----------------------------------------------------------------------------
(* Registration and verification (routers/auth.py).                       *)

RegisterUser(r, e) ==
    /\ ~Taken(e)
    /\ OpenSession(r, "register", NoOne, NewMember(e))
    /\ UNCHANGED accountTables

\* Broken: nothing but the handler's own look keeps addresses apart.
InsertUser_NoIndex(r) ==
    /\ handling[r] = "register"
    /\ \E i \in UserIds \ born :
          /\ userRow' = [userRow EXCEPT ![i] = rowSeen[r]]
          /\ born' = born \cup {i}
          /\ handling' = [handling EXCEPT ![r] = "mail"]
          /\ userId' = [userId EXCEPT ![r] = i]
    /\ UNCHANGED <<portalRows, hasToken, mailLink, rowSeen>>

\* The unique index decides between two registrations of one address.
InsertUser(r) ==
    /\ handling[r] = "register"
    /\ IF Taken(rowSeen[r].email)
       THEN Done(r) /\ UNCHANGED <<userRow, born>>
       ELSE \E i \in UserIds \ born :
              /\ userRow' = [userRow EXCEPT ![i] = rowSeen[r]]
              /\ born' = born \cup {i}
              /\ handling' = [handling EXCEPT ![r] = "mail"]
              /\ userId' = [userId EXCEPT ![r] = i]
              /\ UNCHANGED rowSeen
    /\ UNCHANGED <<portalRows, hasToken, mailLink>>

\* The account is committed whether or not the mail can be sent.
SendMail(r) ==
    /\ handling[r] = "mail"
    /\ \/ mailLink' = [mailLink EXCEPT ![userId[r]] = "open"]
       \/ UNCHANGED mailLink
    /\ Done(r)
    /\ UNCHANGED <<userRow, born, portalRows, hasToken>>

\* EMAIL_VERIFY_HOURS have passed.
LinkExpires(i) ==
    /\ mailLink[i] = "open"
    /\ mailLink' = [mailLink EXCEPT ![i] = "none"]
    /\ UNCHANGED <<userRow, born, portalRows, hasToken, handling, userId, rowSeen>>

\* An expiry without time zone cannot be compared with the time of day: the
\* comparison raises, and the answer is 500.
OpenLink(r, i) ==
    /\ Exists(i)
    /\ mailLink[i] = "open"
    /\ IF NaiveExpiry
       THEN /\ mailLink' = [mailLink EXCEPT ![i] = "answered"]
            /\ UNCHANGED <<userRow, born, portalRows, hasToken, handling, userId, rowSeen>>
       ELSE LoadRow(r, "verify", i)

Verify(r) ==
    /\ Commit(r, "verify", [rowSeen[r] EXCEPT !.verified = TRUE])
    /\ mailLink' = [mailLink EXCEPT ![userId[r]] = "answered"]
    /\ UNCHANGED <<born, portalRows, hasToken>>

-----------------------------------------------------------------------------
(* Sign-in and use of the platform.                                       *)

\* The password is compared, which takes a while, and then the flags.
Login(r, i) == LoadRow(r, "login", i)

IssueToken_ActiveOnly(r) ==
    /\ handling[r] = "login"
    /\ hasToken' = IF rowSeen[r].active THEN [hasToken EXCEPT ![userId[r]] = TRUE] ELSE hasToken
    /\ Done(r)
    /\ UNCHANGED <<userRow, born, portalRows, mailLink>>

IssueToken(r) ==
    /\ handling[r] = "login"
    /\ hasToken' = IF rowSeen[r].active /\ Cleared(rowSeen[r])
                THEN [hasToken EXCEPT ![userId[r]] = TRUE] ELSE hasToken
    /\ Done(r)
    /\ UNCHANGED <<userRow, born, portalRows, mailLink>>

\* A request with a token is admitted on the row as it is then, and leaves
\* rows that refer to the user, such as the profile.
UsePlatform(r, i) ==
    /\ hasToken[i]
    /\ userRow[i].active /\ Cleared(userRow[i])
    /\ LoadRow(r, "use", i)

\* Broken: the database does not enforce the foreign key.
AddRows_Unchecked(r) ==
    /\ handling[r] = "use"
    /\ portalRows' = [portalRows EXCEPT ![userId[r]] = TRUE]
    /\ Done(r)
    /\ UNCHANGED <<userRow, born, hasToken, mailLink>>

\* The foreign key refuses rows of a user who is not there any more.
AddRows(r) ==
    /\ handling[r] = "use"
    /\ portalRows' = IF Exists(userId[r])
                     THEN [portalRows EXCEPT ![userId[r]] = TRUE] ELSE portalRows
    /\ Done(r)
    /\ UNCHANGED <<userRow, born, hasToken, mailLink>>

-----------------------------------------------------------------------------
(* Administration (routers/admin.py, routers/admin_panel.py).             *)

\* A lead is signed in; the panel has a password of its own.
LeadSignedIn == \E i \in UserIds : hasToken[i] /\ userRow[i].lead /\ userRow[i].active

Administer(r, o, i) ==
    /\ LeadSignedIn
    /\ ~userRow[i].lead
    /\ LoadRow(r, o, i)

Approve(r) ==
    /\ Commit(r, "approve", [rowSeen[r] EXCEPT !.approved = TRUE])
    /\ UNCHANGED <<born, portalRows, hasToken, mailLink>>

Suspend(r) ==
    /\ Commit(r, "suspend", [rowSeen[r] EXCEPT !.active = FALSE])
    /\ UNCHANGED <<born, portalRows, hasToken, mailLink>>

Reactivate(r) ==
    /\ Commit(r, "activate", [rowSeen[r] EXCEPT !.active = TRUE])
    /\ UNCHANGED <<born, portalRows, hasToken, mailLink>>

PanelApprove(r, i) ==
    /\ ~userRow[i].lead /\ userRow[i].verified /\ ~userRow[i].approved
    /\ LoadRow(r, "approve", i)

PanelDelete(r, i) ==
    /\ ~userRow[i].lead
    /\ LoadRow(r, "delete", i)

\* Rows that refer to the user and are not deleted with it stop the delete,
\* and so does a row of the activity log that another handler of the user
\* writes in between.
Delete(r) ==
    /\ handling[r] = "delete"
    /\ \/ ~portalRows[userId[r]] /\ userRow' = [userRow EXCEPT ![userId[r]] = NoRow]
       \/ /\ portalRows[userId[r]] \/ \E q \in Requests \ {r} : userId[q] = userId[r]
          /\ UNCHANGED userRow
    /\ Done(r)
    /\ UNCHANGED <<born, portalRows, hasToken, mailLink>>

-----------------------------------------------------------------------------
(* Operation: reset_user_password.py --member-ready, and a restart, which  *)
(* ends all handlers and makes leads of the addresses the environment      *)
(* lists by now.                                                           *)

MemberReady(i) ==
    /\ Exists(i)
    /\ userRow' = [userRow EXCEPT ![i].verified = TRUE, ![i].approved = TRUE]
    /\ UNCHANGED <<born, portalRows, hasToken, mailLink, handling, userId, rowSeen>>

RestartServer(leads) ==
    /\ userRow' = [i \in UserIds |-> [userRow[i] EXCEPT !.lead = @ \/ userRow[i].email \in leads]]
    /\ handling' = [r \in Requests |-> "idle"]
    /\ userId' = [r \in Requests |-> NoOne]
    /\ rowSeen' = [r \in Requests |-> NoRow]
    /\ UNCHANGED <<born, portalRows, hasToken, mailLink>>

-----------------------------------------------------------------------------
Begin(r) ==
    \/ \E e \in Emails : RegisterUser(r, e)
    \/ \E i \in UserIds :
         \/ OpenLink(r, i)
         \/ Login(r, i)
         \/ UsePlatform(r, i)
         \/ \E o \in {"approve", "suspend", "activate"} : Administer(r, o, i)
         \/ PanelApprove(r, i)
         \/ PanelDelete(r, i)

Finish(r) ==
    \/ InsertUser(r) \/ SendMail(r) \/ Verify(r) \/ IssueToken(r) \/ AddRows(r)
    \/ Approve(r) \/ Suspend(r) \/ Reactivate(r) \/ Delete(r)

AccountsNext ==
    \/ \E r \in Requests : Begin(r) \/ Finish(r)
    \/ \E i \in UserIds : LinkExpires(i) \/ MemberReady(i)
    \/ \E leads \in SUBSET Emails : RestartServer(leads)

AccountsSpec == AccountsInit /\ [][AccountsNext]_accountVars

-----------------------------------------------------------------------------
(* Properties.                                                            *)

Ops == {"idle", "register", "mail", "verify", "login", "use", "approve", "suspend",
        "activate", "delete"}

AccountsTypeOK ==
    /\ userRow \in [UserIds -> Row]
    /\ born \subseteq UserIds
    /\ portalRows \in [UserIds -> BOOLEAN]
    /\ hasToken \in [UserIds -> BOOLEAN]
    /\ mailLink \in [UserIds -> {"none", "open", "answered"}]
    /\ handling \in [Requests -> Ops]
    /\ userId \in [Requests -> UserIds \cup {NoOne}]
    /\ rowSeen \in [Requests -> Row]

\* However registrations and deletions race, an address has one account.
OneAccountPerAddress ==
    \A i, j \in UserIds : Exists(i) /\ userRow[i].email = userRow[j].email => i = j

\* Who holds a token for an account that is still there was verified and
\* approved, or is a lead: the flags a sign-in has read before it compares
\* the password are still true when the token is issued, because nothing
\* takes them back.
SignedInIsCleared == \A i \in UserIds : hasToken[i] /\ Exists(i) => Cleared(userRow[i])

\* Rows that refer to a user never outlive it, whatever the panel deletes
\* while the user is at work.
RowsHaveOwner == \A i \in UserIds : portalRows[i] => Exists(i)

\* The tables agree with each other and with what the server has let users do.
AccountsAgree == OneAccountPerAddress /\ SignedInIsCleared /\ RowsHaveOwner

\* No handler writes its old copy of a row over what others have committed: a
\* verification, an approval and a role stay, and only Suspend ends, and only
\* Reactivate restores, the standing of a member.
NothingIsWrittenBack ==
    [][\A i \in UserIds : Exists(i) /\ Exists(i)' =>
        /\ userRow[i].verified => userRow'[i].verified
        /\ userRow[i].approved => userRow'[i].approved
        /\ userRow[i].lead => userRow'[i].lead
        /\ userRow[i].active /\ ~userRow'[i].active =>
              \E r \in Requests : userId[r] = i /\ Suspend(r)
        /\ ~userRow[i].active /\ userRow'[i].active =>
              \E r \in Requests : userId[r] = i /\ Reactivate(r)]_accountVars

=============================================================================
