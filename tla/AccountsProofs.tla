--------------------------- MODULE AccountsProofs ---------------------------
(***************************************************************************)
(* Proofs about Accounts, for any addresses, keys and handlers, and for    *)
(* either kind of expiry column.                                           *)
(***************************************************************************)
EXTENDS Accounts, TLAPS

\* The steps at which a handler works on a row it has read.
Loaded == {"verify", "login", "use", "approve", "suspend", "activate", "delete"}

\* A handler refers to a key that was given out, or is about to insert a row.
HandlersRefer ==
    \A r \in Requests :
        /\ handling[r] \in Loaded \cup {"mail"} => userId[r] \in born
        /\ handling[r] = "register" => rowSeen[r] \in {NewMember(e) : e \in Emails}

\* Only keys that were given out have rows or tokens.
BornFirst == \A i \in UserIds : Exists(i) \/ hasToken[i] => i \in born

\* What v allows a user is not less than what u does.
Grows(u, v) ==
    /\ u.lead => v.lead
    /\ u.verified => v.verified
    /\ u.approved => v.approved

\* What a handler has read of the flags still holds, as long as there is a row.
SeenHolds ==
    \A r \in Requests :
        handling[r] \in Loaded /\ Exists(userId[r]) => Grows(rowSeen[r], userRow[userId[r]])

References == HandlersRefer /\ BornFirst /\ SeenHolds
AccountsInv == AccountsTypeOK /\ References /\ AccountsAgree

-----------------------------------------------------------------------------
\* Rows keep their addresses and lose no flag.
RowsGrow == \A i \in UserIds : userRow'[i].email = userRow[i].email /\ Grows(userRow[i], userRow'[i])

LEMMA NoRowType == NoRow \in Row /\ NoRow.email = NoOne
  BY DEF NoRow, Row

LEMMA NewMemberType ==
  ASSUME NEW e \in Emails
  PROVE  /\ NewMember(e) \in Row
         /\ NewMember(e).email = e
  BY DEF NewMember, Row

LEMMA InvInit == AccountsInit => AccountsInv
<1> SUFFICES ASSUME AccountsInit PROVE AccountsInv
  OBVIOUS
<1> USE NoRowType, AccountsAssumption
<1>1. PICK m \in UserIds : /\ userRow = [j \in UserIds |-> IF j = m THEN MasterRow ELSE NoRow]
                           /\ born = {m}
  BY DEF AccountsInit
<1>2. MasterRow \in Row /\ MasterRow.email # NoOne
  BY DEF MasterRow, Row
<1>3. AccountsTypeOK
  BY <1>1, <1>2 DEF AccountsInit, AccountsTypeOK, Ops
<1>4. References
  BY <1>1 DEF AccountsInit, References, HandlersRefer, BornFirst, SeenHolds, Loaded, Exists
<1>5. AccountsAgree
  BY <1>1, <1>2 DEF AccountsInit, AccountsAgree, OneAccountPerAddress, SignedInIsCleared, RowsHaveOwner, Exists
<1> QED
  BY <1>3, <1>4, <1>5 DEF AccountsInv

\* A handler that ends leaves the others as they are.
LEMMA DoneKeeps ==
  ASSUME AccountsTypeOK, NEW r \in Requests, Done(r)
  PROVE  /\ handling' \in [Requests -> Ops] /\ userId' \in [Requests -> UserIds \cup {NoOne}]
         /\ rowSeen' \in [Requests -> Row]
         /\ handling'[r] = "idle"
         /\ \A q \in Requests \ {r} :
               handling'[q] = handling[q] /\ userId'[q] = userId[q] /\ rowSeen'[q] = rowSeen[q]
  BY NoRowType DEF Done, AccountsTypeOK, Ops

\* The invariant survives every step in which rows only grow, a handler of
\* the former state goes on or ends, and tokens and references do not change.
LEMMA InvGrows ==
  ASSUME AccountsInv, RowsGrow, userRow' \in [UserIds -> Row], UNCHANGED <<born, portalRows, hasToken>>,
         mailLink' \in [UserIds -> {"none", "open", "answered"}],
         handling' \in [Requests -> Ops], userId' \in [Requests -> UserIds \cup {NoOne}],
         rowSeen' \in [Requests -> Row],
         \A q \in Requests :
            \/ handling'[q] = "idle"
            \/ handling'[q] = handling[q] /\ userId'[q] = userId[q] /\ rowSeen'[q] = rowSeen[q]
  PROVE  AccountsInv'
<1>1. AccountsTypeOK'
  BY DEF AccountsInv, AccountsTypeOK
<1>2. \A i \in UserIds : Exists(i)' <=> Exists(i)
  BY DEF RowsGrow, Exists
<1>3. HandlersRefer' /\ BornFirst'
  BY <1>2 DEF AccountsInv, References, HandlersRefer, BornFirst, Loaded
<1>4. SeenHolds'
  <2> SUFFICES ASSUME NEW q \in Requests, (handling[q] \in Loaded /\ Exists(userId[q]))'
               PROVE  Grows(rowSeen[q], userRow[userId[q]])'
    BY DEF SeenHolds
  <2>1. handling'[q] = handling[q] /\ userId'[q] = userId[q] /\ rowSeen'[q] = rowSeen[q]
    BY DEF Loaded
  <2>2. userId[q] \in UserIds
    BY <2>1 DEF AccountsInv, References, HandlersRefer, AccountsTypeOK
  <2>3. Exists(userId[q])
    BY <2>1, <2>2, <1>2 DEF Exists
  <2>4. Grows(rowSeen[q], userRow[userId[q]]) /\ Grows(userRow[userId[q]], userRow'[userId[q]])
    BY <2>1, <2>2, <2>3 DEF AccountsInv, References, SeenHolds, RowsGrow
  <2> QED
    BY <2>1, <2>4 DEF Grows
<1>5. AccountsAgree'
  BY <1>2 DEF AccountsInv, AccountsAgree, OneAccountPerAddress, SignedInIsCleared, RowsHaveOwner, RowsGrow,
              Grows, Cleared, Exists
<1> QED
  BY <1>1, <1>3, <1>4, <1>5 DEF AccountsInv, References

-----------------------------------------------------------------------------
\* A commit changes flags of one row, and only those the handler has changed
\* on its copy.
LEMMA CommitEffect ==
  ASSUME AccountsInv, NEW r \in Requests, NEW o \in Loaded, NEW u \in Row, Commit(r, o, u),
         Grows(rowSeen[r], u)
  PROVE  /\ userRow' \in [UserIds -> Row]
         /\ RowsGrow
         /\ userId[r] \in UserIds
         /\ \A i \in UserIds \ {userId[r]} : userRow'[i] = userRow[i]
         /\ Exists(userId[r]) =>
               userRow'[userId[r]].active = Column(userRow[userId[r]].active, rowSeen[r].active, u.active)
<1>1. userId[r] \in UserIds /\ handling[r] = o
  BY DEF Commit, AccountsInv, References, HandlersRefer, AccountsTypeOK
<1>2. CASE ~Exists(userId[r])
  BY <1>1, <1>2 DEF Commit, Written, RowsGrow, Grows, AccountsInv, AccountsTypeOK
<1>3. CASE Exists(userId[r])
  <2> DEFINE now == userRow[userId[r]]
             new == [now EXCEPT !.active = Column(@, rowSeen[r].active, u.active),
                                !.verified = Column(@, rowSeen[r].verified, u.verified),
                                !.approved = Column(@, rowSeen[r].approved, u.approved)]
  <2>1. now \in Row /\ rowSeen[r] \in Row
    BY <1>1 DEF AccountsInv, AccountsTypeOK
  <2>2. userRow' = [userRow EXCEPT ![userId[r]] = new]
    BY <1>1, <1>3 DEF Commit, Written, AccountsInv, AccountsTypeOK
  <2>3. /\ new \in Row /\ new.email = now.email /\ new.lead = now.lead
        /\ new.active = Column(now.active, rowSeen[r].active, u.active)
        /\ new.verified = Column(now.verified, rowSeen[r].verified, u.verified)
        /\ new.approved = Column(now.approved, rowSeen[r].approved, u.approved)
    BY <2>1 DEF Row, Column
  <2>4. Grows(rowSeen[r], now)
    BY <1>1, <1>3 DEF AccountsInv, References, SeenHolds
  <2>5. Grows(now, new)
    BY <2>1, <2>3, <2>4 DEF Grows, Column, Row
  <2> HIDE DEF new
  <2>6. /\ userRow' \in [UserIds -> Row] /\ userRow'[userId[r]] = new
        /\ \A i \in UserIds \ {userId[r]} : userRow'[i] = userRow[i]
    BY <1>1, <2>2, <2>3 DEF AccountsInv, AccountsTypeOK
  <2>7. RowsGrow
    BY <2>3, <2>5, <2>6 DEF RowsGrow, Grows
  <2> QED
    BY <1>1, <2>3, <2>6, <2>7
<1> QED
  BY <1>2, <1>3

\* What the handlers set on their copies.
LEMMA Copies ==
  ASSUME NEW u \in Row, NEW b \in BOOLEAN
  PROVE  /\ [u EXCEPT !.verified = TRUE] \in Row /\ Grows(u, [u EXCEPT !.verified = TRUE])
         /\ [u EXCEPT !.approved = TRUE] \in Row /\ Grows(u, [u EXCEPT !.approved = TRUE])
         /\ [u EXCEPT !.active = b] \in Row /\ Grows(u, [u EXCEPT !.active = b])
         /\ [u EXCEPT !.verified = TRUE].active = u.active
         /\ [u EXCEPT !.approved = TRUE].active = u.active
         /\ [u EXCEPT !.active = b].active = b
  BY DEF Row, Grows

LEMMA InvCommit ==
  ASSUME AccountsInv, NEW r \in Requests, Verify(r) \/ Approve(r) \/ Suspend(r) \/ Reactivate(r)
  PROVE  AccountsInv' /\ RowsGrow
<1>1. rowSeen[r] \in Row
  BY DEF AccountsInv, AccountsTypeOK
<1>2. userRow' \in [UserIds -> Row] /\ RowsGrow /\ Done(r) /\ UNCHANGED <<born, portalRows, hasToken>>
  BY <1>1, Copies, CommitEffect DEF Verify, Approve, Suspend, Reactivate, Loaded, Commit
<1>3. mailLink' \in [UserIds -> {"none", "open", "answered"}]
  BY DEF Verify, Approve, Suspend, Reactivate, AccountsInv, AccountsTypeOK
<1> QED
  BY <1>2, <1>3, InvGrows, DoneKeeps DEF AccountsInv

-----------------------------------------------------------------------------
\* A handler begins with a row as it is, or with a row to insert.
LEMMA InvBegin ==
  ASSUME AccountsInv, NEW r \in Requests, Begin(r)
  PROVE  AccountsInv' /\ UNCHANGED userRow
<1>1. ASSUME NEW i \in UserIds, OpenLink(r, i), NaiveExpiry
      PROVE  AccountsInv' /\ UNCHANGED userRow
  <2>1. UNCHANGED <<userRow, born, portalRows, hasToken, handling, userId, rowSeen>>
    BY <1>1 DEF OpenLink
  <2>2. mailLink' \in [UserIds -> {"none", "open", "answered"}]
    BY <1>1 DEF OpenLink, AccountsInv, AccountsTypeOK
  <2> QED
    BY <2>1, <2>2, InvGrows DEF RowsGrow, Grows, AccountsInv, AccountsTypeOK
<1>2. ASSUME NEW e \in Emails, RegisterUser(r, e)
      PROVE  AccountsInv' /\ UNCHANGED userRow
  <2>1. /\ UNCHANGED accountTables /\ NewMember(e) \in Row
        /\ handling' = [handling EXCEPT ![r] = "register"] /\ userId' = [userId EXCEPT ![r] = NoOne]
        /\ rowSeen' = [rowSeen EXCEPT ![r] = NewMember(e)]
    BY <1>2, NewMemberType DEF RegisterUser, OpenSession
  <2>2. AccountsTypeOK'
    BY <2>1 DEF AccountsInv, AccountsTypeOK, accountTables, Ops
  <2>3. HandlersRefer' /\ BornFirst' /\ SeenHolds'
    BY <2>1 DEF AccountsInv, AccountsTypeOK, References, HandlersRefer, BornFirst, SeenHolds,
                   Loaded, Exists, accountTables
  <2>4. AccountsAgree'
    BY <2>1 DEF AccountsInv, AccountsAgree, OneAccountPerAddress, SignedInIsCleared, RowsHaveOwner, Exists,
                   accountTables
  <2> QED
    BY <2>1, <2>2, <2>3, <2>4 DEF AccountsInv, References, accountTables
<1>3. ASSUME NEW i \in UserIds, NEW o \in Loaded, LoadRow(r, o, i)
      PROVE  AccountsInv' /\ UNCHANGED userRow
  <2>1. /\ UNCHANGED accountTables /\ Exists(i) /\ userRow[i] \in Row
        /\ handling' = [handling EXCEPT ![r] = o] /\ userId' = [userId EXCEPT ![r] = i]
        /\ rowSeen' = [rowSeen EXCEPT ![r] = userRow[i]]
    BY <1>3 DEF LoadRow, OpenSession, AccountsInv, AccountsTypeOK
  <2>2. AccountsTypeOK'
    BY <2>1 DEF AccountsInv, AccountsTypeOK, accountTables, Ops, Loaded
  <2>3. HandlersRefer' /\ BornFirst'
    BY <2>1 DEF AccountsInv, AccountsTypeOK, References, HandlersRefer, BornFirst, Loaded, Exists, accountTables
  <2>4. SeenHolds'
    BY <2>1 DEF AccountsInv, AccountsTypeOK, References, SeenHolds, Exists, Grows, accountTables
  <2>5. AccountsAgree'
    BY <2>1 DEF AccountsInv, AccountsAgree, OneAccountPerAddress, SignedInIsCleared, RowsHaveOwner, Exists,
                   accountTables
  <2> QED
    BY <2>1, <2>2, <2>3, <2>4, <2>5 DEF AccountsInv, References, accountTables
<1> QED
  BY <1>1, <1>2, <1>3 DEF Begin, OpenLink, Login, UsePlatform, Administer, PanelApprove,
                          PanelDelete, Loaded

\* The steps of a handler that leave the rows of users alone.
LEMMA InvQuiet ==
  ASSUME AccountsInv, NEW r \in Requests, SendMail(r) \/ IssueToken(r) \/ AddRows(r)
  PROVE  AccountsInv' /\ UNCHANGED userRow
<1>1. UNCHANGED <<userRow, born>> /\ Done(r)
  BY DEF SendMail, IssueToken, AddRows
<1>2. userId[r] \in born /\ userId[r] \in UserIds
  BY DEF SendMail, IssueToken, AddRows, AccountsInv, References, HandlersRefer, Loaded, AccountsTypeOK
<1>3. AccountsTypeOK'
  BY <1>1, <1>2, DoneKeeps DEF SendMail, IssueToken, AddRows, AccountsInv, AccountsTypeOK
<1>4. HandlersRefer' /\ SeenHolds'
  BY <1>1, DoneKeeps DEF AccountsInv, References, HandlersRefer, SeenHolds, Loaded, Exists
<1>5. BornFirst'
  BY <1>1, <1>2 DEF SendMail, IssueToken, AddRows, AccountsInv, AccountsTypeOK, References, BornFirst, Exists
<1>6. SignedInIsCleared'
  <2>1. hasToken' = hasToken \/ (/\ hasToken' = [hasToken EXCEPT ![userId[r]] = TRUE]
                          /\ handling[r] = "login" /\ Cleared(rowSeen[r]))
    BY DEF SendMail, IssueToken, AddRows
  <2>2. handling[r] = "login" /\ Cleared(rowSeen[r]) /\ Exists(userId[r]) => Cleared(userRow[userId[r]])
    BY DEF AccountsInv, References, SeenHolds, Loaded, Grows, Cleared
  <2> QED
    BY <1>1, <1>2, <2>1, <2>2 DEF AccountsInv, AccountsAgree, SignedInIsCleared, AccountsTypeOK, Exists, Cleared
<1>7. RowsHaveOwner' /\ OneAccountPerAddress'
  BY <1>1, <1>2 DEF SendMail, IssueToken, AddRows, AccountsInv, AccountsTypeOK, AccountsAgree, RowsHaveOwner,
                    OneAccountPerAddress, Exists
<1> QED
  BY <1>1, <1>3, <1>4, <1>5, <1>6, <1>7 DEF AccountsInv, References, AccountsAgree

LEMMA InvInsert ==
  ASSUME AccountsInv, NEW r \in Requests, InsertUser(r)
  PROVE  AccountsInv' /\ \A i \in UserIds : Exists(i) => userRow'[i] = userRow[i]
<1> USE NoRowType
<1>1. handling[r] = "register" /\ UNCHANGED <<portalRows, hasToken, mailLink>>
  BY DEF InsertUser
<1>2. CASE Taken(rowSeen[r].email)
  <2>1. UNCHANGED <<userRow, born>> /\ Done(r)
    BY <1>2 DEF InsertUser
  <2> QED
    BY <1>1, <2>1, DoneKeeps, InvGrows DEF RowsGrow, Grows, AccountsInv, AccountsTypeOK
<1>3. CASE ~Taken(rowSeen[r].email)
  <2>1. PICK i \in UserIds \ born : /\ userRow' = [userRow EXCEPT ![i] = rowSeen[r]]
                                /\ born' = born \cup {i}
                                /\ handling' = [handling EXCEPT ![r] = "mail"]
                                /\ userId' = [userId EXCEPT ![r] = i]
                                /\ UNCHANGED rowSeen
    BY <1>3 DEF InsertUser
  <2>2. PICK e \in Emails : rowSeen[r] = NewMember(e)
    BY <1>1 DEF AccountsInv, References, HandlersRefer
  <2>3. rowSeen[r] \in Row /\ rowSeen[r].email = e /\ e # NoOne
    BY <2>2, NewMemberType, AccountsAssumption
  <2>4. ~Exists(i) /\ ~hasToken[i] /\ ~portalRows[i]
    BY DEF AccountsInv, References, BornFirst, AccountsAgree, RowsHaveOwner
  <2>5. /\ userRow' \in [UserIds -> Row] /\ userRow'[i] = rowSeen[r]
        /\ \A j \in UserIds \ {i} : userRow'[j] = userRow[j]
    BY <2>1, <2>3 DEF AccountsInv, AccountsTypeOK
  <2>6. AccountsTypeOK'
    BY <1>1, <2>1, <2>5 DEF AccountsInv, AccountsTypeOK, Ops
  <2>7. HandlersRefer' /\ BornFirst'
    BY <1>1, <2>1, <2>5 DEF AccountsInv, AccountsTypeOK, References, HandlersRefer, BornFirst, Loaded, Exists
  <2>8. SeenHolds'
    <3> SUFFICES ASSUME NEW q \in Requests, (handling[q] \in Loaded /\ Exists(userId[q]))'
                 PROVE  Grows(rowSeen[q], userRow[userId[q]])'
      BY DEF SeenHolds
    <3>1. q # r /\ handling'[q] = handling[q] /\ userId'[q] = userId[q] /\ rowSeen'[q] = rowSeen[q]
      BY <2>1 DEF Loaded, AccountsInv, AccountsTypeOK
    <3>2. userId[q] \in UserIds /\ userId[q] # i
      BY <3>1 DEF AccountsInv, References, HandlersRefer, AccountsTypeOK
    <3>3. userRow'[userId[q]] = userRow[userId[q]]
      BY <2>5, <3>2
    <3> QED
      BY <3>1, <3>2, <3>3 DEF AccountsInv, References, SeenHolds, Exists, Grows
  <2>9. OneAccountPerAddress'
    <3>1. \A j \in UserIds : userRow[j].email # e
      BY <1>3, <2>3 DEF Taken
    <3> QED
      BY <2>3, <2>5, <3>1 DEF AccountsInv, AccountsAgree, OneAccountPerAddress, Exists
  <2>10. SignedInIsCleared' /\ RowsHaveOwner'
    BY <1>1, <2>4, <2>5 DEF AccountsInv, AccountsAgree, SignedInIsCleared, RowsHaveOwner, Exists, Cleared
  <2>11. \A j \in UserIds : Exists(j) => userRow'[j] = userRow[j]
    BY <2>4, <2>5
  <2> QED
    BY <2>6, <2>7, <2>8, <2>9, <2>10, <2>11 DEF AccountsInv, References, AccountsAgree
<1> QED
  BY <1>2, <1>3

LEMMA InvDelete ==
  ASSUME AccountsInv, NEW r \in Requests, Delete(r)
  PROVE  AccountsInv' /\ \A i \in UserIds : userRow'[i] = userRow[i] \/ ~Exists(i)'
<1> USE NoRowType
<1>1. handling[r] = "delete" /\ Done(r) /\ UNCHANGED <<born, portalRows, hasToken, mailLink>>
  BY DEF Delete
<1>2. userId[r] \in born /\ userId[r] \in UserIds
  BY <1>1 DEF AccountsInv, References, HandlersRefer, Loaded, AccountsTypeOK
<1>3. CASE UNCHANGED userRow
  BY <1>1, <1>3, DoneKeeps, InvGrows DEF RowsGrow, Grows, AccountsInv, AccountsTypeOK
<1>4. CASE ~portalRows[userId[r]] /\ userRow' = [userRow EXCEPT ![userId[r]] = NoRow]
  <2> DEFINE gone == userId[r]
  <2>0. gone \in UserIds
    BY <1>2
  <2> HIDE DEF gone
  <2>1. /\ userRow' \in [UserIds -> Row] /\ userRow'[gone] = NoRow /\ ~portalRows[gone]
        /\ \A j \in UserIds \ {gone} : userRow'[j] = userRow[j]
    BY <1>4, <2>0 DEF gone, AccountsInv, AccountsTypeOK
  <2>2. AccountsTypeOK'
    BY <1>1, <2>1, DoneKeeps DEF AccountsInv, AccountsTypeOK
  <2>3. HandlersRefer' /\ BornFirst'
    BY <1>1, <2>1, DoneKeeps DEF AccountsInv, References, HandlersRefer, BornFirst, Loaded, Exists
  <2>4. SeenHolds'
    <3> SUFFICES ASSUME NEW q \in Requests, (handling[q] \in Loaded /\ Exists(userId[q]))'
                 PROVE  Grows(rowSeen[q], userRow[userId[q]])'
      BY DEF SeenHolds
    <3>1. handling'[q] = handling[q] /\ userId'[q] = userId[q] /\ rowSeen'[q] = rowSeen[q]
      BY <1>1, DoneKeeps DEF AccountsInv, Loaded
    <3>2. userId[q] \in UserIds /\ userId[q] # gone
      BY <2>1, <3>1 DEF AccountsInv, References, HandlersRefer, AccountsTypeOK, Exists
    <3>3. userRow'[userId[q]] = userRow[userId[q]]
      BY <2>1, <3>2
    <3> QED
      BY <3>1, <3>2, <3>3 DEF AccountsInv, References, SeenHolds, Exists, Grows
  <2>5. AccountsAgree'
    BY <1>1, <2>1 DEF AccountsInv, AccountsAgree, OneAccountPerAddress, SignedInIsCleared,
                      RowsHaveOwner, Exists, Cleared
  <2>6. \A i \in UserIds : userRow'[i] = userRow[i] \/ ~Exists(i)'
    BY <2>1 DEF Exists
  <2> QED
    BY <2>2, <2>3, <2>4, <2>5, <2>6 DEF AccountsInv, References
<1> QED
  BY <1>3, <1>4 DEF Delete

\* What operators do, and time.
LEMMA InvOperation ==
  ASSUME AccountsInv,
         \/ \E i \in UserIds : LinkExpires(i) \/ MemberReady(i)
         \/ \E leads \in SUBSET Emails : RestartServer(leads)
  PROVE  /\ AccountsInv' /\ RowsGrow
         /\ \A i \in UserIds : userRow'[i].active = userRow[i].active
<1>1. ASSUME NEW i \in UserIds, LinkExpires(i)
      PROVE  AccountsInv' /\ RowsGrow /\ UNCHANGED userRow
  <2>1. /\ UNCHANGED <<userRow, born, portalRows, hasToken, handling, userId, rowSeen>>
        /\ mailLink' \in [UserIds -> {"none", "open", "answered"}]
    BY <1>1 DEF LinkExpires, AccountsInv, AccountsTypeOK
  <2>2. RowsGrow
    BY <2>1 DEF RowsGrow, Grows
  <2> QED
    BY <2>1, <2>2, InvGrows DEF AccountsInv, AccountsTypeOK
<1>2. ASSUME NEW i \in UserIds, MemberReady(i)
      PROVE  AccountsInv' /\ RowsGrow /\ \A j \in UserIds : userRow'[j].active = userRow[j].active
  <2> DEFINE new == [userRow[i] EXCEPT !.verified = TRUE, !.approved = TRUE]
  <2>1. userRow[i] \in Row /\ userRow \in [UserIds -> Row]
    BY DEF AccountsInv, AccountsTypeOK
  <2>2. new \in Row /\ new.email = userRow[i].email /\ new.active = userRow[i].active /\ Grows(userRow[i], new)
    BY <2>1 DEF Row, Grows
  <2>3. /\ userRow' = [userRow EXCEPT ![i] = new]
        /\ UNCHANGED <<born, portalRows, hasToken, mailLink, handling, userId, rowSeen>>
    BY <1>2, <2>1 DEF MemberReady
  <2> HIDE DEF new
  <2>4. /\ userRow' \in [UserIds -> Row] /\ userRow'[i] = new
        /\ \A j \in UserIds \ {i} : userRow'[j] = userRow[j]
    BY <2>1, <2>2, <2>3
  <2>5. RowsGrow /\ \A j \in UserIds : userRow'[j].active = userRow[j].active
    BY <2>2, <2>4 DEF RowsGrow, Grows
  <2> QED
    BY <2>3, <2>4, <2>5, InvGrows DEF AccountsInv, AccountsTypeOK
<1>3. ASSUME NEW leads \in SUBSET Emails, RestartServer(leads)
      PROVE  AccountsInv' /\ RowsGrow /\ \A j \in UserIds : userRow'[j].active = userRow[j].active
  <2> DEFINE promoted(j) == [userRow[j] EXCEPT !.lead = @ \/ userRow[j].email \in leads]
  <2>0. ASSUME NEW j \in UserIds
        PROVE  /\ promoted(j) \in Row /\ promoted(j).email = userRow[j].email
               /\ promoted(j).active = userRow[j].active /\ Grows(userRow[j], promoted(j))
    <3>1. userRow[j] \in Row
      BY DEF AccountsInv, AccountsTypeOK
    <3>2. (userRow[j].lead \/ userRow[j].email \in leads) \in BOOLEAN
      OBVIOUS
    <3> QED
      BY <3>1, <3>2 DEF Row, Grows
  <2>1. userRow' = [j \in UserIds |-> promoted(j)] /\ UNCHANGED <<born, portalRows, hasToken, mailLink>>
    BY <1>3 DEF RestartServer
  <2> HIDE DEF promoted
  <2>2. /\ userRow' \in [UserIds -> Row] /\ RowsGrow
        /\ \A j \in UserIds : userRow'[j].active = userRow[j].active
    BY <2>0, <2>1 DEF RowsGrow
  <2>3. /\ handling' \in [Requests -> Ops] /\ userId' \in [Requests -> UserIds \cup {NoOne}]
        /\ rowSeen' \in [Requests -> Row] /\ \A q \in Requests : handling'[q] = "idle"
    BY <1>3, NoRowType DEF RestartServer, Ops
  <2> QED
    BY <2>1, <2>2, <2>3, InvGrows DEF AccountsInv, AccountsTypeOK
<1> QED
  BY <1>1, <1>2, <1>3

LEMMA InvNext == AccountsInv /\ [AccountsNext]_accountVars => AccountsInv'
<1> SUFFICES ASSUME AccountsInv, [AccountsNext]_accountVars PROVE AccountsInv'
  OBVIOUS
<1>1. CASE UNCHANGED accountVars
  BY <1>1, InvGrows DEF accountVars, RowsGrow, Grows, AccountsInv, AccountsTypeOK
<1> QED
  BY <1>1, InvBegin, InvQuiet, InvInsert, InvCommit, InvDelete, InvOperation DEF AccountsNext, Finish

LEMMA InvAlways == AccountsSpec => []AccountsInv
  BY InvInit, InvNext, PTL DEF AccountsSpec

-----------------------------------------------------------------------------
\* The tables and the handlers keep their types.
THEOREM AccountsTypeCorrect == AccountsSpec => []AccountsTypeOK
<1>1. AccountsInv => AccountsTypeOK
  BY DEF AccountsInv
<1> QED
  BY <1>1, InvAlways, PTL

\* However registrations and deletions race, an address has one account, a
\* token was issued to someone who is still cleared, although on flags read
\* earlier, and no deletion leaves rows behind that refer to nobody.
THEOREM AccountsStayConsistent == AccountsSpec => []AccountsAgree
<1>1. AccountsInv => AccountsAgree
  BY DEF AccountsInv
<1> QED
  BY <1>1, InvAlways, PTL

-----------------------------------------------------------------------------
\* One step of NothingIsWrittenBack.
Kept(i) ==
    Exists(i) /\ Exists(i)' =>
        /\ userRow[i].verified => userRow'[i].verified
        /\ userRow[i].approved => userRow'[i].approved
        /\ userRow[i].lead => userRow'[i].lead
        /\ userRow[i].active /\ ~userRow'[i].active =>
              \E r \in Requests : userId[r] = i /\ Suspend(r)
        /\ ~userRow[i].active /\ userRow'[i].active =>
              \E r \in Requests : userId[r] = i /\ Reactivate(r)

LEMMA KeptCommit ==
  ASSUME AccountsInv, NEW r \in Requests, Verify(r) \/ Approve(r) \/ Suspend(r) \/ Reactivate(r),
         NEW i \in UserIds
  PROVE  Kept(i)
<1>1. rowSeen[r] \in Row
  BY DEF AccountsInv, AccountsTypeOK
<1>2. RowsGrow
  BY InvCommit
<1>3. CASE i # userId[r] \/ ~Exists(i)
  <2>1. PICK u \in Row, o \in Loaded : Commit(r, o, u) /\ Grows(rowSeen[r], u)
    BY <1>1, Copies DEF Verify, Approve, Suspend, Reactivate, Loaded
  <2>2. i # userId[r] => userRow'[i] = userRow[i]
    BY <2>1, CommitEffect
  <2> QED
    BY <1>3, <2>2 DEF Kept
<1>4. CASE i = userId[r] /\ Exists(i)
  <2>1. ASSUME Verify(r) \/ Approve(r)
        PROVE  userRow'[i].active = userRow[i].active
    <3>1. \E u \in Row, o \in Loaded : u.active = rowSeen[r].active /\ Commit(r, o, u)
                                         /\ Grows(rowSeen[r], u)
      BY <1>1, <2>1, Copies DEF Verify, Approve, Loaded
    <3> QED
      BY <1>4, <3>1, CommitEffect DEF Column
  <2>2. ASSUME Suspend(r)
        PROVE  ~userRow[i].active => ~userRow'[i].active
    <3>1. \E u \in Row, o \in Loaded : u.active = FALSE /\ Commit(r, o, u)
                                         /\ Grows(rowSeen[r], u)
      BY <1>1, <2>2, Copies DEF Suspend, Loaded
    <3> QED
      BY <1>4, <3>1, CommitEffect DEF Column
  <2>3. ASSUME Reactivate(r)
        PROVE  userRow[i].active => userRow'[i].active
    <3>1. \E u \in Row, o \in Loaded : u.active = TRUE /\ Commit(r, o, u)
                                         /\ Grows(rowSeen[r], u)
      BY <1>1, <2>3, Copies DEF Reactivate, Loaded
    <3> QED
      BY <1>4, <3>1, CommitEffect DEF Column
  <2> QED
    BY <1>2, <1>4, <2>1, <2>2, <2>3 DEF RowsGrow, Grows, Kept
<1> QED
  BY <1>3, <1>4

LEMMA KeptNext == AccountsInv /\ [AccountsNext]_accountVars => \A i \in UserIds : Kept(i)
<1> SUFFICES ASSUME AccountsInv, [AccountsNext]_accountVars, NEW i \in UserIds PROVE Kept(i)
  OBVIOUS
<1>1. ASSUME userRow'[i] = userRow[i] \/ ~Exists(i) \/ ~Exists(i)'
      PROVE  Kept(i)
  BY <1>1 DEF Kept
<1>2. ASSUME RowsGrow, userRow'[i].active = userRow[i].active
      PROVE  Kept(i)
  BY <1>2 DEF Kept, RowsGrow, Grows
<1> QED
  BY <1>1, <1>2, KeptCommit, InvBegin, InvQuiet, InvInsert, InvDelete, InvOperation
     DEF AccountsNext, Finish, accountVars

\* No handler writes its copy of a row over what others have committed.
THEOREM CommitsSurvive == AccountsSpec => NothingIsWrittenBack
<1>1. AccountsInv /\ [AccountsNext]_accountVars => [\A i \in UserIds : Kept(i)]_accountVars
  BY KeptNext
<1> QED
  BY <1>1, InvAlways, PTL DEF AccountsSpec, NothingIsWrittenBack, Kept
=============================================================================
