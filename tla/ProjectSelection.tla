-------------------------- MODULE ProjectSelection --------------------------
(***************************************************************************)
(* The project the user works in is kept twice: by App.jsx, which sends it *)
(* along with every training and prediction, and by the server, in the     *)
(* user's profile. The two are synchronised by requests that may overtake  *)
(* each other: every selection posts itself and waits for nothing, the     *)
(* profile is read again on many occasions, and a registration does both.  *)
(***************************************************************************)
EXTENDS Naturals, Sequences, SequencesExt

CONSTANTS
    Projects,     \* the projects that exist
    NewProjects,  \* the projects registrations may create
    None,         \* no project
    MaxLoads,     \* bound: profile requests in flight when the user selects
    MaxSaves      \* bound: selections being posted when the user selects

ASSUME ProjectAssumption ==
    /\ None \notin Projects \cup NewProjects
    /\ MaxLoads \in Nat \ {0} /\ MaxSaves \in Nat \ {0}

VARIABLES
    cur,       \* currentProjectId
    locked,    \* projectSelectionLockedEmpty
    profile,   \* the server's current project
    existing,  \* the server's projects
    loads,     \* the profile requests in flight, in the order they were sent
    saves,     \* the selections being posted, in the order they were sent
    reg,       \* the registration handler of ProjectsPage: its stage and project
    disturbed  \* history: a request failed or was overtaken

selVars == <<cur, locked, profile, existing, loads, saves, reg, disturbed>>

Ids == Projects \cup NewProjects \cup {None}

\* A profile request remembers the lock of the render it was made in and,
\* once the server has read it, the profile's project.
Sent(lock) == [state |-> "sent", lock |-> lock]
Read(lock, pid) == [state |-> "read", lock |-> lock, pid |-> pid]

RegStages == {"idle", "creating", "activating", "refreshing", "again"}

-----------------------------------------------------------------------------
\* Signed in: the effect that loads everything has asked for the profile.
SelInit ==
    /\ cur = None
    /\ locked = FALSE
    /\ profile \in Projects \cup {None}
    /\ existing = Projects
    /\ loads = <<Sent(FALSE)>>
    /\ saves = <<>>
    /\ reg = [stage |-> "idle", pid |-> None]
    /\ disturbed = FALSE

Activate_NotPosted(pid) ==
    /\ cur' = pid
    /\ locked' = (pid = None)
    /\ UNCHANGED saves
    /\ IF locked' = locked
       THEN UNCHANGED loads
       ELSE loads' = Append(loads, Sent(locked'))

\* setActiveProject: the selection is shown at once and posted; choosing
\* nothing locks it. When the lock changes, so does loadUserProfile, and the
\* effect that depends on it loads the profile again.
Activate(pid) ==
    /\ cur' = pid
    /\ locked' = (pid = None)
    /\ saves' = Append(saves, pid)
    /\ IF locked' = locked
       THEN UNCHANGED loads
       ELSE loads' = Append(loads, Sent(locked'))

WithinBounds == Len(saves) < MaxSaves /\ Len(loads) < MaxLoads

\* What the select shows.
Shown == IF locked THEN None ELSE cur

\* The select reports only changes.
SelectProject(pid) ==
    /\ pid \in existing \cup {None} /\ pid # Shown
    /\ WithinBounds
    /\ Activate(pid)
    /\ UNCHANGED <<profile, existing, reg, disturbed>>

\* New Project: the selection is emptied and locked before anything is sent.
StartNewProject ==
    /\ WithinBounds
    /\ Activate(None)
    /\ UNCHANGED <<profile, existing, reg, disturbed>>

\* The server stores a selection; or the post fails, which nobody notices.
\* Posts may be served in any order.
ServerSaves(i) ==
    /\ \/ /\ profile' = saves[i]
          /\ disturbed' = (disturbed \/ i # 1)
       \/ /\ UNCHANGED profile
          /\ disturbed' = TRUE
    /\ saves' = RemoveAt(saves, i)
    /\ UNCHANGED <<cur, locked, existing, loads, reg>>

ServerReads(i) ==
    /\ loads[i].state = "sent"
    /\ loads' = [loads EXCEPT ![i] = Read(loads[i].lock, profile)]
    /\ UNCHANGED <<cur, locked, profile, existing, saves, reg, disturbed>>

TakesOver_Always(l) == TRUE

\* loadUserProfile continues: a project is not taken over by the render that
\* saw the lock, an empty selection is.
TakesOver(l) == ~l.lock \/ l.pid = None

ProfileArrives(i) ==
    LET l == loads[i]
        late == saves # <<>> \/ l.pid # profile
    IN /\ l.state = "read"
       /\ loads' = RemoveAt(loads, i)
       /\ cur' = IF TakesOver(l) THEN l.pid ELSE cur
       /\ disturbed' = (disturbed \/ (TakesOver(l) /\ late))
       /\ UNCHANGED <<locked, profile, existing, saves, reg>>

\* The request fails, before or after the server read the profile.
ProfileFails(i) ==
    /\ cur' = None
    /\ loads' = RemoveAt(loads, i)
    /\ disturbed' = TRUE
    /\ UNCHANGED <<locked, profile, existing, saves, reg>>

-----------------------------------------------------------------------------
(* runRegisterFromBrief. Its button is disabled while it runs; everything  *)
(* else stays enabled.                                                     *)

Register ==
    /\ reg.stage = "idle"
    /\ reg' = [reg EXCEPT !.stage = "creating"]
    /\ UNCHANGED <<cur, locked, profile, existing, loads, saves, disturbed>>

\* The server creates the project and makes it the profile's current one;
\* the answer activates it in the browser.
Created ==
    /\ reg.stage = "creating"
    /\ \E pid \in NewProjects \ existing :
        /\ existing' = existing \cup {pid}
        /\ profile' = pid
        /\ Activate(pid)
        /\ reg' = [stage |-> "activating", pid |-> pid]
    /\ UNCHANGED disturbed

\* The registration fails. The server may have done it all the same, when the
\* client gave up waiting; the form still holds the brief.
RegisterFails ==
    /\ reg.stage = "creating"
    /\ reg' = [stage |-> "idle", pid |-> None]
    /\ \/ UNCHANGED <<existing, profile, disturbed>>
       \/ /\ \E pid \in NewProjects \ existing :
                existing' = existing \cup {pid} /\ profile' = pid
          /\ disturbed' = TRUE
    /\ UNCHANGED <<cur, locked, loads, saves>>

\* The activation was answered or timed out: the lists are refreshed.
Activated ==
    /\ reg.stage = "activating"
    /\ reg' = [reg EXCEPT !.stage = "refreshing"]
    /\ UNCHANGED <<cur, locked, profile, existing, loads, saves, disturbed>>

\* The refresh was answered or timed out. The profile it read does not
\* matter: in the same turn the new project is activated a second time, over
\* whatever was selected in the meantime.
Refreshed ==
    /\ reg.stage = "refreshing"
    /\ Activate(reg.pid)
    /\ reg' = [reg EXCEPT !.stage = "again"]
    /\ UNCHANGED <<profile, existing, disturbed>>

Finished ==
    /\ reg.stage = "again"
    /\ reg' = [stage |-> "idle", pid |-> None]
    /\ UNCHANGED <<cur, locked, profile, existing, loads, saves, disturbed>>

RegistrationStep == Created \/ RegisterFails \/ Activated \/ Refreshed \/ Finished

Answered ==
    \/ \E i \in DOMAIN saves : ServerSaves(i)
    \/ \E i \in DOMAIN loads : ServerReads(i) \/ ProfileArrives(i) \/ ProfileFails(i)

SelNext ==
    \/ \E pid \in Ids : SelectProject(pid)
    \/ StartNewProject \/ Register
    \/ RegistrationStep \/ Answered

SelSpec == SelInit /\ [][SelNext]_selVars

-----------------------------------------------------------------------------
SelTypeOK ==
    /\ cur \in Ids /\ profile \in Ids
    /\ locked \in BOOLEAN /\ disturbed \in BOOLEAN
    /\ existing \in SUBSET (Projects \cup NewProjects)
    /\ \A i \in DOMAIN loads :
        loads[i] \in [state : {"sent"}, lock : BOOLEAN]
                        \cup [state : {"read"}, lock : BOOLEAN, pid : Ids]
    /\ \A i \in DOMAIN saves : saves[i] \in Ids
    /\ reg \in [stage : RegStages, pid : NewProjects \cup {None}]

\* The lock works for what is asked for under it: an empty selection, emptied
\* for a new project, is never filled again by an answer that was asked for
\* after that, and every profile request sent from then on is such a one. A
\* selection of the user or of a registration takes the lock away.
FromTheLock == \A i \in DOMAIN loads : loads[i].lock
LockHolds ==
    [][locked /\ cur = None /\ FromTheLock /\ locked' => cur' = None /\ FromTheLock']_selVars

\* What the comment in openExperimentWorkspace promises: no synchronisation
\* answer puts a project back into a selection that was emptied and locked. The
\* answer to a request that was already under way does: it was made by a
\* render that had no lock yet.
LockStands == locked => cur = None

\* When nothing is in flight, browser and server agree on the project, unless
\* a request was lost or overtaken: no path of the code forgets to tell the
\* other side.
SettledAgree ==
    saves = <<>> /\ loads = <<>> /\ reg.stage = "idle" /\ ~disturbed
        => cur = profile

=============================================================================
