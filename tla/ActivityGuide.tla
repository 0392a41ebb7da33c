--------------------------- MODULE ActivityGuide ---------------------------
(***************************************************************************)
(* The guide of the experiment page (experimentV3): five stages, the       *)
(* activities of each, and the templates an activity offers, prompts and   *)
(* snippets of Python that follow one another in one kernel. The page      *)
(* keeps the stage and the activity that are open; what a cell or a load   *)
(* began is recorded under the place it was begun at, whatever is open     *)
(* when it ends.                                                           *)
(***************************************************************************)
EXTENDS Naturals, Sequences, FiniteSets, SequencesExt

CONSTANTS
    OpenedActivities, \* bound: the activities that are opened
    MaxDeskAsks,      \* bound: loads and runs under way
    MaxVisits         \* bound: visits of the page

-----------------------------------------------------------------------------
\* The catalogue. An activity: its name, how many prompts and which snippets
\* it offers.
Activity(name, prompts, snippets) == [name |-> name, prompts |-> prompts, snippets |-> snippets]

DefineActivities ==
    <<Activity("define.goal", 2, {}), Activity("define.kpi", 1, {}),
      Activity("define.constraints", 1, {}), Activity("define.scope", 1, {})>>
DataActivities ==
    <<Activity("data.ingest", 1, {"read"}), Activity("data.profile", 1, {"profile", "missing"}),
      Activity("data.clean", 1, {"clean"}), Activity("data.feature", 1, {"encode"}),
      Activity("data.split", 0, {"split"})>>
RunActivities ==
    <<Activity("run.baseline", 1, {"baseline"}), Activity("run.candidates", 0, {"compare"}),
      Activity("run.tune", 0, {"tune"}), Activity("run.final", 0, {"final"}),
      Activity("run.log", 0, {"save"})>>
AnalyzeActivities ==
    <<Activity("analyze.metrics", 0, {"curves"}), Activity("analyze.importance", 0, {"importance"}),
      Activity("analyze.errors", 1, {}), Activity("analyze.compare", 1, {})>>
ReportActivities ==
    <<Activity("report.summary", 1, {}), Activity("report.method", 0, {}),
      Activity("report.results", 0, {}), Activity("report.limits", 0, {}),
      Activity("report.export", 0, {"export"})>>

Stages == <<"define", "data", "run", "analyze", "report">>
ActivitiesOf(stage) ==
    CASE stage = "define" -> DefineActivities [] stage = "data" -> DataActivities
      [] stage = "run" -> RunActivities [] stage = "analyze" -> AnalyzeActivities
      [] OTHER -> ReportActivities
AllActivities == UNION {ToSet(ActivitiesOf(s)) : s \in ToSet(Stages)}
GetActivity(name) == CHOOSE a \in AllActivities : a.name = name
StageOf(name) == CHOOSE s \in ToSet(Stages) : GetActivity(name) \in ToSet(ActivitiesOf(s))
FirstOfStage(stage) == ActivitiesOf(stage)[1].name

ASSUME PlacesAssumption ==
    OpenedActivities \subseteq {a.name : a \in AllActivities} /\ {MaxDeskAsks, MaxVisits} \subseteq Nat

-----------------------------------------------------------------------------
VARIABLES
    deskOpen,     \* the page is mounted
    deskVisit,    \* history: its visits
    place,        \* the stage and the activity that are open
    keptPlace,    \* those that are stored, as somebody wrote them
    placeDirty,   \* state.dirty
    hasCells,     \* the activities with a cell that can be run
    deskAsks,     \* runs and loads under way, with the place and the visit of their beginning
    placeTraces,  \* the places that were recorded in the history
    loadNotes,    \* the activities with a note of a load
    legacyBanner, \* the banner on the records of the older page is shown
    bannerGone    \* it was dismissed

placeVars == <<deskOpen, deskVisit, place, keptPlace, placeDirty, hasCells, deskAsks, placeTraces,
              loadNotes, legacyBanner, bannerGone>>

\* hydrate: an unknown stage becomes the first, an unknown activity the first
\* of the stage.
Hydrate(kept) ==
    LET stage == IF kept.stage \in ToSet(Stages) THEN kept.stage ELSE Stages[1]
    IN  [stage |-> stage,
         activity |-> IF \E a \in AllActivities : a.name = kept.activity THEN kept.activity
                      ELSE FirstOfStage(stage)]

PlacesInit ==
    /\ deskOpen = TRUE /\ deskVisit = 1
    /\ keptPlace \in {[stage |-> "unknown", activity |-> "unknown"], [stage |-> "data", activity |-> "unknown"]}
    /\ place = Hydrate(keptPlace) /\ placeDirty = FALSE
    /\ hasCells = {} /\ deskAsks = {} /\ placeTraces = {} /\ loadNotes = {}
    /\ bannerGone = FALSE /\ legacyBanner \in BOOLEAN

MoveTo(stage, activity) ==
    /\ deskOpen /\ activity \in OpenedActivities
    /\ place' = [stage |-> stage, activity |-> activity] /\ placeDirty' = TRUE
    /\ UNCHANGED <<deskOpen, deskVisit, keptPlace, hasCells, deskAsks, placeTraces, loadNotes,
                   legacyBanner, bannerGone>>
\* A stage opens its first activity; the list has those of the stage.
SetStage(stage) == MoveTo(stage, FirstOfStage(stage))
SetActivity(i) ==
    /\ i \in DOMAIN ActivitiesOf(place.stage)
    /\ MoveTo(place.stage, ActivitiesOf(place.stage)[i].name)

\* A template, as a new cell of the open activity.
UseTemplate ==
    LET a == GetActivity(place.activity)
    IN  /\ deskOpen /\ (a.prompts > 0 \/ a.snippets # {})
        /\ hasCells' = hasCells \cup {a.name} /\ placeDirty' = TRUE
        /\ UNCHANGED <<deskOpen, deskVisit, place, keptPlace, deskAsks, placeTraces, loadNotes,
                       legacyBanner, bannerGone>>

\* A run is recorded when it begins; the uploader is there in one stage only.
BeginAsk(kind) ==
    /\ deskOpen /\ Cardinality(deskAsks) < MaxDeskAsks
    /\ IF kind = "run" THEN place.activity \in hasCells ELSE place.stage = "data"
    /\ deskAsks' = deskAsks \cup {[kind |-> kind, at |-> place, visit |-> deskVisit]}
    /\ placeTraces' = placeTraces \cup (IF kind = "run" THEN {place} ELSE {})
    /\ UNCHANGED <<deskOpen, deskVisit, place, keptPlace, placeDirty, hasCells, loadNotes,
                   legacyBanner, bannerGone>>

AskEnds_AtTheOpenStage(q, ok) ==
    LET recorded == q.kind = "run" \/ ok
        noted == q.kind = "load" /\ ok /\ deskOpen /\ q.visit = deskVisit
    IN  /\ deskAsks' = deskAsks \ {q}
        /\ placeTraces' = placeTraces \cup
              (IF recorded THEN {[q.at EXCEPT !.stage = place.stage]} ELSE {})
        /\ loadNotes' = loadNotes \cup (IF noted THEN {q.at.activity} ELSE {})
        /\ placeDirty' = (placeDirty \/ noted)
        /\ UNCHANGED <<deskOpen, deskVisit, place, keptPlace, hasCells, legacyBanner, bannerGone>>

\* The end: the trace, and of a load the note, which a page that was left
\* since does not take. A load that fails leaves nothing.
AskEnds(q, ok) ==
    LET recorded == q.kind = "run" \/ ok
        noted == q.kind = "load" /\ ok /\ deskOpen /\ q.visit = deskVisit
    IN  /\ deskAsks' = deskAsks \ {q}
        /\ placeTraces' = placeTraces \cup (IF recorded THEN {q.at} ELSE {})
        /\ loadNotes' = loadNotes \cup (IF noted THEN {q.at.activity} ELSE {})
        /\ placeDirty' = (placeDirty \/ noted)
        /\ UNCHANGED <<deskOpen, deskVisit, place, keptPlace, hasCells, legacyBanner, bannerGone>>

SavedLabel == IF placeDirty THEN "unsaved" ELSE IF keptPlace.stage = "unknown" THEN "new" ELSE "saved"
SavePlace ==
    /\ deskOpen /\ placeDirty
    /\ keptPlace' = place /\ placeDirty' = FALSE
    /\ UNCHANGED <<deskOpen, deskVisit, place, hasCells, deskAsks, placeTraces, loadNotes,
                   legacyBanner, bannerGone>>

DismissLegacy ==
    /\ deskOpen /\ legacyBanner
    /\ legacyBanner' = FALSE /\ bannerGone' = TRUE
    /\ UNCHANGED <<deskOpen, deskVisit, place, keptPlace, placeDirty, hasCells, deskAsks, placeTraces,
                   loadNotes>>

LeaveDesk ==
    /\ deskOpen /\ deskOpen' = FALSE
    /\ UNCHANGED <<deskVisit, place, keptPlace, placeDirty, hasCells, deskAsks, placeTraces, loadNotes,
                   legacyBanner, bannerGone>>
ReturnToDesk ==
    /\ ~deskOpen /\ deskVisit < MaxVisits
    /\ deskOpen' = TRUE /\ deskVisit' = deskVisit + 1
    /\ place' = Hydrate(keptPlace) /\ placeDirty' = FALSE
    /\ UNCHANGED <<keptPlace, hasCells, deskAsks, placeTraces, loadNotes, legacyBanner, bannerGone>>

\* The badges of the list: the activities with a record.
TraceBadges == {t.activity : t \in placeTraces}

PlacesNext ==
    \/ \E s \in ToSet(Stages) : SetStage(s)
    \/ \E i \in 1 .. 5 : SetActivity(i)
    \/ UseTemplate \/ SavePlace \/ DismissLegacy \/ LeaveDesk \/ ReturnToDesk
    \/ \E kind \in {"run", "load"} : BeginAsk(kind)
    \/ \E q \in deskAsks, ok \in BOOLEAN : AskEnds(q, ok)

-----------------------------------------------------------------------------
\* The snippets: the names they read that others make, the names they make,
\* and those they import, which are there even if the rest fails.
Snippets == UNION {a.snippets : a \in AllActivities}
SnippetReads(s) ==
    CASE s = "read" -> {"FILE_PATH"}
      [] s \in {"profile", "missing", "clean"} -> {"df"}
      [] s = "encode" -> {"df_clean"}
      [] s = "split" -> {"X", "y"}
      [] s = "baseline" -> {"pre", "X_train", "y_train"}
      [] s = "compare" -> {"LogisticRegression", "pre", "X_train", "y_train"}
      [] s = "tune" -> {"Pipeline", "RandomForestClassifier", "pre", "X_train", "y_train"}
      [] s = "final" -> {"gs", "X_tv", "y_tv", "X_test", "y_test"}
      [] s = "save" -> {"best", "gs"}
      [] s = "curves" -> {"best", "X_test", "y_test", "y_pred", "y"}
      [] s = "importance" -> {"best", "X_test", "y_test", "pd", "plt"}
      [] OTHER -> {"result"}
SnippetImports(s) ==
    CASE s = "read" -> {"pd"} [] s \in {"missing", "curves"} -> {"plt"}
      [] s = "baseline" -> {"Pipeline", "LogisticRegression"}
      [] s = "compare" -> {"RandomForestClassifier", "Pipeline", "pd"}
      [] OTHER -> {}
SnippetMakes(s) ==
    CASE s = "read" -> {"df"} [] s = "clean" -> {"df_clean"} [] s = "encode" -> {"X", "y", "pre"}
      [] s = "split" -> {"X_tv", "y_tv", "X_train", "y_train", "X_test", "y_test"}
      [] s = "compare" -> {"result"} [] s = "tune" -> {"gs"} [] s = "final" -> {"best", "y_pred"}
      [] OTHER -> {}

\* The snippets of the activities before a snippet's own.
GuideOrder == DefineActivities \o DataActivities \o RunActivities \o AnalyzeActivities \o ReportActivities
Earlier(s) ==
    LET own == CHOOSE k \in DOMAIN GuideOrder : s \in GuideOrder[k].snippets
    IN  UNION {GuideOrder[k].snippets : k \in 1 .. own - 1}

VARIABLES
    kernelNames, \* the names of the user's kernel
    followed,    \* the snippets that ran in this kernel without an error
    tableLoaded, \* the uploader loaded a table into this kernel
    nameError    \* the last snippet failed on a name that is not there

snippetVars == <<kernelNames, followed, tableLoaded, nameError>>

SnippetsInit == kernelNames = {} /\ followed = {} /\ tableLoaded = FALSE /\ nameError = FALSE

LoadIntoKernel ==
    /\ kernelNames' = kernelNames \cup {"pd", "df"} /\ tableLoaded' = TRUE
    /\ UNCHANGED <<followed, nameError>>

MissingNames(s) == SnippetReads(s) \ (kernelNames \cup SnippetImports(s))

RunSnippet(s) ==
    /\ nameError' = (MissingNames(s) # {})
    /\ kernelNames' = kernelNames \cup SnippetImports(s) \cup (IF nameError' THEN {} ELSE SnippetMakes(s))
    /\ followed' = IF nameError' THEN followed ELSE followed \cup {s}
    /\ UNCHANGED tableLoaded

\* The kernel is shut down, idle for too long or with its server: the next
\* one is empty.
KernelIsNew ==
    /\ kernelNames' = {} /\ followed' = {} /\ tableLoaded' = FALSE
    /\ UNCHANGED nameError

SnippetsNext == LoadIntoKernel \/ KernelIsNew \/ \E s \in Snippets : RunSnippet(s)

-----------------------------------------------------------------------------
GuideDeskTypeOK ==
    /\ place.stage \in ToSet(Stages)
    /\ TraceBadges \cup loadNotes \cup hasCells \subseteq {a.name : a \in AllActivities}
    /\ SavedLabel \in {"unsaved", "new", "saved"} /\ followed \subseteq Snippets

\* The activity that is open is one of the stage that is open, also after a
\* return, and "saved" means just that; what is recorded of a run or a load
\* names a stage and one of its activities, however far the user has gone
\* since it began; the note of a load is in an activity of the data stage.
PlacesAgree ==
    /\ deskOpen => StageOf(place.activity) = place.stage
    /\ deskOpen /\ SavedLabel = "saved" => Hydrate(keptPlace) = place
    /\ \A t \in placeTraces : StageOf(t.activity) = t.stage
    /\ \A a \in loadNotes : StageOf(a) = "data"
    /\ legacyBanner => ~bannerGone

\* Who loads a table with the uploader and follows the guide in its order, in
\* one kernel, finds every name a snippet reads, except in the snippet that
\* reads a table itself: nothing makes the FILE_PATH it reads, so that one
\* fails for everybody (activities.config.js, 145), and the guide can be
\* followed only without it.
GuideCanBeFollowed ==
    /\ "read" \notin followed
    /\ tableLoaded =>
           \A s \in Snippets :
               Earlier(s) \ {"read"} \subseteq followed =>
                   MissingNames(s) = IF s = "read" THEN {"FILE_PATH"} ELSE {}
=============================================================================
