---------------------------- MODULE CanvasAgents ----------------------------
(***************************************************************************)
(* What the experiment canvas asks the agents: the actions of its six      *)
(* blocks, the free cells below them and the drawer of the knowledge base. *)
(* A block that is folded takes its assistant off the page, and with it    *)
(* the knowledge that a request is under way; the answer still arrives.    *)
(***************************************************************************)
EXTENDS Integers, Sequences, FiniteSets, SequencesExt

CONSTANTS
    AssistedBlocks, \* the blocks whose actions are tried
    EditedFields,   \* the fields that are filled in
    Outputs,        \* the answers of an agent: sets of the fields they have
    DynCells, NoAction,
    MaxAnswers      \* bound: requests of the blocks, and of the cells

VARIABLES
    filled,      \* the fields with a text
    useRag,      \* ui.useRag
    unfolded,    \* blocks[..].expanded
    blockStatus, \* the status of the problem, data and model blocks
    busyId,      \* of each block's assistant: the action under way, as far as it knows
    underWay,    \* requests: their number, block, what is sent, the warnings of the data block then
    shownAnswer, \* agentOutput of each block: the number and the fields
    warnings,    \* data.warnings: the number of the answer they are of
    numbered,    \* history: requests
    concerned,   \* history: the last answer with concerns that came to the data block
    refolded     \* history: a block was folded with a request under way

blockVars == <<filled, useRag, unfolded, blockStatus, busyId, underWay, shownAnswer, warnings,
               numbered, concerned, refolded>>

CanvasBlocks == {"problem", "data", "model", "run", "compare", "report"}
NoAnswer == [number |-> 0, fields |-> {}]

\* The actions of each block with the agent they want, and the fields whose
\* texts they tell it.
ProblemActions == [id \in {"brief", "kpi", "refine"} |-> "data"]
DataActions == [id \in {"quality", "target", "pre"} |-> "data"]
ModelActions == [id \in {"recommend", "baseline", "tradeoffs"} |-> "model"]
RunActions == [id \in {"interpret", "diagnose", "nextrun"} |->
                  IF id = "nextrun" THEN "model" ELSE "report"]
CompareActions == [id \in {"explain", "next"} |-> "report"]
ReportActions == [id \in {"draft", "slides", "exec"} |-> "report"]
ActionsOfBlock(b) ==
    CASE b = "problem" -> ProblemActions [] b = "data" -> DataActions [] b = "model" -> ModelActions
      [] b = "run" -> RunActions [] b = "compare" -> CompareActions [] OTHER -> ReportActions

ProblemTold == {"title", "objective", "kpi", "constraints", "notes"}
DataTold == {"objective", "datasetId", "targetColumn", "featureNotes", "nullSummary", "typeSummary"}
ModelTold == {"objective", "kpi", "targetColumn", "typeSummary", "candidateModels", "parameters",
              "modelNotes"}
ReportTold == {"objective", "kpi", "baselineModel"}
ToldOf(b) ==
    CASE b = "problem" -> ProblemTold [] b = "data" -> DataTold [] b = "model" -> ModelTold
      [] b = "report" -> ReportTold [] OTHER -> {"objective"}

ASSUME AgentsAssumption ==
    /\ AssistedBlocks \subseteq CanvasBlocks
    /\ NoAction \notin UNION {DOMAIN ActionsOfBlock(b) : b \in CanvasBlocks}

\* What goes to the agent: with the knowledge base the smart agent, and the
\* wanted one inside of it.
Request(b, id) ==
    LET wanted == ActionsOfBlock(b)[id]
    IN  [agent |-> IF useRag THEN "smart" ELSE wanted, inner |-> wanted, told |-> ToldOf(b) \cap filled]

BlocksInit ==
    /\ filled = {} /\ useRag = TRUE /\ unfolded = CanvasBlocks \ {"model", "compare", "report"}
    /\ blockStatus = [b \in {"problem", "data", "model"} |-> "idle"]
    /\ busyId = [b \in CanvasBlocks |-> NoAction] /\ underWay = {}
    /\ shownAnswer = [b \in CanvasBlocks |-> NoAnswer] /\ warnings = 0
    /\ numbered = 0 /\ concerned = 0 /\ refolded = FALSE

-----------------------------------------------------------------------------
\* The first text of the title puts the problem in progress.
FillField(f) ==
    /\ filled' = (filled \cup {f}) \ (filled \cap {f})
    /\ blockStatus' = IF f = "title" /\ blockStatus["problem"] = "idle"
                      THEN [blockStatus EXCEPT !["problem"] = "in_progress"] ELSE blockStatus
    /\ UNCHANGED <<useRag, unfolded, busyId, underWay, shownAnswer, warnings, numbered, concerned,
                   refolded>>

SwitchRag ==
    /\ useRag' = ~useRag
    /\ UNCHANGED <<filled, unfolded, blockStatus, busyId, underWay, shownAnswer, warnings, numbered,
                   concerned, refolded>>

\* The body of a block is on the page only while it is unfolded.
ToggleBlock(b) ==
    /\ unfolded' = (unfolded \cup {b}) \ (unfolded \cap {b})
    /\ busyId' = [busyId EXCEPT ![b] = NoAction]
    /\ refolded' = (refolded \/ \E q \in underWay : q.block = b)
    /\ UNCHANGED <<filled, useRag, blockStatus, underWay, shownAnswer, warnings, numbered, concerned>>

\* execute: its buttons are disabled while it knows of an action.
ActionAllowed(b) == b \in unfolded /\ busyId[b] = NoAction
Execute(b, id) ==
    /\ ActionAllowed(b) /\ id \in DOMAIN ActionsOfBlock(b) /\ numbered < MaxAnswers
    /\ numbered' = numbered + 1
    /\ busyId' = [busyId EXCEPT ![b] = id]
    /\ underWay' = underWay \cup {[number |-> numbered + 1, block |-> b, request |-> Request(b, id),
                                   warnings |-> warnings]}
    /\ UNCHANGED <<filled, useRag, unfolded, blockStatus, shownAnswer, warnings, concerned, refolded>>

\* onResult: a data answer without concerns sets the warnings it was asked with.
WarningsAfter(q, fields) ==
    CASE q.block # "data" -> warnings
      [] q.block = "data" /\ "data_quality_concerns" \in fields -> q.number
      [] OTHER -> q.warnings
AgentAnswers(q, fields) ==
    /\ underWay' = underWay \ {q}
    /\ busyId' = [busyId EXCEPT ![q.block] = NoAction]
    /\ shownAnswer' = [shownAnswer EXCEPT ![q.block] = [number |-> q.number, fields |-> fields]]
    /\ blockStatus' = [b \in DOMAIN blockStatus |-> IF b = q.block THEN "done" ELSE blockStatus[b]]
    /\ warnings' = WarningsAfter(q, fields)
    /\ concerned' = IF q.block = "data" /\ "data_quality_concerns" \in fields THEN q.number ELSE concerned
    /\ UNCHANGED <<filled, useRag, unfolded, numbered, refolded>>

AgentFails(q) ==
    /\ underWay' = underWay \ {q}
    /\ busyId' = [busyId EXCEPT ![q.block] = NoAction]
    /\ UNCHANGED <<filled, useRag, unfolded, blockStatus, shownAnswer, warnings, numbered, concerned,
                   refolded>>

\* The cards an answer is shown as: one for each field it knows, or the raw text.
CardFields == {"dataset_summary", "target_candidates", "feature_groups", "recommended_preprocessing",
               "data_quality_concerns", "task_type", "recommended_models", "evaluation_metrics",
               "tracking_checklist", "executive_summary", "key_findings", "recommendations", "risks",
               "next_experiments", "data_plan", "modeling_plan", "report", "_retrieved_sources"}
CardsOf(fields) == IF fields \cap CardFields = {} THEN {"raw"} ELSE fields \cap CardFields

\* The parts of the report's preview.
PreviewParts ==
    LET answer == shownAnswer["report"].fields
    IN  (IF "executive_summary" \in answer THEN {"executive_summary"} ELSE {"objective"} \cap filled)
        \cup ({"kpi", "baselineModel", "candidateModels"} \cap filled)
        \cup ({"key_findings", "recommendations", "risks"} \cap answer)

BlocksNext ==
    \/ \E f \in EditedFields : FillField(f)
    \/ SwitchRag
    \/ \E b \in AssistedBlocks : ToggleBlock(b) \/ \E id \in DOMAIN ActionsOfBlock(b) : Execute(b, id)
    \/ \E q \in underWay : AgentFails(q) \/ \E fields \in Outputs : AgentAnswers(q, fields)

-----------------------------------------------------------------------------
VARIABLES
    dynMade,    \* history: the cells that were added
    dynOrder,   \* state.cells: their order
    dynCell,    \* of each cell: its type, whether it has a text, its status, the kind of its output
    dynBusy,    \* the cells whose component knows of a run
    dynAsked,   \* prompts under way: the cell and the visit to the canvas
    dynVisit,   \* history: visits to the canvas
    dynRestored \* history: cells that came back from storage as running

dynVars == <<dynMade, dynOrder, dynCell, dynBusy, dynAsked, dynVisit, dynRestored>>

CellsInit ==
    /\ dynMade = {} /\ dynOrder = <<>> /\ dynBusy = {} /\ dynAsked = {} /\ dynVisit = 1 /\ dynRestored = {}
    /\ dynCell = [c \in DynCells |-> [type |-> "prompt", text |-> TRUE, status |-> "idle", output |-> "none"]]

\* The id of a cell is never used again.
AddDynCell(c, type) ==
    /\ c \notin dynMade /\ dynMade' = dynMade \cup {c}
    /\ dynOrder' = Append(dynOrder, c)
    /\ dynCell' = [dynCell EXCEPT ![c] = [type |-> type, text |-> TRUE, status |-> "idle", output |-> "none"]]
    /\ UNCHANGED <<dynBusy, dynAsked, dynVisit, dynRestored>>

EditDynCell(c) ==
    /\ c \in ToSet(dynOrder)
    /\ dynCell' = [dynCell EXCEPT ![c].text = ~@]
    /\ UNCHANGED <<dynMade, dynOrder, dynBusy, dynAsked, dynVisit, dynRestored>>

MoveDynCell(i) ==
    /\ i \in 1 .. Len(dynOrder) - 1
    /\ dynOrder' = [dynOrder EXCEPT ![i] = dynOrder[i + 1], ![i + 1] = dynOrder[i]]
    /\ UNCHANGED <<dynMade, dynCell, dynBusy, dynAsked, dynVisit, dynRestored>>

\* A cell is in the order once.
RemoveDynCell(c) ==
    /\ \E i \in DOMAIN dynOrder : dynOrder[i] = c /\ dynOrder' = RemoveAt(dynOrder, i)
    /\ dynBusy' = dynBusy \ {c}
    /\ UNCHANGED <<dynMade, dynCell, dynAsked, dynVisit, dynRestored>>

\* Only a prompt is sent; an empty one is refused by runAgent before it is.
RunDynCell(c) ==
    /\ c \in ToSet(dynOrder) \ dynBusy
    /\ IF dynCell[c].type = "prompt" /\ dynCell[c].text
       THEN /\ dynCell' = [dynCell EXCEPT ![c].status = "running"]
            /\ dynBusy' = dynBusy \cup {c}
            /\ dynAsked' = dynAsked \cup {[cell |-> c, visit |-> dynVisit]}
       ELSE /\ dynCell' = [dynCell EXCEPT
                   ![c].status = IF dynCell[c].type = "prompt" THEN "failed" ELSE "completed",
                   ![c].output = CASE dynCell[c].type = "markdown" -> "preview"
                                   [] dynCell[c].type = "code" -> "stub" [] OTHER -> @]
            /\ UNCHANGED <<dynBusy, dynAsked>>
    /\ dynRestored' = dynRestored \ {c}
    /\ UNCHANGED <<dynMade, dynOrder, dynVisit>>

\* An answer to a component of an earlier visit changes nothing.
DynAnswers(q, ok) ==
    /\ dynAsked' = dynAsked \ {q}
    /\ IF q.visit = dynVisit /\ q.cell \in ToSet(dynOrder)
       THEN /\ dynBusy' = dynBusy \ {q.cell}
            /\ dynCell' = [dynCell EXCEPT ![q.cell].status = IF ok THEN "completed" ELSE "failed",
                                          ![q.cell].output = IF ok THEN "agent" ELSE @]
       ELSE UNCHANGED <<dynBusy, dynCell>>
    /\ UNCHANGED <<dynMade, dynOrder, dynVisit, dynRestored>>

\* The canvas is left and opened again: the cells come back as they were stored.
ReopenCells ==
    /\ dynVisit < MaxAnswers
    /\ dynVisit' = dynVisit + 1 /\ dynBusy' = {}
    /\ dynRestored' = {c \in DynCells : dynCell[c].status = "running"}
    /\ UNCHANGED <<dynMade, dynOrder, dynCell, dynAsked>>

CellsNext ==
    \/ \E c \in DynCells :
          \/ EditDynCell(c) \/ RemoveDynCell(c) \/ RunDynCell(c)
          \/ \E type \in {"prompt", "markdown", "code"} : AddDynCell(c, type)
    \/ \E i \in 1 .. Cardinality(DynCells) : MoveDynCell(i)
    \/ \E q \in dynAsked, ok \in BOOLEAN : DynAnswers(q, ok)
    \/ ReopenCells

-----------------------------------------------------------------------------
VARIABLES drawerOpen, queryMode, queryBusy, queried, drawerResult, drawerError, statsKnown
drawerVars == <<drawerOpen, queryMode, queryBusy, queried, drawerResult, drawerError, statsKnown>>

\* The drawer stays mounted when it is closed: its state survives.
DrawerInit ==
    /\ drawerOpen = FALSE /\ queryMode = "answer" /\ queryBusy = FALSE /\ queried = "none"
    /\ drawerResult = "none" /\ drawerError = FALSE /\ statsKnown = FALSE

ToggleDrawer ==
    /\ drawerOpen' = ~drawerOpen
    /\ UNCHANGED <<queryMode, queryBusy, queried, drawerResult, drawerError, statsKnown>>
StatsArrive ==
    /\ drawerOpen /\ ~statsKnown /\ statsKnown' = TRUE
    /\ UNCHANGED <<drawerOpen, queryMode, queryBusy, queried, drawerResult, drawerError>>
ChooseMode(m) ==
    /\ drawerOpen /\ queryMode' = m
    /\ UNCHANGED <<drawerOpen, queryBusy, queried, drawerResult, drawerError, statsKnown>>
Query ==
    /\ drawerOpen /\ ~queryBusy
    /\ queryBusy' = TRUE /\ queried' = queryMode /\ drawerError' = FALSE
    /\ UNCHANGED <<drawerOpen, queryMode, drawerResult, statsKnown>>
QueryAnswers(sources) ==
    /\ queryBusy /\ queryBusy' = FALSE
    /\ drawerResult' = IF sources THEN queried ELSE "empty"
    /\ UNCHANGED <<drawerOpen, queryMode, queried, drawerError, statsKnown>>
QueryFails ==
    /\ queryBusy /\ queryBusy' = FALSE /\ drawerError' = TRUE
    /\ UNCHANGED <<drawerOpen, queryMode, queried, drawerResult, statsKnown>>

\* What the drawer shows: an answer only in the mode that asks for one, the
\* sources whatever the mode is now.
DrawerShows ==
    {part \in {"answer", "sources", "nothing found", "hint", "error"} : drawerOpen /\
        CASE part = "answer" -> drawerResult = "answer" /\ queryMode = "answer"
          [] part = "sources" -> drawerResult \in {"answer", "search"}
          [] part = "nothing found" -> drawerResult = "empty" /\ ~queryBusy
          [] part = "hint" -> drawerResult = "none" /\ ~queryBusy
          [] OTHER -> drawerError}

DrawerNext ==
    \/ ToggleDrawer \/ StatsArrive \/ Query \/ QueryFails
    \/ \E m \in {"answer", "search"} : ChooseMode(m)
    \/ \E sources \in BOOLEAN : QueryAnswers(sources)

-----------------------------------------------------------------------------
CanvasAgentsTypeOK ==
    /\ unfolded \subseteq CanvasBlocks /\ warnings \in 0 .. numbered /\ concerned \in 0 .. numbered
    /\ \A q \in underWay : q.request.told \subseteq ToldOf(q.block)
    /\ ToSet(dynOrder) \subseteq DynCells /\ dynBusy \subseteq ToSet(dynOrder)
    /\ queryBusy => queried # "none"

\* While no block is folded under a request, a block has one request under
\* way, the one its buttons wait for, and the warnings of the data block are
\* those of the last answer that had any. A free cell is shown as running
\* exactly while its prompt is under way, unless it came back from storage.
AnswersInTheirPlace ==
    /\ refolded \/ (warnings = concerned /\
          \A b \in CanvasBlocks :
              LET mine == {q \in underWay : q.block = b}
              IN  Cardinality(mine) <= 1 /\ (mine # {}) = (busyId[b] # NoAction))
    /\ \A c \in ToSet(dynOrder) \ dynRestored :
          (dynCell[c].status = "running") = (\E q \in dynAsked : q.cell = c /\ q.visit = dynVisit)
=============================================================================
