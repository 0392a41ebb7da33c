----------------------------- MODULE NotebookV2 -----------------------------
(***************************************************************************)
(* The notebook page of experimentV2, which the application keeps but does *)
(* not route to. Its handlers read the cells of the render they were made  *)
(* in; everything, "running" and "run all" included, is in what is stored. *)
(***************************************************************************)
EXTENDS Naturals, Sequences, FiniteSets, SequencesExt

CONSTANTS
    Sheets,      \* the ids of cells
    SheetKinds,  \* bound: the types the user chooses
    MaxPrompts   \* bound: prompts sent to the model

SheetTypes == {"prompt", "code", "sql", "markdown", "result"}

ASSUME NotebookV2Assumption == Sheets # {} /\ SheetKinds \subseteq SheetTypes /\ MaxPrompts \in Nat

VARIABLES
    nbOpen,      \* the page is mounted
    sheet,       \* the cells, in order: id, type, status, output
    used,        \* the ids given so far
    activeCell,  \* activeCellId
    isRunning,   \* "run all" is on, as the page says
    runAll,      \* handleRunAll: on, and the cells left as they were when it began
    prompts,     \* the prompts sent: cell, by whom, stage
    twice,       \* history: cells run again while a prompt of theirs was out
    stuckCells   \* history: cells that were stored as running

nbVars == <<nbOpen, sheet, used, activeCell, isRunning, runAll, prompts,
            twice, stuckCells>>
nbRest == <<nbOpen, stuckCells, isRunning, runAll, prompts, twice>>

Convertible == SheetKinds \ {"result"}

NewCell(c, t) == [id |-> c, type |-> t, status |-> "idle", out |-> "none"]
IndexOf(c) == {i \in DOMAIN sheet : sheet[i].id = c}
OnSheet(c) == IndexOf(c) # {}
PlaceOf(c) == CHOOSE i \in IndexOf(c) : TRUE
CellAt(c) == sheet[PlaceOf(c)]

\* patchCell: nothing happens to a cell that is gone.
PatchCell(c, status, out) ==
    sheet' = [i \in DOMAIN sheet |->
                IF sheet[i].id = c THEN [sheet[i] EXCEPT !.status = status, !.out = out]
                ELSE sheet[i]]

SetStatus(c, status) ==
    sheet' = [i \in DOMAIN sheet |->
                IF sheet[i].id = c THEN [sheet[i] EXCEPT !.status = status] ELSE sheet[i]]

StarterCells(c) == <<NewCell(c, "prompt")>>

NotebookInit ==
    /\ nbOpen = TRUE
    /\ LET c == CHOOSE s \in Sheets : TRUE
       IN  sheet = StarterCells(c) /\ used = {c} /\ activeCell = c
    /\ isRunning = FALSE /\ runAll = [on |-> FALSE, left |-> <<>>]
    /\ prompts = <<>>
    /\ twice = {} /\ stuckCells = {}

Insert(c, t, at) ==
    /\ c \notin used
    /\ sheet' = InsertAt(sheet, at, NewCell(c, t))
    /\ used' = used \cup {c} /\ activeCell' = c

\* addCell: after the given one, at the end when there is none. A quick action
\* of the left side does the same and chooses the agent.
AddCellV2(c, t, after) ==
    /\ nbOpen
    /\ Insert(c, t, IF OnSheet(after) THEN PlaceOf(after) + 1 ELSE Len(sheet) + 1)
    /\ UNCHANGED nbRest

DuplicateCell(c, copy) ==
    /\ nbOpen /\ OnSheet(c)
    /\ Insert(copy, CellAt(c).type, PlaceOf(c) + 1)
    /\ UNCHANGED nbRest

\* submitInstruction: the cell is added and runCell is called for it; but this
\* runCell is of the render before, does not find the cell and returns.
SubmitInstruction(c) ==
    /\ nbOpen
    /\ Insert(c, "prompt", Len(sheet) + 1)
    /\ UNCHANGED nbRest

\* What a cell shows and offers (NotebookCell.jsx).
CellMarker(cell) ==
    CASE cell.status = "running" -> "*" [] cell.status = "complete" -> "number"
      [] cell.status = "error" -> "!" [] OTHER -> "blank"
CellTools(i) ==
    {"collapse", "duplicate", "delete", "title"}
        \cup {t \in {"convert"} : sheet[i].type \in Convertible}
        \cup {t \in {"up"} : i # 1} \cup {t \in {"down"} : i < Len(sheet)}
CellRunnable(cell) == cell.status # "running"
CellOutput(cell) ==
    IF cell.out = "none" THEN "nothing"
    ELSE IF cell.type = "markdown" THEN "preview" ELSE cell.out

\* A click or the focus inside a cell; its buttons get the focus too.
ActivateCell(c) ==
    /\ nbOpen /\ OnSheet(c) /\ activeCell # c
    /\ activeCell' = c
    /\ UNCHANGED <<sheet, used, nbRest>>

\* removeCell, of the one cell with this id: the active cell becomes the first
\* of those before the removal, which may be the one removed.
RemoveCellV2(c) ==
    /\ nbOpen /\ OnSheet(c)
    /\ sheet' = RemoveAt(sheet, PlaceOf(c))
    /\ activeCell' = IF activeCell = c THEN sheet[1].id ELSE activeCell
    /\ UNCHANGED <<used, nbRest>>

MoveCellV2(i, tool) ==
    /\ nbOpen /\ i \in DOMAIN sheet /\ tool \in CellTools(i) \cap {"up", "down"}
    /\ LET j == IF tool = "up" THEN i - 1 ELSE i + 1
       IN  sheet' = [sheet EXCEPT ![i] = sheet[j], ![j] = sheet[i]]
    /\ UNCHANGED <<used, activeCell, nbRest>>

ConvertCell(i, t) ==
    /\ nbOpen /\ i \in DOMAIN sheet /\ "convert" \in CellTools(i) /\ t # sheet[i].type
    /\ sheet' = [sheet EXCEPT ![i].type = t]
    /\ UNCHANGED <<used, activeCell, nbRest>>

-----------------------------------------------------------------------------
PendingOf(c) == {p \in DOMAIN prompts : prompts[p].cell = c /\ prompts[p].stage = "sent"}

\* runCell of a cell that needs no model: a preview, a note that there is no
\* runner yet, or nothing but an entry of the timeline.
RunWithoutModel(cell) ==
    /\ CASE cell.type = "markdown" -> PatchCell(cell.id, "complete", "preview")
         [] cell.type \in {"code", "sql"} -> PatchCell(cell.id, "complete", "stub")
         [] OTHER -> UNCHANGED sheet
    /\ UNCHANGED prompts

SendPrompt(cell, by) ==
    /\ Len(prompts) < MaxPrompts
    /\ prompts' = Append(prompts, [cell |-> cell.id, by |-> by, stage |-> "sent"])
    /\ PatchCell(cell.id, "running", "none")

RunCellV2(cell, by) ==
    /\ IF cell.type = "prompt" THEN SendPrompt(cell, by) ELSE RunWithoutModel(cell)
    /\ twice' = IF PendingOf(cell.id) = {} THEN twice \ {cell.id} ELSE twice \cup {cell.id}
    /\ stuckCells' = stuckCells \ {cell.id}

RunOne(i) ==
    /\ nbOpen /\ i \in DOMAIN sheet /\ CellRunnable(sheet[i])
    /\ RunCellV2(sheet[i], "user")
    /\ UNCHANGED <<nbOpen, used, activeCell, isRunning, runAll>>

PromptAnswers(p, ok) ==
    /\ nbOpen /\ p \in DOMAIN prompts /\ prompts[p].stage = "sent"
    /\ prompts' = [prompts EXCEPT ![p].stage = "over"]
    /\ IF ok THEN PatchCell(prompts[p].cell, "complete", "agent")
       ELSE SetStatus(prompts[p].cell, "error")
    /\ UNCHANGED <<nbOpen, stuckCells, used, activeCell, isRunning, runAll, twice>>

\* handleRunAll: one after the other, the cells as they were at the click,
\* those deleted or running since included; other types are passed over.
RunAll ==
    /\ nbOpen /\ ~isRunning
    /\ isRunning' = TRUE
    /\ runAll' = [on |-> TRUE,
                  left |-> [i \in DOMAIN sheet |-> [id |-> sheet[i].id, type |-> sheet[i].type]]]
    /\ UNCHANGED <<nbOpen, stuckCells, sheet, used, activeCell, prompts, twice>>

NextOfAll ==
    /\ nbOpen /\ runAll.on
    /\ \A p \in DOMAIN prompts : prompts[p].by = "all" => prompts[p].stage = "over"
    /\ IF runAll.left = <<>>
       THEN /\ runAll' = [on |-> FALSE, left |-> <<>>] /\ isRunning' = FALSE
            /\ UNCHANGED <<sheet, prompts, twice, stuckCells>>
       ELSE /\ IF Head(runAll.left).type \in {"prompt", "code", "sql"}
               THEN RunCellV2(Head(runAll.left), "all")
               ELSE UNCHANGED <<sheet, prompts, twice, stuckCells>>
            /\ runAll' = [runAll EXCEPT !.left = Tail(@)]
            /\ UNCHANGED isRunning
    /\ UNCHANGED <<nbOpen, used, activeCell>>

-----------------------------------------------------------------------------
\* Every change is stored half a second later; ActivityStore has what is lost
\* when the page is left before.
LeaveNotebook ==
    /\ nbOpen
    /\ nbOpen' = FALSE
    /\ prompts' = [p \in DOMAIN prompts |-> [prompts[p] EXCEPT !.stage = "over"]]
    /\ runAll' = [on |-> FALSE, left |-> <<>>]
    /\ UNCHANGED <<sheet, used, activeCell, isRunning, twice, stuckCells>>

\* hydrate: what was stored, a cell or "run all" that was running as running;
\* the starter cells if there was no cell.
ReturnToNotebook ==
    /\ ~nbOpen
    /\ nbOpen' = TRUE
    /\ IF sheet # <<>> \/ used = Sheets THEN UNCHANGED <<sheet, used>>
       ELSE \E c \in Sheets \ used : sheet' = StarterCells(c) /\ used' = used \cup {c}
    /\ stuckCells' = {c \in Sheets : OnSheet(c) /\ CellAt(c).status = "running"}
    /\ twice' = {}
    /\ UNCHANGED <<activeCell, isRunning, runAll, prompts>>

NotebookNext ==
    \/ \E c, d \in Sheets, t \in Convertible :
            \/ AddCellV2(c, t, d) \/ SubmitInstruction(c) \/ DuplicateCell(c, d) \/ ActivateCell(c)
            \/ RemoveCellV2(c)
    \/ \E i \in 1 .. Cardinality(Sheets), t \in Convertible, tool \in {"up", "down"} :
            MoveCellV2(i, tool) \/ ConvertCell(i, t) \/ RunOne(i)
    \/ RunAll \/ NextOfAll \/ LeaveNotebook \/ ReturnToNotebook
    \/ \E p \in 1 .. MaxPrompts, ok \in BOOLEAN : PromptAnswers(p, ok)

NotebookSpec == NotebookInit /\ [][NotebookNext]_nbVars

-----------------------------------------------------------------------------
NotebookV2TypeOK ==
    /\ \A i \in DOMAIN sheet :
        /\ sheet[i].id \in Sheets /\ sheet[i].type \in SheetTypes
        /\ sheet[i].status \in {"idle", "running", "complete", "error"}
        /\ CellOutput(sheet[i]) \in {"nothing", "preview", "stub", "agent"}
    /\ activeCell \in Sheets
    /\ {nbOpen, isRunning} \subseteq BOOLEAN

\* A cell says it runs only while a prompt of it is out, however often it was
\* sent, unless it was stored while it ran; and while a prompt is out it says
\* so, unless the prompt was sent again before the answer.
SheetShowsItsRun ==
    \A i \in DOMAIN sheet :
        (nbOpen /\ sheet[i].id \notin stuckCells) =>
            /\ sheet[i].status = "running" => PendingOf(sheet[i].id) # {}
            /\ PendingOf(sheet[i].id) # {} =>
                   sheet[i].status = "running" \/ sheet[i].id \in twice

=============================================================================
