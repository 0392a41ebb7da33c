---------------------------- MODULE ActivityPage ----------------------------
(***************************************************************************)
(* The cells of an activity on the experiment page (experimentV3): they    *)
(* are added, moved, deleted and run, code in the kernel and prompts and   *)
(* SQL by the model. One field says which cell runs, but nothing keeps     *)
(* several from running at once: any cell may be run from the keyboard at  *)
(* any time. KernelRegistry has the other side of the requests.            *)
(***************************************************************************)
EXTENDS Naturals, Sequences, FiniteSets, SequencesExt

CONSTANTS
    Cells,     \* the ids of cells
    NoCell,    \* no cell
    CellTypes,   \* bound: the types the user chooses
    MaxCellRuns \* bound: runs

Types == {"prompt", "sql", "code", "markdown"}

ASSUME PageAssumption == NoCell \notin Cells /\ CellTypes \subseteq Types /\ MaxCellRuns \in Nat

VARIABLES
    onPage,      \* the page is mounted
    order,       \* the cells of the activity, in their order
    kind,        \* their type
    cellState,   \* their status and the run their outputs are of, 0 for none
    cellRuns,    \* the runs begun: cell, type and stage of each
    runningCell, \* runningCellId
    active,      \* activeCellId
    kernel,      \* what useKernel knows: ready, starting, busy
    restored,    \* history: cells that were running when the page was left
    overlapped   \* history: cells run again while a run of theirs was on

pageVars == <<onPage, order, kind, cellState, cellRuns, runningCell, active, kernel,
              restored, overlapped>>
keepPage == UNCHANGED <<onPage, order, kind, restored>>

Fresh == [status |-> "idle", outputs |-> 0]

ExecutesInFlight(c) == {r \in DOMAIN cellRuns : cellRuns[r].cell = c /\ cellRuns[r].stage # "over"}
NewestRun(c) ==
    LET rs == {r \in DOMAIN cellRuns : cellRuns[r].cell = c}
    IN  IF rs = {} THEN 0 ELSE CHOOSE r \in rs : \A q \in rs : q <= r
Present(c) == \E i \in DOMAIN order : order[i] = c

PageInit ==
    /\ onPage = TRUE
    /\ order = <<>>
    /\ kind = [c \in Cells |-> "prompt"]
    /\ cellState = [c \in Cells |-> Fresh]
    /\ cellRuns = <<>>
    /\ runningCell = NoCell /\ active = NoCell
    /\ kernel = [ready |-> FALSE, starting |-> TRUE, busy |-> TRUE]   \* autoStart
    /\ restored = {} /\ overlapped = {}

\* From a template or a button at the end, after another cell, or by the
\* uploader's note. Ids are not used again.
AddCell(c, t, i) ==
    /\ onPage /\ ~Present(c) /\ \A r \in DOMAIN cellRuns : cellRuns[r].cell # c
    /\ order' = InsertAt(order, i, c)
    /\ kind' = [kind EXCEPT ![c] = t]
    /\ UNCHANGED <<onPage, cellState, cellRuns, runningCell, active, kernel, restored, overlapped>>

MoveCell(i, j) ==
    /\ onPage /\ {i, j} \subseteq DOMAIN order /\ (j = i + 1 \/ i = j + 1)
    /\ order' = [order EXCEPT ![i] = order[j], ![j] = order[i]]
    /\ UNCHANGED <<onPage, kind, cellState, cellRuns, runningCell, active, kernel, restored,
                   overlapped>>

\* Deleting does not stop a run. A cell is in the order once.
RemoveCell(c) ==
    /\ onPage
    /\ \E i \in DOMAIN order : order[i] = c /\ order' = RemoveAt(order, i)
    /\ cellState' = [cellState EXCEPT ![c] = Fresh]
    /\ restored' = restored \ {c}
    /\ UNCHANGED <<onPage, kind, cellRuns, runningCell, active, kernel, overlapped>>

FocusCell(c) ==
    /\ onPage /\ Present(c) /\ active # c
    /\ active' = c
    /\ keepPage /\ UNCHANGED <<cellState, cellRuns, runningCell, kernel, overlapped>>

\* A change of activity or stage, which the runs outlive.
ChangeActivity ==
    /\ onPage /\ active # NoCell
    /\ active' = NoCell
    /\ keepPage /\ UNCHANGED <<cellState, cellRuns, runningCell, kernel, overlapped>>

-----------------------------------------------------------------------------
\* start(): nothing if the kernel is ready or a start is on.
StartKernel ==
    /\ onPage /\ ~kernel.ready /\ ~kernel.starting
    /\ kernel' = [kernel EXCEPT !.starting = TRUE, !.busy = TRUE]
    /\ keepPage /\ UNCHANGED <<cellState, cellRuns, runningCell, active, overlapped>>

\* The runs that waited for this start go on, whatever came of it.
StartAnswers(ok) ==
    /\ onPage /\ kernel.starting
    /\ LET waiting == {r \in DOMAIN cellRuns : cellRuns[r].stage = "starting"}
       IN  /\ cellRuns' = [r \in DOMAIN cellRuns |->
                             IF r \in waiting THEN [cellRuns[r] EXCEPT !.stage = "asked"]
                             ELSE cellRuns[r]]
           /\ kernel' = [ready |-> ok, starting |-> FALSE, busy |-> waiting # {}]
    /\ keepPage /\ UNCHANGED <<cellState, runningCell, active, overlapped>>

\* runCell, by the keys if not by the button, which is disabled for the cell
\* that runs: the first code finds the kernel not ready and starts it; while
\* it starts, others are sent at once.
RunCell(c) ==
    /\ onPage /\ Present(c) /\ kind[c] # "markdown"
    /\ Len(cellRuns) < MaxCellRuns
    /\ LET starts == kind[c] = "code" /\ ~kernel.ready /\ ~kernel.starting
       IN  /\ cellRuns' = Append(cellRuns, [cell |-> c, kind |-> kind[c],
                                            stage |-> IF starts THEN "starting" ELSE "asked"])
           /\ kernel' = IF starts THEN [kernel EXCEPT !.starting = TRUE, !.busy = TRUE]
                        ELSE [kernel EXCEPT !.busy = @ \/ kind[c] = "code"]
    /\ runningCell' = c
    /\ cellState' = [cellState EXCEPT ![c] = [status |-> "running", outputs |-> 0]]
    /\ overlapped' = IF ExecutesInFlight(c) = {} THEN overlapped \ {c} ELSE overlapped \cup {c}
    /\ restored' = restored \ {c}
    /\ UNCHANGED <<onPage, order, kind, active>>

RunAnswers_OnlyTheLast(r, s) ==
    /\ onPage /\ r \in DOMAIN cellRuns /\ cellRuns[r].stage = "asked"
    /\ LET c == cellRuns[r].cell
       IN  cellState' = IF Present(c) /\ runningCell = c
                        THEN [cellState EXCEPT ![c] = [status |-> s, outputs |-> r]]
                        ELSE cellState
    /\ cellRuns' = [cellRuns EXCEPT ![r].stage = "over"]
    /\ kernel' = [kernel EXCEPT !.busy = @ /\ cellRuns[r].kind # "code"]
    /\ runningCell' = NoCell
    /\ keepPage /\ UNCHANGED <<active, overlapped>>

\* The answer goes to the cell, if it is still there; no cell runs any more.
RunAnswers(r, s) ==
    /\ onPage /\ r \in DOMAIN cellRuns /\ cellRuns[r].stage = "asked"
    /\ LET c == cellRuns[r].cell
       IN  cellState' = IF Present(c)
                        THEN [cellState EXCEPT ![c] = [status |-> s, outputs |-> r]]
                        ELSE cellState
    /\ cellRuns' = [cellRuns EXCEPT ![r].stage = "over"]
    /\ kernel' = [kernel EXCEPT !.busy = @ /\ cellRuns[r].kind # "code"]
    /\ runningCell' = NoCell
    /\ keepPage /\ UNCHANGED <<active, overlapped>>

\* Home or sign-out: what is answered from now on reaches nobody, and the
\* cells come back as they were stored (ActivityStore says when they are).
LeavePage ==
    /\ onPage
    /\ onPage' = FALSE
    /\ cellRuns' = [r \in DOMAIN cellRuns |-> [cellRuns[r] EXCEPT !.stage = "over"]]
    /\ restored' = restored \cup {c \in Cells : cellState[c].status = "running"}
    /\ runningCell' = NoCell /\ active' = NoCell
    /\ kernel' = [ready |-> FALSE, starting |-> FALSE, busy |-> FALSE]
    /\ UNCHANGED <<order, kind, cellState, overlapped>>

ReturnToPage ==
    /\ ~onPage
    /\ onPage' = TRUE
    /\ kernel' = [kernel EXCEPT !.starting = TRUE, !.busy = TRUE]
    /\ UNCHANGED <<order, kind, cellState, cellRuns, runningCell, active, restored, overlapped>>

PageNext ==
    \/ \E c \in Cells, t \in CellTypes, i \in 1 .. Cardinality(Cells) :
            i <= Len(order) + 1 /\ AddCell(c, t, i)
    \/ \E i, j \in 1 .. Cardinality(Cells) : MoveCell(i, j)
    \/ \E c \in Cells : RemoveCell(c) \/ FocusCell(c) \/ RunCell(c)
    \/ ChangeActivity \/ StartKernel \/ LeavePage \/ ReturnToPage
    \/ \E ok \in BOOLEAN : StartAnswers(ok)
    \/ \E r \in 1 .. MaxCellRuns, s \in {"done", "error"} : RunAnswers(r, s)

PageSpec == PageInit /\ [][PageNext]_pageVars

-----------------------------------------------------------------------------
PageTypeOK ==
    /\ \A i \in DOMAIN order : order[i] \in Cells
    /\ kind \in [Cells -> Types]
    /\ \A c \in Cells :
        /\ cellState[c].status \in {"idle", "running", "done", "error"}
        /\ cellState[c].outputs \in 0 .. MaxCellRuns
    /\ \A r \in DOMAIN cellRuns : cellRuns[r].stage \in {"starting", "asked", "over"}
    /\ runningCell \in Cells \cup {NoCell} /\ active \in Cells \cup {NoCell}
    /\ restored \cup overlapped \subseteq Cells

\* Whatever runs and answers overlap: a cell says it runs only while a run of
\* it is on, unless it was running when the page was left (restored, and then
\* nothing ever ends it); and where it says "done" or "error", the outputs under
\* it are of a run of this cell that is over. If also no run of it was begun
\* while another was on, then it says so as long as its run is on, and its
\* outputs are of its newest run.
CellShowsItsRun ==
    \A c \in Cells : Present(c) =>
        /\ cellState[c].status = "running" /\ c \notin restored => ExecutesInFlight(c) # {}
        /\ cellState[c].status \in {"done", "error"} =>
               \E r \in DOMAIN cellRuns :
                   /\ cellState[c].outputs = r
                   /\ cellRuns[r].cell = c /\ cellRuns[r].stage = "over"
        /\ c \notin restored \cup overlapped =>
               /\ ExecutesInFlight(c) # {} => cellState[c].status = "running"
               /\ cellState[c].status \in {"done", "error"} => cellState[c].outputs = NewestRun(c)

=============================================================================
