---------------------------- MODULE ResultsPanel ----------------------------
(***************************************************************************)
(* The panel of results and the progress line of the workbench: what each  *)
(* tab shows of what there is, how far the steps are, and the comparison   *)
(* of runs. The runs to compare are ticked by their place in the list, the *)
(* newest run first, and the list grows at the front with every run.       *)
(***************************************************************************)
EXTENDS Integers, Sequences, FiniteSets, SequencesExt

CONSTANTS
    Value,      \* the metrics of each run: a function from metrics to numbers
    LowerIsBetter, \* the metrics whose name says a lower value is better
    MaxListed   \* bound: runs

ASSUME PanelAssumption ==
    /\ MaxListed \in Nat /\ DOMAIN Value = 1 .. MaxListed
    /\ \A r \in DOMAIN Value : \A m \in DOMAIN Value[r] : Value[r][m] \in Int

VARIABLES
    listedRuns,     \* the runs of the history, the oldest first
    picked,     \* selectedRunIdxs: places in the reversed history
    comparing,  \* showCompare
    ticked,     \* history: the runs that were under the ticks when they were set
    grown,      \* history: the list grew while runs were ticked
    panelTab,   \* the tab of the panel
    panelFrame, \* the panel is folded, over the whole screen or neither
    facts       \* what the application has, of what the panel can show

compareVars == <<listedRuns, picked, comparing, ticked, grown>>
panelVars == <<panelTab, panelFrame, facts>>
resultsVars == <<compareVars, panelVars>>

PanelTabs == {"summary", "results", "history", "logs", "charts", "tables", "files", "parameters", "ai",
         "report"}
Facts == {"trainErr", "trainResult", "predictPreview", "history", "plot", "preview", "datasets",
          "training"}

PanelInit ==
    /\ listedRuns = <<>> /\ picked = <<>> /\ comparing = FALSE /\ ticked = {} /\ grown = FALSE
    /\ panelTab = "results" /\ panelFrame = "open" /\ facts = {}

-----------------------------------------------------------------------------
\* The runs as they are shown, and those of the ticked places.
HistoryRuns == Reverse(listedRuns)
SelectedRuns == {HistoryRuns[i] : i \in {j \in DOMAIN HistoryRuns : j \in ToSet(picked)}}
CanCompare == Len(picked) >= 2
TableShown == panelTab = "history" /\ comparing /\ CanCompare

\* A run ends, or several: the history is read again.
HistoryLoads(n) ==
    /\ n > Len(listedRuns)
    /\ listedRuns' = [i \in 1 .. n |-> i]
    /\ grown' = (grown \/ picked # <<>>)
    /\ UNCHANGED <<picked, comparing, ticked, panelVars>>

\* toggleRunSelection: a fourth tick is ignored.
ToggleRun(i) ==
    /\ panelTab = "history" /\ i \in DOMAIN HistoryRuns
    /\ IF i \in ToSet(picked)
       THEN /\ \E k \in DOMAIN picked : picked[k] = i /\ picked' = RemoveAt(picked, k)
            /\ ticked' = IF picked' = <<>> THEN {} ELSE ticked \ {HistoryRuns[i]}
       ELSE /\ Len(picked) < 3
            /\ picked' = Append(picked, i) /\ ticked' = ticked \cup {HistoryRuns[i]}
    /\ grown' = (grown /\ picked' # <<>>)
    /\ UNCHANGED <<listedRuns, comparing, panelVars>>

\* Once asked for, the table comes back with the second tick.
ToggleCompare ==
    /\ panelTab = "history" /\ CanCompare
    /\ comparing' = ~comparing
    /\ UNCHANGED <<listedRuns, picked, ticked, grown, panelVars>>

ClearRuns ==
    /\ panelTab = "history" /\ picked # <<>>
    /\ picked' = <<>> /\ comparing' = FALSE /\ ticked' = {} /\ grown' = FALSE
    /\ UNCHANGED <<listedRuns, panelVars>>

\* The columns are in the order of the ticks; the star goes to the first of
\* the best values, of the runs that have the metric.
RunColumns == [k \in DOMAIN picked |-> HistoryRuns[picked[k]]]
MetricKeys == UNION {DOMAIN Value[r] : r \in SelectedRuns}
Beats(m, a, b) == IF m \in LowerIsBetter THEN Value[a][m] < Value[b][m] ELSE Value[a][m] > Value[b][m]
BestColumn_HigherIsBetter(m) ==
    LET best[k \in 0 .. Len(RunColumns)] ==
            IF k = 0 THEN 0
            ELSE LET b == best[k - 1]
                 IN  IF \/ m \notin DOMAIN Value[RunColumns[k]]
                        \/ b # 0 /\ ~(Value[RunColumns[k]][m] > Value[RunColumns[b]][m])
                     THEN b ELSE k
    IN  best[Len(RunColumns)]

BestColumn(m) ==
    LET best[k \in 0 .. Len(RunColumns)] ==
            IF k = 0 THEN 0
            ELSE LET b == best[k - 1]
                 IN  IF \/ m \notin DOMAIN Value[RunColumns[k]]
                        \/ b # 0 /\ ~Beats(m, RunColumns[k], RunColumns[b])
                     THEN b ELSE k
    IN  best[Len(RunColumns)]

CompareNext ==
    \/ \E n \in 1 .. MaxListed : HistoryLoads(n)
    \/ \E i \in 1 .. MaxListed : ToggleRun(i)
    \/ ToggleCompare \/ ClearRuns
    \/ panelTab # "history" /\ panelTab' = "history" /\ UNCHANGED <<compareVars, panelFrame, facts>>

-----------------------------------------------------------------------------
\* What a tab shows, the first of the alternatives there is.
FirstOf(alternatives) ==
    LET there == {k \in DOMAIN alternatives : alternatives[k] \in facts}
    IN  IF there = {} THEN "nothing yet"
        ELSE alternatives[CHOOSE k \in there : \A j \in there : k <= j]

ResultsBody == FirstOf(<<"trainErr", "trainResult", "predictPreview", "history">>)
TablesBody == FirstOf(<<"preview", "predictPreview">>)
SummaryBody == [training |-> FirstOf(<<"trainResult">>), last |-> FirstOf(<<"history">>)]
PanelBody ==
    CASE panelTab = "results" -> ResultsBody
      [] panelTab = "tables" -> TablesBody
      [] panelTab = "summary" -> SummaryBody.training
      [] panelTab = "charts" -> FirstOf(<<"plot">>)
      [] panelTab = "files" -> FirstOf(<<"datasets">>)
      [] panelTab = "parameters" -> FirstOf(<<"trainResult">>)
      [] panelTab = "history" -> FirstOf(<<"history">>)
      [] OTHER -> "nothing yet"

\* How far the steps are; the one that is open is at least in progress.
StepDone(step) ==
    CASE step = 2 -> "datasets" \in facts
      [] step = 3 -> "trainResult" \in facts
      [] step = 4 -> facts \cap {"trainResult", "predictPreview"} # {}
      [] step = 5 -> "history" \in facts
      [] OTHER -> FALSE
StepStatus(step, openStep) ==
    CASE StepDone(step) -> "done"
      [] /\ ~StepDone(step)
         /\ step = openStep \/ (step = 3 /\ "training" \in facts) -> "in_progress"
      [] OTHER -> "todo"
StepNeighbours(openStep) == {openStep - 1, openStep + 1} \cap (1 .. 6)

\* The line of phases: those before the current one are done.
PhaseOf ==
    IF "training" \in facts THEN 4
    ELSE IF facts \cap {"trainResult", "predictPreview"} # {} THEN 7 ELSE 1
PhaseState(p) == CASE p < PhaseOf -> "done" [] p = PhaseOf -> "active" [] OTHER -> "future"

ChooseTab(t) ==
    /\ panelFrame # "folded" /\ t # panelTab /\ panelTab' = t
    /\ UNCHANGED <<compareVars, panelFrame, facts>>

FrameThePanel(f) ==
    /\ f # panelFrame /\ panelFrame' = f
    /\ UNCHANGED <<compareVars, panelTab, facts>>

FactChanges(f) ==
    /\ facts' = IF f \in facts THEN facts \ {f} ELSE facts \cup {f}
    /\ UNCHANGED <<compareVars, panelTab, panelFrame>>

SizeNext == \E f \in {"open", "folded", "fullscreen"} : FrameThePanel(f)
PanelViewNext ==
    \/ \E t \in PanelTabs : ChooseTab(t)
    \/ \E f \in Facts : FactChanges(f)

ResultsNext == CompareNext \/ SizeNext \/ PanelViewNext
PanelSpec == PanelInit /\ [][ResultsNext]_resultsVars

-----------------------------------------------------------------------------
PanelTypeOK ==
    /\ ToSet(picked) \subseteq 1 .. MaxListed /\ Len(picked) <= 3
    /\ {comparing, grown} \subseteq BOOLEAN
    /\ panelTab \in PanelTabs /\ facts \subseteq Facts
    /\ PanelBody \in Facts \cup {"nothing yet"}
    /\ \A s \in 1 .. 6 : StepStatus(s, 1) \in {"done", "in_progress", "todo"}

\* The table compares the runs the user ticked, two or three of them, unless
\* the list grew after the first tick; and a star marks no value that another
\* run of the table beats.
TableComparesTicked ==
    TableShown =>
        /\ ~grown => SelectedRuns = ticked /\ Cardinality(ticked) \in 2 .. 3
        /\ \A m \in MetricKeys :
            LET b == BestColumn(m)
            IN  /\ b # 0
                /\ \A r \in SelectedRuns : m \in DOMAIN Value[r] => ~Beats(m, r, RunColumns[b])

=============================================================================
