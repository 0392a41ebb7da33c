----------------------------- MODULE CanvasRun -----------------------------
(***************************************************************************)
(* The run block of the experiment canvas and the records of its runs. A   *)
(* run is an asynchronous loop over the phases that looks at its token     *)
(* after every pause; the block, the records and the slots of the          *)
(* comparison are one state that is stored after every pause of 400 ms.    *)
(* Resetting the notebook stops no loop.                                   *)
(***************************************************************************)
EXTENDS Integers, Sequences, FiniteSets, SequencesExt

CONSTANTS
    PhaseCount,     \* the phases of RUN_PHASES (6), a stage being the number of its phase
    RecordsKept,    \* the runs kept in the history (50)
    MaxCanvasRuns   \* bound: runs started

ASSUME CanvasRunAssumption == {PhaseCount, RecordsKept} \subseteq Nat \ {0} /\ MaxCanvasRuns \in Nat

VARIABLES
    canvasOpen,   \* the canvas is on the screen
    runBlock,     \* state.run: the stage, the run it was set by, the run its metrics are of
    loops,        \* the runs whose loop goes on: the phase, and whether the token is cancelled
    canvasAbort,     \* the run whose token the stop button cancels
    records,      \* state.runs, the newest first
    slots,        \* compare.runA and compare.runB
    keptCanvas,   \* what is stored of the three
    canvasStarts, \* history: runs started
    astray        \* history: the notebook was reset under a run

canvasData == <<runBlock, records, slots>>
canvasRunVars == <<canvasOpen, canvasData, loops, canvasAbort, keptCanvas, canvasStarts, astray>>

NoRun == 0
Idle == 0
Completed == PhaseCount + 1
Resting == {Idle, Completed}
FreshBlock == [stage |-> Idle, of |-> NoRun, metrics |-> NoRun]
FreshSlots == [A |-> NoRun, B |-> NoRun]

CanvasRunInit ==
    /\ canvasOpen = TRUE
    /\ runBlock = FreshBlock /\ records = <<>> /\ slots = FreshSlots
    /\ loops = {} /\ canvasAbort = NoRun /\ keptCanvas = <<FreshBlock, <<>>, FreshSlots>>
    /\ canvasStarts = 0 /\ astray = FALSE

-----------------------------------------------------------------------------
\* addRun and patchRun: a run beyond those kept is forgotten, and a change of
\* a run that is not there changes nothing.
AddRun(recs, r) ==
    LET all == <<[id |-> r, status |-> "queued", best |-> FALSE]>> \o recs
    IN  SubSeq(all, 1, IF Len(all) > RecordsKept THEN RecordsKept ELSE Len(all))
PatchRun(recs, r, status) ==
    [i \in DOMAIN recs |-> IF recs[i].id = r THEN [recs[i] EXCEPT !.status = status] ELSE recs[i]]

\* startRun, up to the pause of its first phase.
StartRun ==
    LET r == canvasStarts + 1
    IN  /\ canvasOpen /\ canvasStarts < MaxCanvasRuns
        /\ runBlock.stage \in Resting
        /\ runBlock' = [stage |-> 1, of |-> r, metrics |-> NoRun]
        /\ loops' = loops \cup {[id |-> r, at |-> 1, cancelled |-> FALSE]}
        /\ canvasAbort' = r
        /\ records' = AddRun(records, r)
        /\ canvasStarts' = r
        /\ UNCHANGED <<canvasOpen, slots, keptCanvas, astray>>

\* The pause of a phase is over: the next one, or the metrics.
StopsQuietly(l) ==
    /\ l.cancelled
    /\ loops' = loops \ {l}
    /\ UNCHANGED <<canvasOpen, canvasData, canvasAbort, keptCanvas, canvasStarts, astray>>

NextPhase(l) ==
    /\ ~l.cancelled /\ l.at < PhaseCount
    /\ loops' = (loops \ {l}) \cup {[l EXCEPT !.at = @ + 1]}
    /\ runBlock' = [runBlock EXCEPT !.stage = l.at + 1]
    /\ UNCHANGED <<canvasOpen, records, slots, canvasAbort, keptCanvas, canvasStarts, astray>>

Completes(l) ==
    /\ ~l.cancelled /\ l.at = PhaseCount
    /\ loops' = loops \ {l}
    /\ runBlock' = [runBlock EXCEPT !.stage = Completed, !.metrics = l.id]
    /\ records' = PatchRun(records, l.id, "completed")
    /\ canvasAbort' = NoRun
    /\ UNCHANGED <<canvasOpen, slots, keptCanvas, canvasStarts, astray>>

\* cancel: the record of the run is left as it is.
CancelToken == {IF l.id = canvasAbort THEN [l EXCEPT !.cancelled = TRUE] ELSE l : l \in loops}
CancelRun ==
    /\ canvasOpen /\ runBlock.stage \notin Resting
    /\ loops' = CancelToken
    /\ canvasAbort' = NoRun
    /\ runBlock' = [runBlock EXCEPT !.stage = Idle]
    /\ UNCHANGED <<canvasOpen, records, slots, keptCanvas, canvasStarts, astray>>

\* resetAll: the store is written at once, the loops know nothing of it.
ResetCanvas ==
    /\ canvasOpen
    /\ runBlock' = FreshBlock /\ records' = <<>> /\ slots' = FreshSlots
    /\ keptCanvas' = <<FreshBlock, <<>>, FreshSlots>>
    /\ astray' = (astray \/ \E l \in loops : ~l.cancelled)
    /\ UNCHANGED <<canvasOpen, loops, canvasAbort, canvasStarts>>

\* 400 ms without a change.
CanvasSaved ==
    /\ canvasOpen /\ keptCanvas # canvasData
    /\ keptCanvas' = canvasData
    /\ UNCHANGED <<canvasOpen, canvasData, loops, canvasAbort, canvasStarts, astray>>

\* The page is left: what its loops still set is dropped, and what was not
\* stored is lost. On return the stored stage has no loop.
LeaveCanvas ==
    /\ canvasOpen
    /\ canvasOpen' = FALSE /\ loops' = {} /\ canvasAbort' = NoRun
    /\ UNCHANGED <<canvasData, keptCanvas, canvasStarts, astray>>

ReturnToCanvas ==
    /\ ~canvasOpen
    /\ canvasOpen' = TRUE
    /\ runBlock' = keptCanvas[1] /\ records' = keptCanvas[2] /\ slots' = keptCanvas[3]
    /\ UNCHANGED <<loops, canvasAbort, keptCanvas, canvasStarts, astray>>

-----------------------------------------------------------------------------
\* The history and the comparison.
SlotRun(slot) ==
    LET named == SelectSeq(records, LAMBDA rec : rec.id = slots[slot])
        place == IF slot = "A" THEN 1 ELSE 2
    IN  CASE named # <<>> -> named[1].id
          [] named = <<>> /\ place \in DOMAIN records -> records[place].id
          [] OTHER -> NoRun
HasMetrics(r) == \E i \in DOMAIN records : records[i].id = r /\ records[i].status = "completed"
DeltasShown == HasMetrics(SlotRun("A")) /\ HasMetrics(SlotRun("B"))

\* The buttons of a row of the history and of the two slots.
PickForSlot(slot, r) ==
    /\ canvasOpen /\ \E i \in DOMAIN records : records[i].id = r
    /\ slots' = [slots EXCEPT ![slot] = r]
    /\ UNCHANGED <<canvasOpen, runBlock, records, loops, canvasAbort, keptCanvas, canvasStarts, astray>>

MarkBest(r) ==
    /\ canvasOpen /\ \E i \in DOMAIN records : records[i].id = r
    /\ records' = [i \in DOMAIN records |-> [records[i] EXCEPT !.best = (records[i].id = r)]]
    /\ UNCHANGED <<canvasOpen, runBlock, slots, loops, canvasAbort, keptCanvas, canvasStarts, astray>>

\* The run the report tells of.
BestRun ==
    LET best == SelectSeq(records, LAMBDA rec : rec.best)
    IN  CASE best # <<>> -> best[1].id
          [] best = <<>> /\ records # <<>> -> records[1].id
          [] OTHER -> NoRun
ReportedMetrics == IF HasMetrics(BestRun) THEN BestRun ELSE runBlock.metrics

CanvasRunNext ==
    \/ StartRun \/ CancelRun \/ ResetCanvas \/ CanvasSaved \/ LeaveCanvas \/ ReturnToCanvas
    \/ \E l \in loops : StopsQuietly(l) \/ NextPhase(l) \/ Completes(l)
    \/ \E r \in 1 .. MaxCanvasRuns : MarkBest(r) \/ \E s \in {"A", "B"} : PickForSlot(s, r)

CanvasRunSpec == CanvasRunInit /\ [][CanvasRunNext]_canvasRunVars

-----------------------------------------------------------------------------
CanvasRunTypeOK ==
    /\ canvasOpen \in BOOLEAN /\ astray \in BOOLEAN
    /\ runBlock.stage \in 0 .. PhaseCount + 1
    /\ runBlock.of \in 0 .. MaxCanvasRuns /\ runBlock.metrics \in 0 .. MaxCanvasRuns
    /\ Len(records) <= RecordsKept

\* At most one run is marked the best. Unless the notebook was reset under a
\* run, whose loop then goes on beside the next one, one run at a time drives
\* the block, the stop button holds its token and the block shows its phase;
\* the metrics shown are those of the newest run, whose record has completed.
BlockShowsItsRun ==
    LET live == {l \in loops : ~l.cancelled}
    IN  /\ \A i, j \in DOMAIN records : records[i].best /\ records[j].best => i = j
        /\ astray \/
            /\ \A l, m \in live : l = m
            /\ \A l \in live : canvasAbort = l.id /\ runBlock.of = l.id /\ runBlock.stage = l.at
            /\ runBlock.metrics # NoRun =>
                   /\ runBlock.metrics = records[1].id /\ HasMetrics(runBlock.metrics)
                   /\ runBlock.stage = Completed
=============================================================================
