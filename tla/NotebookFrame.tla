---------------------------- MODULE NotebookFrame ----------------------------
(***************************************************************************)
(* What stands around the notebook of experimentV2: the two sides with     *)
(* their widths, which are dragged, the tabs of the right side, the        *)
(* records and the trace of what happened. A drag remembers the width it   *)
(* began with and follows the pointer wherever it goes; the page stores    *)
(* the widths, and another version may have stored others.                 *)
(***************************************************************************)
EXTENDS Integers, Sequences, FiniteSets

CONSTANTS
    Width,      \* for "left" and "right": lowest, highest and default width
    Reach,      \* bound: how far the pointer goes
    MaxEvents   \* bound: entries of the trace

ASSUME FrameAssumption ==
    /\ \A s \in {"left", "right"} :
          /\ {Width[s].min, Width[s].default, Width[s].max} \subseteq Nat
          /\ Width[s].min <= Width[s].default /\ Width[s].default <= Width[s].max
    /\ Reach \in Nat /\ MaxEvents \in Nat \ {0}

VARIABLES
    column,      \* the width of each side
    collapsed,   \* the sides that are folded
    drag,        \* the side that is dragged and the width it began with
    sideTab,     \* rightPanelTab
    record,      \* the record that is open: the conversation, the prompts or none
    gateway,     \* what the page knows of the model gateway
    events,      \* the actors of the trace, the oldest first
    actorFilter, \* the actor whose entries are listed
    expanded     \* the entry that is unfolded

frameVars == <<column, collapsed, drag, sideTab, record, gateway, events, actorFilter, expanded>>

Sides == {"left", "right"}
NoDrag == [side |-> "none", from |-> 0]

\* clampLeftWidth and clampRightWidth.
Clamped(s, w) ==
    CASE w < Width[s].min -> Width[s].min [] w > Width[s].max -> Width[s].max [] OTHER -> w

\* hydrate: stored widths are clamped too.
FrameInit ==
    /\ \E w \in -Reach .. Reach :
            column = [s \in Sides |-> Clamped(s, Width[s].default + w)]
    /\ collapsed \in SUBSET Sides
    /\ drag = NoDrag /\ sideTab = "summary" /\ record = "none" /\ gateway = "unknown"
    /\ events = <<>> /\ actorFilter = "all" /\ expanded = 0

FoldSide(s) ==
    /\ collapsed' = IF s \in collapsed THEN collapsed \ {s} ELSE collapsed \cup {s}
    /\ UNCHANGED <<column, drag, sideTab, record, gateway, events, actorFilter, expanded>>

\* A folded side has no gutter to drag, and no tabs.
Gutters == Sides \ collapsed
TabsShown == IF "right" \in collapsed THEN {} ELSE {"summary", "viz", "interp", "compare", "export"}

BeginColumnDrag(s) ==
    /\ s \in Gutters /\ drag = NoDrag
    /\ drag' = [side |-> s, from |-> column[s]]
    /\ UNCHANGED <<column, collapsed, sideTab, record, gateway, events, actorFilter, expanded>>

\* To the right the left side grows and the right side shrinks.
DragTo(dx) ==
    /\ drag # NoDrag
    /\ column' = [column EXCEPT ![drag.side] =
                    Clamped(drag.side, IF drag.side = "left" THEN drag.from + dx ELSE drag.from - dx)]
    /\ UNCHANGED <<collapsed, drag, sideTab, record, gateway, events, actorFilter, expanded>>

EndDrag ==
    /\ drag # NoDrag /\ drag' = NoDrag
    /\ UNCHANGED <<column, collapsed, sideTab, record, gateway, events, actorFilter, expanded>>

ResetLayout ==
    /\ Gutters # {}
    /\ column' = [s \in Sides |-> Width[s].default]
    /\ UNCHANGED <<collapsed, drag, sideTab, record, gateway, events, actorFilter, expanded>>

ChangeTab(t) ==
    /\ t \in TabsShown \ {sideTab} /\ sideTab' = t
    /\ UNCHANGED <<column, collapsed, drag, record, gateway, events, actorFilter, expanded>>

\* Asked once.
GatewayAnswers(answer) ==
    /\ gateway = "unknown" /\ gateway' = answer
    /\ UNCHANGED <<column, collapsed, drag, sideTab, record, events, actorFilter, expanded>>
GatewayChip ==
    CASE gateway = "keys" -> "ready" [] gateway = "no_keys" -> "no key" [] OTHER -> "asking"

ShowRecord(r) ==
    /\ record # r /\ record' = r
    /\ UNCHANGED <<column, collapsed, drag, sideTab, gateway, events, actorFilter, expanded>>

-----------------------------------------------------------------------------
\* appendTimeline, which keeps the newest, and clearTimeline.
Trace(actor) ==
    /\ events' = Append(IF Len(events) = MaxEvents THEN Tail(events) ELSE events, actor)
    /\ expanded' = IF Len(events) = MaxEvents /\ expanded > 0 THEN expanded - 1 ELSE expanded
    /\ UNCHANGED <<column, collapsed, drag, sideTab, record, gateway, actorFilter>>

ClearTrace ==
    /\ events # <<>>
    /\ events' = <<>> /\ expanded' = 0
    /\ UNCHANGED <<column, collapsed, drag, sideTab, record, gateway, actorFilter>>

\* The entries listed, the newest first on the screen.
Rows == {i \in DOMAIN events : actorFilter \in {"all", events[i]}}

FilterTrace(actor) ==
    /\ actorFilter # actor /\ actorFilter' = actor
    /\ UNCHANGED <<column, collapsed, drag, sideTab, record, gateway, events, expanded>>

UnfoldRow(i) ==
    /\ i \in Rows
    /\ expanded' = IF expanded = i THEN 0 ELSE i
    /\ UNCHANGED <<column, collapsed, drag, sideTab, record, gateway, events, actorFilter>>

Actors == {"user", "agent"}
SideNext ==
    \/ \E s \in Sides : FoldSide(s) \/ BeginColumnDrag(s)
    \/ \E dx \in -Reach .. Reach : DragTo(dx)
    \/ EndDrag \/ ResetLayout

TabsNext ==
    \/ \E s \in Sides : FoldSide(s)
    \/ \E t \in {"summary", "export"} : ChangeTab(t)
    \/ \E g \in {"keys", "no_keys", "unknown"} : GatewayAnswers(g)
    \/ \E r \in {"conversation", "prompts", "none"} : ShowRecord(r)

TraceViewNext ==
    \/ \E a \in Actors : Trace(a)
    \/ ClearTrace
    \/ \E a \in Actors \cup {"all"} : FilterTrace(a)
    \/ \E i \in 1 .. MaxEvents : UnfoldRow(i)

\* Nothing relates the three.
FrameNext == SideNext \/ TabsNext \/ TraceViewNext

FrameSpec == FrameInit /\ [][FrameNext]_frameVars

FrameTypeOK ==
    /\ drag.side \in Sides \cup {"none"}
    /\ collapsed \subseteq Sides /\ sideTab \in {"summary", "viz", "interp", "compare", "export"}
    /\ Len(events) <= MaxEvents /\ expanded \in 0 .. Len(events)
    /\ GatewayChip \in {"ready", "no key", "asking"}

\* No drag, however far, and no stored layout makes a side narrower or wider
\* than its limits.
ColumnsHold == \A s \in Sides : column[s] \in Width[s].min .. Width[s].max

=============================================================================
