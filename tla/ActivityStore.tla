--------------------------- MODULE ActivityStore ---------------------------
(***************************************************************************)
(* The autosave of the experiment pages (useExperimentV3State.js, and V2   *)
(* alike): the state is stored half a second after its last change. What   *)
(* is stored is the state the timer was set with, and the page then says   *)
(* it is saved; a change that an answer brings may be between the two,     *)
(* because React renders it, and sets the timer anew, a little later.      *)
(* Leaving the page clears the timer without storing.                      *)
(***************************************************************************)
EXTENDS Naturals

CONSTANT MaxEdits   \* bound: changes of the state

ASSUME StoreAssumption == MaxEdits \in Nat

VARIABLES
    open,      \* the page is mounted
    edits,     \* the changes made so far; a state is known by the last one
    state,     \* the state with everything that is queued: version and dirty
    rendered,  \* the state of the last render
    armed,     \* the version the timer will store, none if it is not set
    kept       \* the version in localStorage

storeVars == <<open, edits, state, rendered, armed, kept>>

NoTimer == MaxEdits + 1

\* The effect on the state: a dirty one sets the timer anew.
RenderOf(s) ==
    /\ state' = s /\ rendered' = s
    /\ armed' = IF s.dirty THEN s.version ELSE armed

\* hydrate: what is stored, with the defaults for what is missing or unknown.
Hydrated(v) == [version |-> v, dirty |-> FALSE]

StoreInit ==
    /\ open = TRUE /\ edits = 0 /\ kept = 0
    /\ state = Hydrated(0) /\ rendered = state
    /\ armed = NoTimer

\* The user changes something: rendered before anything else happens.
Edit ==
    /\ open /\ edits < MaxEdits
    /\ edits' = edits + 1
    /\ RenderOf([version |-> edits', dirty |-> TRUE])
    /\ UNCHANGED <<open, kept>>

\* An answer changes something: queued.
AnswerEdits ==
    /\ open /\ edits < MaxEdits
    /\ edits' = edits + 1
    /\ state' = [version |-> edits', dirty |-> TRUE]
    /\ UNCHANGED <<open, rendered, armed, kept>>

Render ==
    /\ open /\ state # rendered
    /\ RenderOf(state)
    /\ UNCHANGED <<open, edits, kept>>

TimerFires_FullIsSaved ==
    /\ open /\ armed # NoTimer
    /\ armed' = NoTimer
    /\ state' = [state EXCEPT !.dirty = FALSE]
    /\ kept' \in {armed, kept}
    /\ UNCHANGED <<open, edits, rendered>>

\* The timer stores its version and clears dirty, whatever is queued. A store
\* that is full says so by storing nothing, and nothing tries again.
TimerFires ==
    /\ open /\ armed # NoTimer
    /\ armed' = NoTimer
    /\ \/ /\ kept' = armed
          /\ state' = [state EXCEPT !.dirty = FALSE]
       \/ UNCHANGED <<kept, state>>
    /\ UNCHANGED <<open, edits, rendered>>

Leave ==
    /\ open
    /\ open' = FALSE /\ armed' = NoTimer
    /\ UNCHANGED <<edits, state, rendered, kept>>

Return ==
    /\ ~open
    /\ open' = TRUE
    /\ state' = Hydrated(kept) /\ rendered' = state'
    /\ UNCHANGED <<edits, armed, kept>>

StoreNext == Edit \/ AnswerEdits \/ Render \/ TimerFires \/ Leave \/ Return

StoreSpec == StoreInit /\ [][StoreNext]_storeVars

-----------------------------------------------------------------------------
StoreTypeOK ==
    /\ open \in BOOLEAN /\ edits \in 0 .. MaxEdits
    /\ {state.version, rendered.version, kept} \subseteq 0 .. MaxEdits
    /\ armed \in 0 .. NoTimer

\* When the open page stops saying that there are changes to save, what is
\* stored is what the screen shows, with every change made since the timer was
\* set; and nothing is stored while it says so. A change that an answer queued
\* in the very turn of the timer is neither stored nor said to be unsaved:
\* TimerFires clears dirty over it, so only the screen is spoken of here.
SavedPageIsStored ==
    [][(open /\ open' /\ ~state'.dirty) =>
           kept' = IF state.dirty THEN rendered.version ELSE kept]_storeVars

=============================================================================
