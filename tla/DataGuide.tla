----------------------------- MODULE DataGuide -----------------------------
(***************************************************************************)
(* The data guide dialog of ProjectsPage.jsx: the server is asked how to   *)
(* prepare the data for the brief in the form or, when the form is not     *)
(* filled in, for the brief registered last, kept in the session storage.  *)
(* ProjectBrief has the form itself; here it is only what it is about.     *)
(***************************************************************************)
CONSTANTS
    Briefs,
    NoBrief

ASSUME GuideAssumption == NoBrief \notin Briefs

VARIABLES
    brief,       \* the form's title and text, NoBrief unless both are there
    formBusy,    \* an analysis or a registration is under way
    lastBrief,   \* storage: ailab_last_registered_brief_guide
    dialog       \* dataGuideOpen, dataGuidePayload and the request in flight

guideVars == <<brief, formBusy, lastBrief, dialog>>

GuideInit ==
    /\ brief = NoBrief /\ formBusy = FALSE
    /\ lastBrief \in Briefs \cup {NoBrief}   \* of an earlier visit
    /\ dialog = [open |-> FALSE, shows |-> NoBrief, asked |-> NoBrief]

EditBrief(b) ==
    /\ b # brief
    /\ brief' = b
    /\ UNCHANGED <<formBusy, lastBrief, dialog>>

\* A registration keeps the brief before it is sent, so that it is kept even
\* when the registration fails; on success the form is emptied.
StartBusy(register) ==
    /\ ~formBusy /\ brief # NoBrief
    /\ formBusy' = TRUE
    /\ lastBrief' = IF register THEN brief ELSE lastBrief
    /\ UNCHANGED <<brief, dialog>>

EndBusy ==
    /\ formBusy
    /\ formBusy' = FALSE
    /\ brief' \in {brief, NoBrief}
    /\ UNCHANGED <<lastBrief, dialog>>

\* getGuidePayload
GuideBrief == IF brief # NoBrief THEN brief ELSE lastBrief

GuideParts ==
    {p \in {"button", "loading", "guide", "close"} :
        /\ p = "button" => ~formBusy /\ dialog.asked = NoBrief
        /\ p # "button" => dialog.open
        /\ p = "loading" => dialog.asked # NoBrief
        /\ p = "guide" => dialog.shows # NoBrief}

OpenGuide ==
    /\ "button" \in GuideParts /\ GuideBrief # NoBrief
    /\ dialog' = [open |-> TRUE, shows |-> NoBrief, asked |-> GuideBrief]
    /\ UNCHANGED <<brief, formBusy, lastBrief>>

GuideAnswered ==
    /\ dialog.asked # NoBrief
    /\ \E got \in {dialog.asked, dialog.shows} :
        dialog' = [dialog EXCEPT !.shows = got, !.asked = NoBrief]
    /\ UNCHANGED <<brief, formBusy, lastBrief>>

\* The Close button forgets the guide, a click beside the dialog keeps it;
\* the answer still to come is forgotten by neither.
CloseGuide ==
    /\ "close" \in GuideParts
    /\ dialog' \in {[dialog EXCEPT !.open = FALSE, !.shows = NoBrief],
                    [dialog EXCEPT !.open = FALSE]}
    /\ UNCHANGED <<brief, formBusy, lastBrief>>

GuideNext ==
    \/ \E b \in Briefs \cup {NoBrief} : EditBrief(b)
    \/ \E register \in BOOLEAN : StartBusy(register)
    \/ EndBusy \/ OpenGuide \/ GuideAnswered \/ CloseGuide

GuideSpec == GuideInit /\ [][GuideNext]_guideVars

-----------------------------------------------------------------------------
GuideTypeOK ==
    /\ {brief, lastBrief} \subseteq Briefs \cup {NoBrief} /\ formBusy \in BOOLEAN
    /\ dialog \in [open : BOOLEAN, shows : Briefs \cup {NoBrief},
                   asked : Briefs \cup {NoBrief}]

=============================================================================
