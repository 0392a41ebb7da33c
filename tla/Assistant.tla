----------------------------- MODULE Assistant -----------------------------
(***************************************************************************)
(* The conversation of AiChatPage.jsx. The whole conversation is sent with *)
(* every message, and the answer is appended to whatever the conversation  *)
(* is when it comes: the workflow step may have changed meanwhile, which   *)
(* begins a new one. Next to a project's form (beside = TRUE) a message    *)
(* may go to the brief instead of the model; ProjectBrief has that side.   *)
(***************************************************************************)
EXTENDS Naturals, Sequences, SequencesExt

CONSTANT MaxMessages   \* bound: messages in the conversation when one is added

ASSUME AssistantAssumption == MaxMessages \in Nat

VARIABLES
    beside,       \* variant is sidebar or workbench
    workbench,    \* variant is workbench
    workStep,     \* workflowStep
    messages,     \* messages, each by its kind
    input,        \* there is text in the input field
    chatBusy,     \* loading: "", "chat" or "refine"
    briefWaits,   \* the storage has a draft to refine (ProjectBrief)
    titleWaits,   \* the storage has a title to confirm
    restarted     \* history: this conversation began while the model was answering

assistantVars == <<beside, workbench, workStep, messages, input, chatBusy, briefWaits,
                   titleWaits, restarted>>

Kinds == {"tip", "user", "answer", "error", "injected"}

\* What the screen lets the user do.
ChatControls ==
    {c \in {"input", "send", "chips", "clear", "provider"} :
        /\ chatBusy = ""
        /\ c = "chips" => workbench \/ ~beside
        /\ c = "clear" => workbench
        /\ c = "provider" => ~workbench}

AssistantInit ==
    /\ beside \in BOOLEAN /\ workbench \in {w \in BOOLEAN : w => beside}
    /\ workStep = "step1"
    /\ messages = <<"tip">> /\ input = FALSE /\ chatBusy = ""
    /\ briefWaits = FALSE /\ titleWaits = FALSE /\ restarted = FALSE

\* Typed, or put there by one of the buttons under the central stage, which
\* do not look whether the assistant is busy.
TypeMessage ==
    /\ ~input
    /\ input' = TRUE
    /\ UNCHANGED <<beside, workbench, workStep, messages, chatBusy, briefWaits, titleWaits,
                   restarted>>

\* The conversation begins anew with the tip of the step.
Restart ==
    /\ messages' = <<"tip">>
    /\ restarted' = (chatBusy = "chat")

ChangeStep(s) ==
    /\ s # workStep
    /\ workStep' = s
    /\ IF beside THEN Restart ELSE UNCHANGED <<messages, restarted>>
    /\ UNCHANGED <<beside, workbench, input, chatBusy, briefWaits, titleWaits>>

\* The Clear button, which waits for a request, or the reset of App.jsx,
\* which does not.
ClearConversation ==
    /\ beside
    /\ Restart
    /\ UNCHANGED <<beside, workbench, workStep, input, chatBusy, briefWaits, titleWaits>>

\* The form reports an analysis or a title found in a file.
Inject ==
    /\ Len(messages) < MaxMessages
    /\ messages' = IF beside THEN Append(messages, "injected") ELSE messages
    /\ \/ briefWaits' = TRUE /\ UNCHANGED titleWaits
       \/ titleWaits' = TRUE /\ UNCHANGED briefWaits
    /\ UNCHANGED <<beside, workbench, workStep, input, chatBusy, restarted>>

\* The form is cleared or registered.
BriefGone ==
    /\ briefWaits
    /\ briefWaits' = FALSE
    /\ UNCHANGED <<beside, workbench, workStep, messages, input, chatBusy, titleWaits,
                   restarted>>

-----------------------------------------------------------------------------
ToModel ==
    /\ messages' = Append(messages, "user")
    /\ chatBusy' = "chat"

\* A message beside a brief refines it and joins the conversation only with
\* the answer; a yes or no to the pending title is taken as that; what is
\* left goes to the model.
Send ==
    /\ "send" \in ChatControls /\ input /\ Len(messages) < MaxMessages
    /\ input' = FALSE
    /\ IF beside /\ briefWaits
       THEN chatBusy' = "refine" /\ UNCHANGED <<messages, titleWaits>>
       ELSE \/ ToModel /\ UNCHANGED titleWaits
            \/ /\ beside /\ titleWaits        \* no: forgotten, and sent on
               /\ titleWaits' = FALSE
               /\ ToModel
            \/ /\ beside /\ titleWaits        \* yes: the form takes the title
               /\ titleWaits' = FALSE
               /\ messages' = messages \o <<"user", "answer">>
               /\ UNCHANGED chatBusy
    /\ UNCHANGED <<beside, workbench, workStep, briefWaits, restarted>>

SendQuick ==
    /\ "chips" \in ChatControls /\ Len(messages) < MaxMessages
    /\ ToModel
    /\ UNCHANGED <<beside, workbench, workStep, input, briefWaits, titleWaits, restarted>>

ChatAnswered_ErrorUnsaid ==
    /\ chatBusy = "chat"
    /\ messages' \in {Append(messages, "answer"), messages}
    /\ chatBusy' = ""
    /\ UNCHANGED <<beside, workbench, workStep, input, briefWaits, titleWaits, restarted>>

\* An answer of the model or the error that took its place.
ChatAnswered ==
    /\ chatBusy = "chat"
    /\ messages' \in {Append(messages, "answer"), Append(messages, "error")}
    /\ chatBusy' = ""
    /\ UNCHANGED <<beside, workbench, workStep, input, briefWaits, titleWaits, restarted>>

\* A refusal of the server says nothing: the message is gone.
RefineAnswered ==
    /\ chatBusy = "refine"
    /\ messages' \in {messages \o <<"user", "answer">>, messages \o <<"user", "error">>,
                      messages}
    /\ chatBusy' = ""
    /\ UNCHANGED <<beside, workbench, workStep, input, briefWaits, titleWaits, restarted>>

AssistantNext ==
    \/ TypeMessage \/ ClearConversation \/ Inject \/ BriefGone
    \/ \E s \in {"step1", "step2"} : ChangeStep(s)
    \/ Send \/ SendQuick \/ ChatAnswered \/ RefineAnswered

AssistantSpec == AssistantInit /\ [][AssistantNext]_assistantVars

-----------------------------------------------------------------------------
AssistantTypeOK ==
    /\ {beside, workbench, input, briefWaits, titleWaits, restarted} \subseteq BOOLEAN
    /\ \A i \in DOMAIN messages : messages[i] \in Kinds
    /\ Len(messages) <= MaxMessages + 2
    /\ workStep \in {"step1", "step2"} /\ chatBusy \in {"", "chat", "refine"}

Questions == {i \in DOMAIN messages : messages[i] = "user"}
Replies == {i \in DOMAIN messages : messages[i] \in {"answer", "error"}}
AnswerDue == IF chatBusy = "chat" THEN 1 ELSE 0

\* What is sent to the model is a conversation: every message of the user is
\* answered, and the next is sent only after that; answered once, unless the
\* conversation began anew under a request, whose answer then opens it.
EveryMessageAnswered ==
    /\ Cardinality(Questions) <= Cardinality(Replies) + AnswerDue
    /\ ~restarted => Cardinality(Questions) = Cardinality(Replies) + AnswerDue

=============================================================================
