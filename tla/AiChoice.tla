------------------------------ MODULE AiChoice ------------------------------
(***************************************************************************)
(* The choice of the model's provider. It is kept in the browser's storage *)
(* and shown by the chat and by the experiment page. A change is told to   *)
(* the pages of its own tab at once, and to the other tabs by the storage  *)
(* event, which carries the value as it was written; only the experiment   *)
(* page listens to that one.                                               *)
(***************************************************************************)
EXTENDS Naturals, Sequences, FiniteSets

CONSTANTS
    AiTabs,      \* the tabs of one browser
    ChatChoices, \* the providers the chat offers (six)
    MaxChoices   \* bound: changes

DeskProviders == {"openai", "gemini"}
DefaultProvider == "openai"

ASSUME AiAssumption == DeskProviders \subseteq ChatChoices /\ MaxChoices \in Nat

VARIABLES
    aiStored,  \* the stored choice
    aiPage,    \* of each tab: the page that shows the choice, if any
    aiShown,   \* the choice it shows
    aiEvents,  \* storage events on their way to a tab
    aiChoices, \* history: changes
    aiCrossed  \* history: tabs that chose while an older choice was on its way to them

aiVars == <<aiStored, aiPage, aiShown, aiEvents, aiChoices, aiCrossed>>

\* The experiment page knows two providers, the others are the first to it.
Normal(v) == IF v \in DeskProviders THEN v ELSE DefaultProvider
ShownOn(page, v) == IF page = "desk" THEN Normal(v) ELSE v

AiInit ==
    /\ aiStored = DefaultProvider
    /\ aiPage = [t \in AiTabs |-> "none"] /\ aiShown = [t \in AiTabs |-> DefaultProvider]
    /\ aiEvents = [t \in AiTabs |-> <<>>] /\ aiChoices = 0 /\ aiCrossed = {}

\* A page reads the store when it opens.
OpenAiPage(t, page) ==
    /\ aiPage[t] # page
    /\ aiPage' = [aiPage EXCEPT ![t] = page]
    /\ aiShown' = [aiShown EXCEPT ![t] = ShownOn(page, aiStored)]
    /\ aiCrossed' = IF aiEvents[t] = <<>> THEN aiCrossed \ {t} ELSE aiCrossed
    /\ UNCHANGED <<aiStored, aiEvents, aiChoices>>

\* writeStoredAiProvider: the other tabs hear of a value that is new.
WriteChoice(t, v) ==
    /\ aiStored' = v
    /\ aiEvents' = [o \in AiTabs |-> IF o = t \/ v = aiStored THEN aiEvents[o] ELSE Append(aiEvents[o], v)]
    /\ aiCrossed' = LET heard == IF v = aiStored THEN aiCrossed ELSE {}
                    IN  IF aiEvents[t] # <<>> THEN heard \cup {t} ELSE heard \ {t}

ChooseProvider(t, v) ==
    /\ aiPage[t] # "none" /\ aiChoices < MaxChoices
    /\ v \in IF aiPage[t] = "desk" THEN DeskProviders ELSE ChatChoices
    /\ aiChoices' = aiChoices + 1
    /\ aiShown' = [aiShown EXCEPT ![t] = v]
    /\ WriteChoice(t, v)
    /\ UNCHANGED aiPage

\* The event of another tab's change.
StorageEvent(t) ==
    /\ aiEvents[t] # <<>>
    /\ aiEvents' = [aiEvents EXCEPT ![t] = Tail(@)]
    /\ aiShown' = IF aiPage[t] = "desk" THEN [aiShown EXCEPT ![t] = Normal(Head(aiEvents[t]))] ELSE aiShown
    /\ UNCHANGED <<aiStored, aiPage, aiChoices, aiCrossed>>

ChoiceNext ==
    \E t \in AiTabs :
        \/ StorageEvent(t)
        \/ \E page \in {"none", "chat", "desk"} : OpenAiPage(t, page)
        \/ \E v \in ChatChoices : ChooseProvider(t, v)

-----------------------------------------------------------------------------
\* What the server has keys for, as the experiment page asks: when it opens
\* and when a prompt failed for the lack of a key.
VARIABLES serverKeys, keyAsks, keyAsked, keyHealth
healthVars == <<serverKeys, keyAsks, keyAsked, keyHealth>>

HealthInit ==
    /\ serverKeys = {} /\ keyAsks = {} /\ keyAsked = 0
    /\ keyHealth = [loading |-> TRUE, keys |-> {}, error |-> FALSE]

KeyIsSet(v) == serverKeys' = serverKeys \cup {v} /\ v \notin serverKeys /\ UNCHANGED <<keyAsks, keyAsked, keyHealth>>

RefreshHealth ==
    /\ keyAsked < MaxChoices /\ keyAsked' = keyAsked + 1
    /\ keyAsks' = keyAsks \cup {keyAsked + 1}
    /\ keyHealth' = [keyHealth EXCEPT !.loading = TRUE, !.error = FALSE]
    /\ UNCHANGED serverKeys

HealthAnswers(q, ok) ==
    /\ keyAsks' = keyAsks \ {q}
    /\ keyHealth' = IF ok THEN [loading |-> FALSE, keys |-> serverKeys, error |-> FALSE]
                 ELSE [keyHealth EXCEPT !.loading = FALSE, !.error = TRUE]
    /\ UNCHANGED <<serverKeys, keyAsked>>

\* The point next to a provider; the page warns of the chosen one alike.
ProviderDot(v) == IF keyHealth.loading THEN "pending" ELSE IF v \in keyHealth.keys THEN "ok" ELSE "off"

HealthNext ==
    \/ RefreshHealth
    \/ \E v \in DeskProviders : KeyIsSet(v)
    \/ \E q \in keyAsks, ok \in BOOLEAN : HealthAnswers(q, ok)

-----------------------------------------------------------------------------
AiTypeOK ==
    /\ aiStored \in ChatChoices /\ aiShown \in [AiTabs -> ChatChoices] /\ aiCrossed \subseteq AiTabs
    /\ keyHealth.keys \subseteq serverKeys /\ \A v \in DeskProviders : ProviderDot(v) \in {"pending", "ok", "off"}

\* An experiment page that has heard of every change shows the stored choice,
\* or the first provider for one it does not know, unless it chose itself
\* while the news of an older choice was on its way.
ChoiceIsShared ==
    \A t \in AiTabs \ aiCrossed :
        aiPage[t] = "desk" /\ aiEvents[t] = <<>> => aiShown[t] = Normal(aiStored)
=============================================================================
