------------------------------ MODULE Session ------------------------------
(***************************************************************************)
(* Who is signed in. AuthContext.jsx keeps a token and a user per browser  *)
(* tab; the token every request is sent with is the one in localStorage,   *)
(* which all tabs share and none of them watches. The user is what         *)
(* /api/auth/me answers: the effect on the token asks for it and drops an  *)
(* answer of an earlier token, the listener for the network's return asks  *)
(* for it too and drops nothing.                                           *)
(***************************************************************************)
EXTENDS Naturals, Sequences

CONSTANTS
    Tabs, Users,
    NoUser,      \* user === null
    MaxTokens,   \* bound: tokens the server issues
    MaxTries     \* attempts of fetchMeWithRetries (4 in the code)

ASSUME SessionAssumption ==
    NoUser \notin Users /\ MaxTokens \in Nat /\ MaxTries \in Nat \ {0}

VARIABLES
    stored,    \* localStorage's lab_token, 0 when there is none
    ownerOf,   \* the server's tokens: the user each was issued to
    expired,   \* the tokens the server answers with 401
    tab        \* the React state and the requests of each tab

sessionVars == <<stored, ownerOf, expired, tab>>

Tokens == 0 .. Len(ownerOf)

\* A request for /me: due to be sent, or out with the token it was sent with.
Off == [stage |-> "off", token |-> 0, tries |-> 0]
Due(n) == [stage |-> "due", token |-> 0, tries |-> n]

\* held, user, loading: the state of AuthProvider. effect, online: the
\* requests of the two effects. form: LoginPage. foreign and overtaken are
\* history: another tab changed the token; the user was told of another token
\* than the one held, by a late answer or before a late sign-in.
NewTab(x) ==
    [held |-> x, user |-> NoUser, loading |-> x # 0,
     effect |-> IF x = 0 THEN Off ELSE Due(0), online |-> Off,
     form |-> "idle", foreign |-> FALSE, overtaken |-> FALSE]

\* The page was left with a token or without one.
SessionInit ==
    /\ ownerOf \in {<<>>} \cup {<<u>> : u \in Users}
    /\ stored = Len(ownerOf)
    /\ expired = {}
    /\ tab = [t \in Tabs |-> NewTab(stored)]

SessionHeld(t) == tab[t].held # 0 /\ tab[t].user # NoUser
LoginShown(t) == ~SessionHeld(t) /\ ~tab[t].loading

Store_StateOnly(t, x, s) ==
    /\ UNCHANGED stored
    /\ tab' = [tab EXCEPT ![t] = s]

\* Token x is stored by tab t, whose state becomes s: what the other tabs
\* hold is another one from now on.
Store(t, x, s) ==
    /\ stored' = x
    /\ tab' = [u \in Tabs |->
                 IF u = t THEN s
                 ELSE [tab[u] EXCEPT !.foreign = @ \/ x # stored]]

\* setToken and the effect it sets off, which cancels the one before.
SetToken(t, x) ==
    LET known == [tab[t] EXCEPT
            !.held = x, !.loading = x # 0, !.form = "idle",
            !.effect = IF x = 0 THEN Off ELSE IF x = tab[t].held THEN @ ELSE Due(0)]
    IN  Store(t, x, IF x = 0
                    THEN [known EXCEPT !.user = NoUser, !.foreign = FALSE, !.overtaken = FALSE]
                    ELSE [known EXCEPT !.foreign = FALSE,
                                       !.overtaken = tab[t].user # NoUser])

\* clearSession after a 401, and the effect that finds no token.
SignedOff(s) == [s EXCEPT !.held = 0, !.user = NoUser, !.loading = FALSE, !.effect = Off]

-----------------------------------------------------------------------------
\* The form is offered once the backend has answered (Connection has that).
Submit(t) ==
    /\ LoginShown(t) /\ tab[t].form = "idle"
    /\ tab' = [tab EXCEPT ![t].form = "asking"]
    /\ UNCHANGED <<stored, ownerOf, expired>>

SignIn(t, u) ==
    /\ tab[t].form = "asking"
    /\ Len(ownerOf) < MaxTokens
    /\ ownerOf' = Append(ownerOf, u)
    /\ SetToken(t, Len(ownerOf'))
    /\ UNCHANGED expired

\* Either the health asked for first or the sign-in itself fails.
SignInFails(t) ==
    /\ tab[t].form = "asking"
    /\ tab' = [tab EXCEPT ![t].form = "idle"]
    /\ UNCHANGED <<stored, ownerOf, expired>>

Logout(t) ==
    /\ SessionHeld(t)
    /\ SetToken(t, 0)
    /\ UNCHANGED <<ownerOf, expired>>

\* The network is back: listened to only while there is a token and no user.
Online(t) ==
    /\ tab[t].held # 0 /\ tab[t].user = NoUser /\ tab[t].online = Off
    /\ tab' = [tab EXCEPT ![t].online = Due(0)]
    /\ UNCHANGED <<stored, ownerOf, expired>>

Expire(x) ==
    /\ x \in Tokens \ expired /\ x # 0
    /\ expired' = expired \cup {x}
    /\ UNCHANGED <<stored, ownerOf, tab>>

-----------------------------------------------------------------------------
\* Every attempt is sent with the token stored when it is made.
Attempt(t, k) ==
    /\ tab[t][k].stage = "due"
    /\ tab' = [tab EXCEPT ![t][k] = [@ EXCEPT !.stage = "out", !.token = stored]]
    /\ UNCHANGED <<stored, ownerOf, expired>>

Valid(x) == x # 0 /\ x \notin expired

\* setUser(me). What the listener is told is kept whatever became of its token.
MeAnswers(t, k) ==
    /\ tab[t][k].stage = "out" /\ Valid(tab[t][k].token)
    /\ LET told == [tab[t] EXCEPT !.user = ownerOf[tab[t][k].token], ![k] = Off]
       IN  tab' = [tab EXCEPT ![t] =
                     IF k = "effect"
                     THEN [told EXCEPT !.loading = FALSE, !.overtaken = FALSE]
                     ELSE [told EXCEPT !.overtaken = @ \/ tab[t][k].token # tab[t].held]]
    /\ UNCHANGED <<stored, ownerOf, expired>>

\* Only a 401 ends the session, whichever token it was about.
MeRefused(t, k) ==
    /\ tab[t][k].stage = "out" /\ ~Valid(tab[t][k].token)
    /\ Store(t, 0, SignedOff([tab[t] EXCEPT ![k] = Off]))
    /\ UNCHANGED <<ownerOf, expired>>

MeFails_ForEver(t, k) ==
    /\ tab[t][k].stage = "out"
    /\ tab' = [tab EXCEPT ![t][k] = Due(tab[t][k].tries + 1)]
    /\ UNCHANGED <<stored, ownerOf, expired>>

\* Any other failure is retried; the last one leaves the token and no user,
\* and the listener's leaves everything.
MeFails(t, k) ==
    /\ tab[t][k].stage = "out"
    /\ LET n == tab[t][k].tries + 1
       IN  tab' = [tab EXCEPT ![t] =
                     IF n < MaxTries THEN [@ EXCEPT ![k] = Due(n)]
                     ELSE IF k = "effect"
                     THEN [@ EXCEPT ![k] = Off, !.user = NoUser, !.loading = FALSE]
                     ELSE [@ EXCEPT ![k] = Off]]
    /\ UNCHANGED <<stored, ownerOf, expired>>

\* What happens in tab t when the users of U sign in there and the requests
\* of K are made.
TabStep(t, U, K) ==
    \/ Submit(t) \/ SignInFails(t) \/ Logout(t)
    \/ "online" \in K /\ Online(t)
    \/ \E u \in U : SignIn(t, u)
    \/ \E k \in K :
        Attempt(t, k) \/ MeAnswers(t, k) \/ MeRefused(t, k) \/ MeFails(t, k)

TokenStep == \E x \in Tokens : Expire(x)

SessionNext == TokenStep \/ \E t \in Tabs : TabStep(t, Users, {"effect", "online"})

SessionSpec == SessionInit /\ [][SessionNext]_sessionVars

-----------------------------------------------------------------------------
SessionTypeOK ==
    /\ stored \in Tokens /\ expired \subseteq Tokens
    /\ \A i \in DOMAIN ownerOf : ownerOf[i] \in Users
    /\ \A t \in Tabs :
        /\ tab[t].held \in Tokens /\ tab[t].user \in Users \cup {NoUser}
        /\ tab[t].form \in {"idle", "asking"}
        /\ \A k \in {"effect", "online"} :
            tab[t][k].stage \in {"off", "due", "out"} /\ tab[t][k].tries < MaxTries

\* As long as no other tab has stored or removed a token since this one's
\* sign-in, its requests carry the token it holds, whatever was answered late;
\* and the user it shows is that token's owner, unless the last answer was
\* about an earlier token, or a sign-in took effect while the user of one was
\* shown. For a tab with a "foreign" token neither is promised: nothing of the
\* code watches what the other tabs store.
SessionIsOwn ==
    \A t \in Tabs : (SessionHeld(t) /\ ~tab[t].foreign) =>
        /\ stored = tab[t].held
        /\ ~tab[t].overtaken => tab[t].user = ownerOf[stored]

\* A page with neither a user nor the sign-in form has a request under way
\* that will bring one of them, or is about to send it.
LoadingIsAwaited == \A t \in Tabs : tab[t].loading => tab[t].effect.stage # "off"

=============================================================================
