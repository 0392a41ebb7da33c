----------------------------- MODULE Connection -----------------------------
(***************************************************************************)
(* Which server the page talks to and whether it answers: the environment  *)
(* the bundle was built with (publicEnv.ts, apiBaseValidation.ts,          *)
(* backendMode.ts, the Vite plugins), one request of client.ts with its    *)
(* timeout and its abort, the health poll of App.jsx that shows the banner *)
(* and the probe of the sign-in form that enables its button.              *)
(***************************************************************************)
EXTENDS Naturals

CONSTANT MaxFails   \* bound: failures of the health poll that are counted

ASSUME ConnectionAssumption == MaxFails \in Nat /\ MaxFails >= 2

VARIABLES
    build,      \* "dev" or "prod" (import.meta.env)
    cloud,      \* VITE_API_BASE_URL
    aws,        \* VITE_AWS_API_URL
    mode,       \* ailab_backend_mode in localStorage
    cookie,     \* ailab_backend_mode in the cookie
    health,     \* the poll of App.jsx: asking or waiting
    failStreak, \* its failures in a row
    reachable,  \* backendReachable; the banner is shown when it is FALSE
    probe,      \* the probe of the form: its stage and attempt
    apiReady,   \* what the form has been told
    api         \* one request of client.ts: its stage

connVars == <<build, cloud, aws, mode, cookie, health, failStreak, reachable, probe,
              apiReady, api>>
settings == <<build, cloud, aws, mode, cookie>>

-----------------------------------------------------------------------------
\* A URL is its scheme and its host; without a scheme https is assumed.
Url == [scheme : {"https", "http", "bare"}, host : {"public", "private", "malformed"}]
NoUrl == [scheme |-> "none", host |-> "none"]

\* assert-vite-env.mjs lets a production build begin.
BuildAllowed == cloud.scheme = "https" /\ aws.scheme = "https"

\* validateOperationalApiEnvironment; a host that is private includes the
\* loopback, which http is allowed for.
ConfigErrors ==
    IF build # "prod" THEN {}
    ELSE IF cloud = NoUrl THEN {"missing"}
    ELSE IF cloud.host = "malformed" THEN {"malformed"}
    ELSE {e \in {"private", "plain"} :
            /\ e = "private" => cloud.host = "private"
            /\ e = "plain" => cloud.scheme = "http"}

\* main.jsx mounts the application or the configuration error.
Mounted == ConfigErrors = {}

\* getResolvedApiBase: where requests go.
ApiBase == IF mode = "local" THEN "localhost"
           ELSE IF cloud = NoUrl THEN "same origin" ELSE "cloud"

\* The plugins are there only when the base is not set. The proxy knows the
\* cookies render and aws, which setStoredBackendMode no longer writes.
Proxied == build = "dev" /\ cloud = NoUrl
ProxyRoute ==
    CASE cookie = "render" -> "refused"      \* 503: the target is the unset base
      [] cookie = "aws"    -> IF aws = NoUrl THEN "refused" ELSE "aws"
      [] OTHER             -> "localhost"

-----------------------------------------------------------------------------
Probing == probe.stage \in {"health", "openapi", "pause"}
ProbeIs(s, n) == probe' = [stage |-> s, attempt |-> n]

ConnInit ==
    /\ build \in {"dev", "prod"}
    /\ cloud \in Url \cup {NoUrl}
    /\ aws \in {NoUrl, [scheme |-> "https", host |-> "public"]}
    /\ build = "prod" => BuildAllowed
    /\ mode \in {"local", "cloud"}         \* main.jsx stores cloud if nothing is
    /\ cookie \in {"none", "local", "cloud", "render", "aws"}
    /\ health = IF Mounted THEN "asking" ELSE "off"
    /\ failStreak = 0 /\ reachable = TRUE
    /\ probe = [stage |-> "off", attempt |-> 0]
    /\ apiReady = FALSE
    /\ api = "off"

\* The poll asks, counts its failures in a row and asks again 28 s later.
HealthOk ==
    /\ health = "asking"
    /\ health' = "waiting" /\ failStreak' = 0 /\ reachable' = TRUE
    /\ UNCHANGED <<settings, probe, apiReady, api>>

HealthFails_FirstCounts ==
    /\ health = "asking"
    /\ health' = "waiting"
    /\ failStreak' = IF failStreak < MaxFails THEN failStreak + 1 ELSE failStreak
    /\ reachable' = FALSE
    /\ UNCHANGED <<settings, probe, apiReady, api>>

HealthFails ==
    /\ health = "asking"
    /\ health' = "waiting"
    /\ failStreak' = IF failStreak < MaxFails THEN failStreak + 1 ELSE failStreak
    /\ reachable' = (reachable /\ failStreak' < 2)
    /\ UNCHANGED <<settings, probe, apiReady, api>>

HealthAgain ==
    /\ health = "waiting"
    /\ health' = "asking"
    /\ UNCHANGED <<settings, failStreak, reachable, probe, apiReady, api>>

\* The form is mounted: the toggle stores the mode it has read, which writes
\* the cookie, and probes. With no base there is nothing to probe in
\* development and nothing to reach elsewhere.
FormMounts ==
    /\ Mounted /\ ~Probing
    /\ cookie' = mode
    /\ IF cloud = NoUrl
       THEN apiReady' = (build = "dev") /\ UNCHANGED probe
       ELSE apiReady' = FALSE /\ ProbeIs("health", 1)
    /\ UNCHANGED <<build, cloud, aws, mode, health, failStreak, reachable, api>>

\* The form goes: the probe is aborted and reports nothing.
FormGoes ==
    /\ Probing
    /\ ProbeIs("off", 0)
    /\ UNCHANGED <<settings, health, failStreak, reachable, apiReady, api>>

ProbeOk ==
    /\ probe.stage \in {"health", "openapi"}
    /\ ProbeIs("off", 0)
    /\ apiReady' = TRUE
    /\ UNCHANGED <<settings, health, failStreak, reachable, api>>

\* An answer that is not ok: /openapi.json is tried, and that decides.
ProbeRefused ==
    /\ IF probe.stage = "health" THEN ProbeIs("openapi", probe.attempt)
       ELSE probe.stage = "openapi" /\ ProbeIs("off", 0)
    /\ UNCHANGED <<settings, health, failStreak, reachable, apiReady, api>>

\* No answer: again after a pause, three times in all.
ProbeUnanswered ==
    /\ probe.stage \in {"health", "openapi"}
    /\ IF probe.attempt < 3 THEN ProbeIs("pause", probe.attempt) ELSE ProbeIs("off", 0)
    /\ UNCHANGED <<settings, health, failStreak, reachable, apiReady, api>>

ProbeAgain ==
    /\ probe.stage = "pause"
    /\ ProbeIs("health", probe.attempt + 1)
    /\ UNCHANGED <<settings, health, failStreak, reachable, apiReady, api>>

-----------------------------------------------------------------------------
\* requestJson: the timeout covers the wait for the answer, not its body.
ApiSend ==
    /\ Mounted /\ api \notin {"sent", "body"}
    /\ api' = IF ApiBase = "same origin" /\ ProxyRoute = "refused" THEN "refused" ELSE "sent"
    /\ UNCHANGED <<settings, health, failStreak, reachable, probe, apiReady>>

ApiAnswers ==
    /\ api = "sent" /\ api' = "body"
    /\ UNCHANGED <<settings, health, failStreak, reachable, probe, apiReady>>

\* Nobody answers in time, the network fails, or the caller's signal aborts.
ApiLost ==
    /\ api = "sent" /\ api' \in {"timeout", "unreachable", "aborted"}
    /\ UNCHANGED <<settings, health, failStreak, reachable, probe, apiReady>>

\* The body is there: the data, or an error with the status and the detail.
ApiBody ==
    /\ api = "body" /\ api' \in {"data", "error", "aborted"}
    /\ UNCHANGED <<settings, health, failStreak, reachable, probe, apiReady>>

\* The poll has a clock of its own and shares nothing with the rest.
PollNext == HealthOk \/ HealthFails \/ HealthAgain

FormNext ==
    \/ FormMounts \/ FormGoes \/ ProbeOk \/ ProbeRefused \/ ProbeUnanswered \/ ProbeAgain
    \/ ApiSend \/ ApiAnswers \/ ApiLost \/ ApiBody

ConnNext == PollNext \/ FormNext

ConnSpec == ConnInit /\ [][ConnNext]_connVars

-----------------------------------------------------------------------------
ConnTypeOK ==
    /\ cloud \in Url \cup {NoUrl} /\ mode \in {"local", "cloud"}
    /\ cookie \in {"none", "local", "cloud", "render", "aws"}
    /\ health \in {"off", "asking", "waiting"} /\ failStreak \in 0 .. MaxFails
    /\ probe.stage \in {"off", "health", "openapi", "pause"} /\ probe.attempt \in 0 .. 3
    /\ api \in {"off", "sent", "body", "data", "error", "timeout", "unreachable", "aborted",
                "refused"}

\* The banner is not the word of one lost request, and a sign-in form is
\* enabled only by a bundle that was mounted with somewhere to go.
BannerIsFounded ==
    /\ ~reachable => failStreak >= 2
    /\ apiReady => Mounted /\ (cloud # NoUrl \/ Proxied)

=============================================================================
