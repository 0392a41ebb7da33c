------------------------------ MODULE TraceLog ------------------------------
(***************************************************************************)
(* The traces of the experiment page (useTracing.js): every record is put  *)
(* into the page's list and into localStorage, which keeps the newest of   *)
(* them, and posted to the server, whose answer nobody waits for. When the *)
(* page is mounted the server's newest traces are merged in.               *)
(***************************************************************************)
EXTENDS Naturals, FiniteSets

CONSTANTS
    MaxTraces,   \* bound: records made; a record is known by its number
    KeepLocal,   \* LOCAL_LIMIT (500 in the code)
    AskServer    \* the limit of the query at the mount (100 in the code)

ASSUME TraceAssumption ==
    MaxTraces \in Nat /\ KeepLocal \in Nat \ {0} /\ AskServer \in Nat \ {0}

VARIABLES
    made,       \* records made so far
    tracesShown, \* traces, sorted by their time
    tracesKept, \* localStorage
    atServer,   \* the server's table
    posting,    \* records on their way to it
    serverAsked,      \* the server's answer to the query of this mount, or not yet
    alive,      \* the page is mounted
    unstored,   \* history: records no write that succeeded has seen yet
    drawer      \* RunHistory is open

traceVars == <<made, tracesShown, tracesKept, atServer, posting, serverAsked, alive, unstored, drawer>>

Newest(S, n) == {t \in S : Cardinality({u \in S : u > t}) < n}

TraceInit ==
    /\ made = 0 /\ tracesShown = {} /\ tracesKept = {} /\ atServer = {} /\ posting = {}
    /\ serverAsked = "sent" /\ alive = TRUE /\ unstored = {} /\ drawer = FALSE

\* writeLocal stores the newest of what is shown, or is refused (the storage is
\* full): then what was stored stays, and nobody is told.
WriteLocal(justMade) ==
    \/ /\ tracesKept' = Newest(tracesShown', KeepLocal)
       /\ unstored' = unstored \ tracesShown'
    \/ /\ unstored' = unstored \cup justMade
       /\ UNCHANGED tracesKept

\* A run that ends after its page was left records too, for the server only:
\* the list it would join is no longer there.
Record ==
    /\ made < MaxTraces
    /\ made' = made + 1
    /\ \/ /\ alive
          /\ tracesShown' = tracesShown \cup {made'}
          /\ WriteLocal({made + 1})
       \/ /\ ~alive
          /\ unstored' = unstored \cup {made'}
          /\ UNCHANGED <<tracesShown, tracesKept>>
    /\ posting' = posting \cup {made'}
    /\ UNCHANGED <<atServer, serverAsked, alive, drawer>>

\* Best effort, in any order.
PostEnds(t) ==
    /\ t \in posting
    /\ posting' = posting \ {t}
    /\ atServer' \in {atServer, atServer \cup {t}}
    /\ UNCHANGED <<made, tracesShown, tracesKept, serverAsked, alive, unstored, drawer>>

\* What the server answers joins what is shown by now, and the newest of both
\* are kept.
ServerListArrives ==
    /\ serverAsked = "sent"
    /\ serverAsked' = "done"
    /\ \/ /\ alive /\ atServer # {}
          /\ tracesShown' = tracesShown \cup Newest(atServer, AskServer)
          /\ WriteLocal({})
       \/ UNCHANGED <<tracesShown, tracesKept, unstored>>   \* no answer, or none in time
    /\ UNCHANGED <<made, atServer, posting, alive, drawer>>

ToggleTraces ==
    /\ alive
    /\ drawer' = ~drawer
    /\ UNCHANGED <<made, tracesShown, tracesKept, atServer, posting, serverAsked, alive, unstored>>

CloseTraces ==
    /\ alive
    /\ alive' = FALSE /\ drawer' = FALSE /\ serverAsked' = "done"
    /\ UNCHANGED <<made, tracesShown, tracesKept, atServer, posting, unstored>>

OpenTraces ==
    /\ ~alive
    /\ alive' = TRUE /\ serverAsked' = "sent"
    /\ tracesShown' = tracesKept
    /\ UNCHANGED <<made, tracesKept, atServer, posting, unstored, drawer>>

TraceNext ==
    \/ Record \/ ServerListArrives \/ ToggleTraces \/ CloseTraces \/ OpenTraces
    \/ \E t \in 1 .. MaxTraces : PostEnds(t)

TraceSpec == TraceInit /\ [][TraceNext]_traceVars

-----------------------------------------------------------------------------
TraceTypeOK ==
    /\ made \in 0 .. MaxTraces /\ serverAsked \in {"sent", "done"}
    /\ {tracesKept, tracesShown, atServer, posting} \subseteq SUBSET (1 .. made) /\ unstored \subseteq 1 .. made
    /\ {alive, drawer} \subseteq BOOLEAN

\* What the browser keeps includes the newest records of all, whatever the
\* server's list brings in and whatever has reached it. The exception is exact:
\* a record made after the page was left, or whose own write was refused, is
\* missing until a later write that succeeds has it in the list. (The comment of
\* useTracing.js:95 says the local record stays without it.)
NewestTracesKept == Newest(1 .. made, KeepLocal) \ unstored \subseteq tracesKept

=============================================================================
