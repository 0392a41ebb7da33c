--------------------------- MODULE KernelRegistry ---------------------------
(***************************************************************************)
(* The per-user Python kernels of the experiment page: KernelRegistry and  *)
(* UserKernel (services/kernel_manager.py), driven by the handlers of      *)
(* api/kernel.py, which run on a thread pool, and by the janitor thread.   *)
(*                                                                        *)
(* Time is abstracted to one bit per kernel: old says that last_used lies  *)
(* more than IDLE_TIMEOUT_SEC back.  Outputs are left out.                 *)
(***************************************************************************)
EXTENDS Naturals, FiniteSets

CONSTANTS
    Users,
    Kernels,        \* bound: kernel processes ever in existence at one time
    Requests,       \* bound: handlers running at one time
    MaxKernels,     \* MAX_CONCURRENT_KERNELS
    Faulty,         \* kernel processes whose start or end may fail
    Slow            \* kernels an execution on which may outlast IDLE_TIMEOUT_SEC

ASSUME ConstantsOK ==
    /\ MaxKernels \in Nat \ {0}
    /\ Faulty \subseteq Kernels
    /\ Slow \subseteq Kernels

None == "none"

\* None names no kernel and no handler, and the users are finitely many.
ASSUME NoneIsNobody == None \notin Kernels \cup Requests /\ IsFiniteSet(Users)

VARIABLES
    kernels,    \* _kernels: the kernel registered for a user
    lock,       \* holder of KernelRegistry._lock between two steps
    proc,       \* state of the kernel process
    old,        \* kernels not used for more than IDLE_TIMEOUT_SEC
    busy,       \* holder of the kernel's own _lock
    pc,         \* step of the handler
    user,       \* user the handler serves
    k,          \* kernel the handler refers to
    stale       \* kernels the janitor has popped and still has to shut down

handlerVars == <<pc, user, k>>
vars == <<kernels, lock, proc, old, busy, pc, user, k, stale>>

-----------------------------------------------------------------------------
Step == {"idle", "execute", "start", "shutdown", "creating for execute",
         "creating for start", "got", "running", "popped"}

\* A handler inside the constructor of UserKernel.
Creating(r) == pc[r] \in {"creating for execute", "creating for start"}

TypeOK ==
    /\ kernels \in [Users -> Kernels \cup {None}]
    /\ lock \in {None} \cup {r \in Requests : Creating(r)}
    /\ proc \in [Kernels -> {"none", "starting", "live", "dead"}]
    /\ old \subseteq Kernels
    /\ busy \in [Kernels -> Requests \cup {None}]
    /\ pc \in [Requests -> Step]
    /\ user \in [Requests -> Users \cup {None}]
    /\ k \in [Requests -> Kernels \cup {None}]
    /\ stale \subseteq Kernels

Init ==
    /\ kernels = [u \in Users |-> None]
    /\ lock = None
    /\ proc = [p \in Kernels |-> "none"]
    /\ old = {}
    /\ busy = [p \in Kernels |-> None]
    /\ pc = [r \in Requests |-> "idle"]
    /\ user = [r \in Requests |-> None]
    /\ k = [r \in Requests |-> None]
    /\ stale = {}

Registered == {kernels[u] : u \in Users} \ {None}
Size == Cardinality({u \in Users : kernels[u] # None})

\* Ids of processes nobody refers to, free to stand for a new process.
Unused == {p \in Kernels :
    /\ proc[p] \in {"none", "dead"}
    /\ p \notin Registered \cup stale
    /\ \A r \in Requests : k[r] # p}

Goto(r, from, to) == pc[r] = from /\ pc' = [pc EXCEPT ![r] = to]

\* The handler has answered.
Return(r) ==
    /\ pc' = [pc EXCEPT ![r] = "idle"]
    /\ user' = [user EXCEPT ![r] = None]
    /\ k' = [k EXCEPT ![r] = None]

-----------------------------------------------------------------------------
(* The handlers.                                                          *)

\* kernel_execute (and load_file), start_kernel or kernel_shutdown begins.
Call(r) ==
    /\ \E to \in {"execute", "start", "shutdown"} : Goto(r, "idle", to)
    /\ \E u \in Users : user' = [user EXCEPT ![r] = u]
    /\ UNCHANGED <<kernels, lock, proc, old, busy, k, stale>>

\* The handler has the kernel p: start_kernel answers, kernel_execute goes on
\* to use it.
Obtained(r, p) ==
    \/ /\ pc[r] \in {"execute", "creating for execute"}
       /\ pc' = [pc EXCEPT ![r] = "got"]
       /\ k' = [k EXCEPT ![r] = p]
       /\ UNCHANGED user
    \/ /\ pc[r] \in {"start", "creating for start"}
       /\ Return(r)

\* A handler inside get_or_create, with the class lock.
Looking(r) == lock = None /\ pc[r] \in {"execute", "start"}

\* The user's kernel is there; last_used is not refreshed.
Found(r) ==
    /\ Looking(r)
    /\ kernels[user[r]] # None
    /\ Obtained(r, kernels[user[r]])
    /\ UNCHANGED <<kernels, lock, proc, old, busy, stale>>

QuotaReached == Size >= MaxKernels

\* KernelQuotaError, answered with 429.
Refused(r) ==
    /\ Looking(r)
    /\ kernels[user[r]] = None
    /\ QuotaReached
    /\ Return(r)
    /\ UNCHANGED <<kernels, lock, proc, old, busy, stale>>

\* A bug: the class lock is released while the kernel is created.
HoldLock_Released(r) == UNCHANGED lock

HoldLock(r) == lock' = r

\* The constructor of UserKernel begins, inside the class lock.
StartProcess(r) ==
    /\ Looking(r)
    /\ kernels[user[r]] = None
    /\ ~QuotaReached
    /\ \/ Goto(r, "execute", "creating for execute")
       \/ Goto(r, "start", "creating for start")
    /\ \E p \in Unused :
          /\ proc' = [proc EXCEPT ![p] = "starting"]
          /\ k' = [k EXCEPT ![r] = p]
    /\ HoldLock(r)
    /\ UNCHANGED <<kernels, old, busy, user, stale>>

\* The kernel is ready and is registered; the lock is released.
Register(r) ==
    /\ Creating(r)
    /\ Obtained(r, k[r])
    /\ proc' = [proc EXCEPT ![k[r]] = "live"]
    /\ old' = old \ {k[r]}
    /\ kernels' = [kernels EXCEPT ![user[r]] = k[r]]
    /\ lock' = None
    /\ UNCHANGED <<busy, stale>>

\* A bug: the class lock is not released on an exception.
StartFails_KeepsLock(r) ==
    /\ Creating(r)
    /\ k[r] \in Faulty
    /\ \E s \in {"live", "dead"} : proc' = [proc EXCEPT ![k[r]] = s]
    /\ Return(r)
    /\ UNCHANGED <<lock, kernels, old, busy, stale>>

\* start_kernel raises, or wait_for_ready does and leaves the process alone.
StartFails(r) ==
    /\ Creating(r)
    /\ k[r] \in Faulty
    /\ \E s \in {"live", "dead"} : proc' = [proc EXCEPT ![k[r]] = s]
    /\ lock' = None
    /\ Return(r)
    /\ UNCHANGED <<kernels, old, busy, stale>>

\* A bug: the kernel's own lock is not taken.
Available_Always(p) == TRUE

Available(p) == busy[p] = None

\* A bug: last_used is left alone.
Touch_Omitted(p) == UNCHANGED old

Touch(p) == old' = old \ {p}

\* UserKernel.execute takes the kernel's lock and refreshes last_used; the
\* code runs if the process is there, else the call raises or times out.
Execute(r) ==
    /\ Goto(r, "got", "running")
    /\ Available(k[r])
    /\ busy' = [busy EXCEPT ![k[r]] = r]
    /\ Touch(k[r])
    /\ UNCHANGED <<kernels, lock, proc, user, k, stale>>

\* Idle message, error or timeout: the lock is released.
Executed(r) ==
    /\ pc[r] = "running"
    /\ busy' = [busy EXCEPT ![k[r]] = None]
    /\ Return(r)
    /\ UNCHANGED <<kernels, lock, proc, old, stale>>

\* UserKernel.shutdown; an exception of shutdown_kernel is swallowed.
EndProcess(p) ==
    \/ proc' = [proc EXCEPT ![p] = "dead"]
    \/ p \in Faulty /\ UNCHANGED proc

\* KernelRegistry.shutdown pops under the lock ...
PopForShutdown(r) ==
    /\ pc[r] = "shutdown"
    /\ lock = None
    /\ IF kernels[user[r]] = None
       THEN Return(r)
       ELSE /\ pc' = [pc EXCEPT ![r] = "popped"]
            /\ k' = [k EXCEPT ![r] = kernels[user[r]]]
            /\ UNCHANGED user
    /\ kernels' = [kernels EXCEPT ![user[r]] = None]
    /\ UNCHANGED <<lock, proc, old, busy, stale>>

\* ... and ends the process outside it.
Shutdown(r) ==
    /\ pc[r] = "popped"
    /\ EndProcess(k[r])
    /\ Return(r)
    /\ UNCHANGED <<kernels, lock, old, busy, stale>>

-----------------------------------------------------------------------------
(* The janitor, the clock and the kernel processes themselves.            *)

JanitorScan ==
    /\ lock = None
    /\ stale = {}
    /\ Registered \cap old # {}
    /\ stale' = Registered \cap old
    /\ kernels' = [u \in Users |->
                     IF kernels[u] \in old THEN None ELSE kernels[u]]
    /\ UNCHANGED <<lock, proc, old, busy, handlerVars>>

\* A bug: the janitor forgets a kernel instead of ending its process.
JanitorShutdown_Forgets(p) ==
    /\ p \in stale
    /\ stale' = stale \ {p}
    /\ UNCHANGED <<kernels, lock, proc, old, busy, handlerVars>>

JanitorShutdown(p) ==
    /\ p \in stale
    /\ EndProcess(p)
    /\ stale' = stale \ {p}
    /\ UNCHANGED <<kernels, lock, old, busy, handlerVars>>

\* IDLE_TIMEOUT_SEC pass without an execution beginning on p.
Age(p) ==
    /\ p \in Registered \ old
    /\ p \in Slow \/ busy[p] = None
    /\ old' = old \cup {p}
    /\ UNCHANGED <<kernels, lock, proc, busy, handlerVars, stale>>

\* The kernel process ends by itself; the registry does not notice.
Die(p) ==
    /\ proc[p] = "live"
    /\ proc' = [proc EXCEPT ![p] = "dead"]
    /\ UNCHANGED <<kernels, lock, old, busy, handlerVars, stale>>

-----------------------------------------------------------------------------
Handler(r) ==
    \/ Found(r)
    \/ Refused(r)
    \/ StartProcess(r)
    \/ Register(r)
    \/ StartFails(r)
    \/ Execute(r)
    \/ Executed(r)
    \/ PopForShutdown(r)
    \/ Shutdown(r)

Janitor == JanitorScan \/ \E p \in Kernels : JanitorShutdown(p)

Next ==
    \/ \E r \in Requests : Call(r) \/ Handler(r)
    \/ Janitor
    \/ \E p \in Kernels : Age(p) \/ Die(p)

Spec == Init /\ [][Next]_vars

\* Handler threads run on (executions end by their timeout) and the janitor
\* never stops; users, clocks and failures are free.
FairSpec ==
    /\ Spec
    /\ \A r \in Requests : WF_vars(Handler(r))
    /\ WF_vars(Janitor)

-----------------------------------------------------------------------------
(* Properties.                                                            *)

\* Registered kernels, and the one being created under the lock, never exceed
\* KERNEL_MAX_CONCURRENT, whatever requests race (get_or_create).
WithinQuota == Size + Cardinality({lock} \ {None}) <= MaxKernels

\* A registered kernel is never replaced by another one, which would leave
\* its process behind: get_or_create keeps the class lock from the lookup to
\* the registration, so two calls of one user end with one kernel.
NoKernelIsReplaced ==
    [][\A u \in Users : kernels[u] # None => kernels'[u] \in {kernels[u], None}]_vars

\* Two executions never run on one kernel (UserKernel's docstring).
OneExecutionAtATime ==
    \A r, s \in Requests :
        pc[r] = "running" /\ pc[s] = "running" /\ k[r] = k[s] => r = s

\* The janitor never picks a kernel that is executing, unless the execution
\* has outlasted the idle timeout: last_used is refreshed before it begins.
JanitorPicksUnused ==
    [][JanitorScan => \A p \in stale' : busy[p] = None \/ p \in Slow]_vars

\* A live kernel process is registered or about to be shut down by the
\* janitor or a handler: no race loses track of one, and none but a process
\* that failed to become ready or to end is left running.
NoOrphanProcess ==
    \A p \in Kernels : proc[p] = "live" =>
        \/ p \in Registered \cup stale \cup Faulty
        \/ \E r \in Requests : pc[r] = "popped" /\ k[r] = p

\* A kernel taken out of the registry does die, unless ending it fails.
UnregisteredDies ==
    \A p \in Kernels \ Faulty :
        (proc[p] = "live" /\ p \notin Registered) ~> (proc[p] # "live")

\* The policy table: a kernel is shut down automatically when it has not been
\* used for the idle timeout; so never while it is executing.
IdleShutdownOnlyIdle ==
    [][\A p \in Kernels : JanitorShutdown(p) => busy[p] = None]_vars
=============================================================================
