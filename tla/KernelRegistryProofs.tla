------------------------ MODULE KernelRegistryProofs ------------------------
(***************************************************************************)
(* Proofs about KernelRegistry, for any finite set of users, any sets of   *)
(* kernels and handlers, and every quota.                                  *)
(***************************************************************************)
EXTENDS KernelRegistry, FiniteSetTheorems, TLAPS

\* What a handler refers to at each of its steps.
HandlersRefer ==
    \A r \in Requests :
        /\ pc[r] # "idle" => user[r] \in Users
        /\ IF pc[r] \in {"got", "running", "popped"} \/ Creating(r)
           THEN k[r] \in Kernels ELSE k[r] = None

\* Exactly the handler that creates a kernel holds the class lock, and the
\* user it creates it for has none.
CreatorHoldsLock ==
    \A r \in Requests :
        /\ Creating(r) => lock = r
        /\ Creating(r) => kernels[user[r]] = None

\* A running execution holds the lock of its kernel.
RunnerHoldsKernel == \A r \in Requests : pc[r] = "running" => busy[k[r]] = r

Inv == TypeOK /\ HandlersRefer /\ CreatorHoldsLock /\ RunnerHoldsKernel

-----------------------------------------------------------------------------
LEMMA InvInit == Init => Inv
  BY DEF Init, Inv, TypeOK, HandlersRefer, CreatorHoldsLock, RunnerHoldsKernel,
         Creating, Step

\* get_or_create finds the kernel, refuses, or begins to create one.
LEMMA InvLookup ==
  ASSUME Inv, NEW r \in Requests, Found(r) \/ Refused(r) \/ StartProcess(r)
  PROVE  Inv'
<1> USE NoneIsNobody
<1> USE DEF Inv, TypeOK, HandlersRefer, CreatorHoldsLock, RunnerHoldsKernel,
            Creating, Step, Looking
<1>1. CASE Found(r)
  <2>1. user[r] \in Users /\ kernels[user[r]] \in Kernels
    BY <1>1 DEF Found
  <2>2. UNCHANGED <<kernels, lock, proc, old, busy, stale>>
    BY <1>1 DEF Found
  <2>3. ASSUME pc' = [pc EXCEPT ![r] = "got"], UNCHANGED user,
               k' = [k EXCEPT ![r] = kernels[user[r]]]
        PROVE  Inv'
    BY <1>1, <2>1, <2>2, <2>3 DEF Found
  <2>4. ASSUME Return(r)
        PROVE  Inv'
    BY <1>1, <2>2, <2>4 DEF Found, Return
  <2> QED
    BY <1>1, <2>3, <2>4 DEF Found, Obtained
<1>2. CASE Refused(r)
  BY <1>2 DEF Refused, Return
<1>3. CASE StartProcess(r)
  <2>1. PICK p \in Kernels : /\ proc' = [proc EXCEPT ![p] = "starting"]
                             /\ k' = [k EXCEPT ![r] = p]
    BY <1>3 DEF StartProcess, Unused
  <2>2. /\ lock = None /\ lock' = r /\ kernels[user[r]] = None
        /\ UNCHANGED <<kernels, old, busy, user, stale>>
        /\ pc[r] \in {"execute", "start"}
    BY <1>3 DEF StartProcess, Goto, HoldLock
  <2>3. PICK s \in {"creating for execute", "creating for start"} :
          pc' = [pc EXCEPT ![r] = s]
    BY <1>3 DEF StartProcess, Goto
  <2>4. user[r] \in Users /\ \A q \in Requests : ~Creating(q)
    BY <2>2
  <2>5. /\ pc' \in [Requests -> Step] /\ pc'[r] = s
        /\ k' \in [Requests -> Kernels \cup {None}] /\ k'[r] = p
        /\ \A q \in Requests \ {r} : pc'[q] = pc[q] /\ k'[q] = k[q]
    BY <2>1, <2>3
  <2>6. Creating(r)'
    BY <2>5
  <2>7. TypeOK'
    BY <2>1, <2>2, <2>5, <2>6
  <2>8. HandlersRefer'
    BY <2>2, <2>4, <2>5
  <2>9. CreatorHoldsLock'
    BY <2>2, <2>4, <2>5
  <2>10. RunnerHoldsKernel'
    BY <2>2, <2>3, <2>5
  <2> QED
    BY <2>7, <2>8, <2>9, <2>10
<1> QED
  BY <1>1, <1>2, <1>3

\* The constructor ends.
LEMMA InvCreation ==
  ASSUME Inv, NEW r \in Requests, Register(r) \/ StartFails(r)
  PROVE  Inv'
<1> USE NoneIsNobody
<1> USE DEF Inv, TypeOK, HandlersRefer, CreatorHoldsLock, RunnerHoldsKernel,
            Creating, Step, Return
<1>1. k[r] \in Kernels /\ user[r] \in Users /\ lock = r
  BY DEF Register, StartFails
<1>2. \A s \in Requests \ {r} : ~Creating(s)
  BY <1>1
<1>3. CASE Register(r)
  <2>1. /\ proc' \in [Kernels -> {"none", "starting", "live", "dead"}]
        /\ old' \subseteq Kernels
        /\ kernels' \in [Users -> Kernels \cup {None}]
        /\ lock' = None /\ UNCHANGED <<busy, stale>>
    BY <1>1, <1>3 DEF Register
  <2>2. ASSUME pc' = [pc EXCEPT ![r] = "got"], UNCHANGED user,
               k' = [k EXCEPT ![r] = k[r]]
        PROVE  Inv'
    BY <1>1, <1>2, <2>1, <2>2
  <2>3. ASSUME Return(r)
        PROVE  Inv'
    BY <1>1, <1>2, <2>1, <2>3
  <2> QED
    BY <1>3, <2>2, <2>3 DEF Register, Obtained
<1>4. CASE StartFails(r)
  <2>1. proc' \in [Kernels -> {"none", "starting", "live", "dead"}]
    BY <1>1, <1>4 DEF StartFails
  <2>2. lock' = None /\ Return(r) /\ UNCHANGED <<kernels, old, busy, stale>>
    BY <1>4 DEF StartFails
  <2> QED
    BY <1>1, <1>2, <2>1, <2>2
<1> QED
  BY <1>3, <1>4

\* A call begins, executes, or shuts its kernel down.
LEMMA InvUse ==
  ASSUME Inv, NEW r \in Requests,
         \/ Call(r) \/ Execute(r) \/ Executed(r) \/ PopForShutdown(r) \/ Shutdown(r)
  PROVE  Inv'
<1> USE NoneIsNobody
<1> USE DEF Inv, TypeOK, HandlersRefer, CreatorHoldsLock, RunnerHoldsKernel,
            Creating, Step, Goto, Return
<1>1. CASE Call(r)
  <2>1. PICK to \in {"execute", "start", "shutdown"} :
          pc[r] = "idle" /\ pc' = [pc EXCEPT ![r] = to]
    BY <1>1 DEF Call
  <2>2. PICK u \in Users : user' = [user EXCEPT ![r] = u]
    BY <1>1 DEF Call
  <2>3. UNCHANGED <<kernels, lock, proc, old, busy, k, stale>>
    BY <1>1 DEF Call
  <2> QED
    BY <2>1, <2>2, <2>3
<1>2. CASE Execute(r)
  BY <1>2 DEF Execute, Available, Touch
<1>3. CASE Executed(r)
  BY <1>3 DEF Executed
<1>4. CASE PopForShutdown(r)
  <2>1. /\ pc[r] = "shutdown" /\ lock = None /\ user[r] \in Users
        /\ kernels' = [kernels EXCEPT ![user[r]] = None]
        /\ UNCHANGED <<lock, proc, old, busy, stale>>
    BY <1>4 DEF PopForShutdown
  <2>2. \A q \in Requests : ~Creating(q)
    BY <2>1
  <2>3. ASSUME Return(r)
        PROVE  Inv'
    BY <2>1, <2>2, <2>3
  <2>4. ASSUME kernels[user[r]] # None, UNCHANGED user,
               pc' = [pc EXCEPT ![r] = "popped"],
               k' = [k EXCEPT ![r] = kernels[user[r]]]
        PROVE  Inv'
    BY <2>1, <2>2, <2>4
  <2> QED
    BY <1>4, <2>3, <2>4 DEF PopForShutdown
<1>5. CASE Shutdown(r)
  BY <1>5 DEF Shutdown, EndProcess
<1> QED
  BY <1>1, <1>2, <1>3, <1>4, <1>5

\* The janitor, the clock and the processes leave the handlers alone.
LEMMA InvSurroundings ==
  ASSUME Inv, Janitor \/ \E p \in Kernels : Age(p) \/ Die(p)
  PROVE  Inv'
<1> USE NoneIsNobody
<1> USE DEF Inv, TypeOK, HandlersRefer, CreatorHoldsLock, RunnerHoldsKernel,
            Creating, Step, handlerVars
<1>1. CASE JanitorScan
  BY <1>1 DEF JanitorScan, Registered
<1>2. ASSUME NEW p \in Kernels, JanitorShutdown(p)
      PROVE  Inv'
  BY <1>2 DEF JanitorShutdown, EndProcess
<1>3. ASSUME NEW p \in Kernels, Age(p)
      PROVE  Inv'
  BY <1>3 DEF Age
<1>4. ASSUME NEW p \in Kernels, Die(p)
      PROVE  Inv'
  BY <1>4 DEF Die
<1> QED
  BY <1>1, <1>2, <1>3, <1>4 DEF Janitor

LEMMA InvNext == Inv /\ [Next]_vars => Inv'
<1> SUFFICES ASSUME Inv, [Next]_vars PROVE Inv'
  OBVIOUS
<1>1. CASE UNCHANGED vars
  BY <1>1 DEF vars, handlerVars, Inv, TypeOK, HandlersRefer, CreatorHoldsLock,
              RunnerHoldsKernel, Creating
<1>2. ASSUME NEW r \in Requests, Call(r) \/ Handler(r)
      PROVE  Inv'
  BY <1>2, InvLookup, InvCreation, InvUse DEF Handler
<1> QED
  BY <1>1, <1>2, InvSurroundings DEF Next

LEMMA InvAlways == Spec => []Inv
  BY InvInit, InvNext, PTL DEF Spec

\* The registry keeps its types.
THEOREM RegistryTypeCorrect == Spec => []TypeOK
<1>1. Inv => TypeOK
  BY DEF Inv
<1> QED
  BY <1>1, InvAlways, PTL

-----------------------------------------------------------------------------
\* Two executions on one kernel would both hold its lock, whoever else
\* starts, ends or forgets the kernel meanwhile.
THEOREM ExecutionsExclude == Spec => []OneExecutionAtATime
<1>1. Inv => OneExecutionAtATime
  BY DEF Inv, RunnerHoldsKernel, OneExecutionAtATime
<1> QED
  BY <1>1, InvAlways, PTL

-----------------------------------------------------------------------------
(* The quota.                                                             *)

Owners == {u \in Users : kernels[u] # None}

LEMMA OwnersFinite == IsFiniteSet(Owners) /\ Size = Cardinality(Owners) /\ Size \in Nat
<1>1. IsFiniteSet(Owners)
  BY NoneIsNobody, FS_Subset DEF Owners
<1> QED
  BY <1>1, FS_CardinalityType DEF Owners, Size

LEMMA OwnersFiniteLater ==
  /\ IsFiniteSet(Owners') /\ Size' = Cardinality(Owners') /\ Size' \in Nat
<1>1. IsFiniteSet(Owners')
  <2>1. Owners' \subseteq Users
    BY DEF Owners
  <2> QED
    BY <2>1, NoneIsNobody, FS_Subset
<1> QED
  BY <1>1, FS_CardinalityType DEF Owners, Size

\* The share of the quota that a creation under way has taken.
Reserved == Cardinality({lock} \ {None})

LEMMA ReservedValue == Reserved = IF lock = None THEN 0 ELSE 1
<1>1. CASE lock = None
  <2>1. {lock} \ {None} = {}
    BY <1>1
  <2> QED
    BY <1>1, <2>1, FS_EmptySet DEF Reserved
<1>2. CASE lock # None
  <2>1. {lock} \ {None} = {lock}
    BY <1>2
  <2> QED
    BY <1>2, <2>1, FS_Singleton DEF Reserved
<1> QED
  BY <1>1, <1>2

LEMMA ReservedValueLater == Reserved' = IF lock' = None THEN 0 ELSE 1
<1>1. CASE lock' = None
  <2>1. {lock'} \ {None} = {}
    BY <1>1
  <2> QED
    BY <1>1, <2>1, FS_EmptySet DEF Reserved
<1>2. CASE lock' # None
  <2>1. {lock'} \ {None} = {lock'}
    BY <1>2
  <2> QED
    BY <1>2, <2>1, FS_Singleton DEF Reserved
<1> QED
  BY <1>1, <1>2

\* A step after which no user has a kernel that had none.
LEMMA NoMoreOwners ==
  ASSUME Owners' \subseteq Owners
  PROVE  Size' <= Size
  BY OwnersFinite, OwnersFiniteLater, FS_Subset

LEMMA QuotaNext == Inv /\ WithinQuota /\ [Next]_vars => WithinQuota'
<1> SUFFICES ASSUME Inv, WithinQuota, [Next]_vars PROVE WithinQuota'
  OBVIOUS
<1> USE NoneIsNobody, ConstantsOK, OwnersFinite, OwnersFiniteLater,
        ReservedValue, ReservedValueLater
<1>1. Size + Reserved <= MaxKernels
  BY DEF WithinQuota, Reserved
<1> SUFFICES Size' + Reserved' <= MaxKernels
  BY DEF WithinQuota, Reserved
<1>2. ASSUME UNCHANGED <<kernels, lock>>
      PROVE  Size' + Reserved' <= MaxKernels
  BY <1>1, <1>2 DEF Size, Reserved
<1>3. ASSUME NEW r \in Requests, StartProcess(r)
      PROVE  Size' + Reserved' <= MaxKernels
  <2>1. Size' = Size
    BY <1>3 DEF StartProcess, Size
  <2>2. ~(Size >= MaxKernels)
    BY <1>3, Zenon DEF StartProcess, QuotaReached
  <2>3. Size < MaxKernels
    BY <2>2
  <2> QED
    BY <2>1, <2>3
<1>4. ASSUME NEW r \in Requests, Register(r)
      PROVE  Size' + Reserved' <= MaxKernels
  <2>1. lock = r /\ lock' = None
    BY <1>4 DEF Register, Inv, CreatorHoldsLock
  <2>2. Owners' \subseteq Owners \cup {user[r]}
    BY <1>4 DEF Register, Inv, TypeOK, Owners
  <2>3. /\ IsFiniteSet(Owners \cup {user[r]})
        /\ \/ Cardinality(Owners \cup {user[r]}) = Cardinality(Owners)
           \/ Cardinality(Owners \cup {user[r]}) = Cardinality(Owners) + 1
    BY FS_AddElement, Zenon
  <2>4. Size' <= Size + 1
    BY <2>2, <2>3, FS_Subset, FS_CardinalityType
  <2> QED
    BY <1>1, <2>1, <2>4
<1>5. ASSUME NEW r \in Requests, StartFails(r)
      PROVE  Size' + Reserved' <= MaxKernels
  <2>1. Size' = Size /\ lock' = None
    BY <1>5 DEF StartFails, Size
  <2> QED
    BY <1>1, <2>1
<1>6. ASSUME NEW r \in Requests, PopForShutdown(r)
      PROVE  Size' + Reserved' <= MaxKernels
  <2>1. Owners' \subseteq Owners /\ lock' = None
    BY <1>6 DEF PopForShutdown, Inv, TypeOK, Owners
  <2> QED
    BY <1>1, <2>1, NoMoreOwners
<1>7. CASE JanitorScan
  <2>1. Owners' \subseteq Owners /\ lock' = None
    BY <1>7 DEF JanitorScan, Owners
  <2> QED
    BY <1>1, <2>1, NoMoreOwners
<1>8. ASSUME NEW r \in Requests,
             Call(r) \/ Found(r) \/ Refused(r) \/ Execute(r) \/ Executed(r) \/ Shutdown(r)
      PROVE  UNCHANGED <<kernels, lock>>
  BY <1>8 DEF Call, Found, Refused, Execute, Executed, Shutdown
<1>9. ASSUME NEW p \in Kernels, JanitorShutdown(p) \/ Age(p) \/ Die(p)
      PROVE  UNCHANGED <<kernels, lock>>
  BY <1>9 DEF JanitorShutdown, Age, Die
<1>10. CASE UNCHANGED vars
  BY <1>2, <1>10 DEF vars
<1> QED
  BY <1>2, <1>3, <1>4, <1>5, <1>6, <1>7, <1>8, <1>9, <1>10
  DEF Next, Handler, Janitor

\* However many requests race, the registered kernels and the one being
\* created are at most KERNEL_MAX_CONCURRENT.
THEOREM QuotaHolds == Spec => []WithinQuota
<1>1. Init => WithinQuota
  <2> SUFFICES ASSUME Init PROVE Size + Reserved <= MaxKernels
    BY DEF WithinQuota, Reserved
  <2>1. Owners = {}
    BY DEF Init, Owners
  <2>2. Size = 0 /\ Reserved = 0
    BY <2>1, OwnersFinite, ReservedValue, FS_EmptySet DEF Init
  <2> QED
    BY <2>2, ConstantsOK
<1> QED
  BY <1>1, InvAlways, QuotaNext, PTL DEF Spec

-----------------------------------------------------------------------------
(* Replacement.                                                           *)

\* A user's kernel is kept or removed by a step, never exchanged.
Kept == \A u \in Users : kernels[u] # None => kernels'[u] \in {kernels[u], None}

LEMMA KeptNext == Inv /\ [Next]_vars => Kept
<1> SUFFICES ASSUME Inv, [Next]_vars PROVE Kept
  OBVIOUS
<1>1. ASSUME UNCHANGED kernels
      PROVE  Kept
  BY <1>1 DEF Kept
<1>2. ASSUME NEW r \in Requests, Register(r)
      PROVE  Kept
  BY <1>2 DEF Register, Inv, TypeOK, CreatorHoldsLock, Kept
<1>3. ASSUME NEW r \in Requests, PopForShutdown(r)
      PROVE  Kept
  BY <1>3 DEF PopForShutdown, Inv, TypeOK, Kept
<1>4. CASE JanitorScan
  BY <1>4 DEF JanitorScan, Kept
<1>5. ASSUME NEW r \in Requests,
             \/ Call(r) \/ Found(r) \/ Refused(r) \/ StartProcess(r) \/ StartFails(r)
             \/ Execute(r) \/ Executed(r) \/ Shutdown(r)
      PROVE  UNCHANGED kernels
  BY <1>5 DEF Call, Found, Refused, StartProcess, StartFails, Execute, Executed, Shutdown
<1>6. ASSUME NEW p \in Kernels, JanitorShutdown(p) \/ Age(p) \/ Die(p)
      PROVE  UNCHANGED kernels
  BY <1>6 DEF JanitorShutdown, Age, Die
<1>7. CASE UNCHANGED vars
  BY <1>1, <1>7 DEF vars
<1> QED
  BY <1>1, <1>2, <1>3, <1>4, <1>5, <1>6, <1>7 DEF Next, Handler, Janitor

\* Two calls of one user end with one kernel: the second finds the first's.
THEOREM KernelsAreNotReplaced == Spec => NoKernelIsReplaced
<1>1. Inv /\ [Next]_vars =>
        [\A u \in Users : kernels[u] # None => kernels'[u] \in {kernels[u], None}]_vars
  BY KeptNext DEF Kept
<1> QED
  BY <1>1, InvAlways, PTL DEF Spec, NoKernelIsReplaced

-----------------------------------------------------------------------------
(* Processes and idleness.                                                  *)

\* A handler that has popped p and still has to end it.
PoppedBy(r, p) == pc[r] = "popped" /\ k[r] = p

\* The other handlers stay where they are.
OthersStay(r) == \A q \in Requests \ {r} : pc'[q] = pc[q] /\ k'[q] = k[q]

LEMMA OnlyOneMoves ==
  ASSUME Inv, NEW r \in Requests, Call(r) \/ Handler(r)
  PROVE  OthersStay(r)
<1> USE DEF Inv, TypeOK, OthersStay, Goto, Return
<1>1. CASE Call(r)
  BY <1>1 DEF Call
<1>2. CASE Found(r)
  BY <1>2 DEF Found, Obtained
<1>3. CASE Refused(r)
  BY <1>3 DEF Refused
<1>4. CASE StartProcess(r)
  BY <1>4 DEF StartProcess
<1>5. CASE Register(r)
  BY <1>5 DEF Register, Obtained
<1>6. CASE StartFails(r)
  BY <1>6 DEF StartFails
<1>7. CASE Execute(r)
  BY <1>7 DEF Execute
<1>8. CASE Executed(r)
  BY <1>8 DEF Executed
<1>9. CASE PopForShutdown(r)
  BY <1>9 DEF PopForShutdown
<1>10. CASE Shutdown(r)
  BY <1>10 DEF Shutdown
<1> QED
  BY <1>1, <1>2, <1>3, <1>4, <1>5, <1>6, <1>7, <1>8, <1>9, <1>10 DEF Handler

LEMMA HandlerLosesNone ==
  ASSUME Inv, NoOrphanProcess, NEW r \in Requests, Call(r) \/ Handler(r)
  PROVE  NoOrphanProcess'
<1> SUFFICES ASSUME NEW p \in Kernels \ Faulty, proc'[p] = "live"
             PROVE  p \in Registered' \cup stale' \/ \E q \in Requests : PoppedBy(q, p)'
  BY DEF NoOrphanProcess, PoppedBy
<1>1. proc[p] = "live" =>
        p \in Registered \cup stale \/ \E q \in Requests : PoppedBy(q, p)
  BY DEF NoOrphanProcess, PoppedBy
<1>2. OthersStay(r)
  BY OnlyOneMoves
<1>3. \A q \in Requests \ {r} : PoppedBy(q, p) => PoppedBy(q, p)'
  BY <1>2 DEF OthersStay, PoppedBy
<1>4. ASSUME UNCHANGED <<kernels, stale>>, proc[p] = "live", ~PoppedBy(r, p)
      PROVE  p \in Registered' \cup stale' \/ \E q \in Requests : PoppedBy(q, p)'
  BY <1>1, <1>3, <1>4 DEF Registered
<1>5. CASE Call(r) \/ Found(r) \/ Refused(r) \/ Execute(r) \/ Executed(r)
  <2>1. UNCHANGED <<kernels, proc, stale>>
    BY <1>5 DEF Call, Found, Refused, Execute, Executed
  <2>2. pc[r] # "popped"
    BY <1>5 DEF Call, Found, Refused, Execute, Executed, Looking, Goto
  <2> QED
    BY <1>4, <2>1, <2>2 DEF PoppedBy
<1>6. CASE StartProcess(r)
  <2>1. UNCHANGED <<kernels, stale>> /\ pc[r] # "popped"
    BY <1>6 DEF StartProcess, Looking
  <2>2. PICK u \in Kernels : proc' = [proc EXCEPT ![u] = "starting"]
    BY <1>6 DEF StartProcess, Unused
  <2>3. proc[p] = "live"
    BY <2>2 DEF Inv, TypeOK
  <2> QED
    BY <1>4, <2>1, <2>3 DEF PoppedBy
<1>7. CASE Register(r)
  <2>1. kernels[user[r]] = None /\ user[r] \in Users /\ k[r] \in Kernels
    BY <1>7 DEF Register, Inv, CreatorHoldsLock, HandlersRefer, Creating
  <2>2. kernels' = [kernels EXCEPT ![user[r]] = k[r]]
    BY <1>7 DEF Register
  <2>3. Registered \subseteq Registered' /\ k[r] \in Registered'
    BY <2>1, <2>2, NoneIsNobody DEF Registered, Inv, TypeOK
  <2>4. ~PoppedBy(r, p) /\ stale' = stale /\ proc' = [proc EXCEPT ![k[r]] = "live"]
    BY <1>7 DEF Register, PoppedBy, Creating
  <2>5. CASE p = k[r]
    BY <2>3, <2>5
  <2>6. CASE p # k[r]
    <3>1. proc[p] = "live"
      BY <2>4, <2>6 DEF Inv, TypeOK
    <3> QED
      BY <1>1, <1>3, <2>3, <2>4, <3>1
  <2> QED
    BY <2>5, <2>6
<1>8. CASE StartFails(r)
  <2>1. UNCHANGED <<kernels, stale>> /\ pc[r] # "popped" /\ k[r] # p
    BY <1>8 DEF StartFails, Creating
  <2>2. PICK s \in {"live", "dead"} : proc' = [proc EXCEPT ![k[r]] = s]
    BY <1>8 DEF StartFails
  <2>3. proc[p] = "live"
    BY <2>1, <2>2 DEF Inv, TypeOK
  <2> QED
    BY <1>4, <2>1, <2>3 DEF PoppedBy
<1>9. CASE PopForShutdown(r)
  <2>1. /\ pc[r] = "shutdown" /\ user[r] \in Users /\ UNCHANGED <<proc, stale>>
        /\ kernels' = [kernels EXCEPT ![user[r]] = None]
    BY <1>9 DEF PopForShutdown, Inv, HandlersRefer
  <2>2. Registered \subseteq Registered' \cup {kernels[user[r]]}
    BY <2>1 DEF Registered, Inv, TypeOK
  <2>3. kernels[user[r]] # None => pc'[r] = "popped" /\ k'[r] = kernels[user[r]]
    <3> HAVE kernels[user[r]] # None
    <3>1. pc' = [pc EXCEPT ![r] = "popped"] /\ k' = [k EXCEPT ![r] = kernels[user[r]]]
      BY <1>9 DEF PopForShutdown
    <3> QED
      BY <3>1 DEF Inv, TypeOK
  <2>4. p # None
    BY NoneIsNobody
  <2>5. p = kernels[user[r]] => PoppedBy(r, p)'
    BY <2>3, <2>4 DEF PoppedBy
  <2>6. ~PoppedBy(r, p)
    BY <2>1 DEF PoppedBy
  <2> QED
    BY <1>1, <1>3, <2>1, <2>2, <2>5, <2>6
<1>10. CASE Shutdown(r)
  <2>1. UNCHANGED <<kernels, stale>>
    BY <1>10 DEF Shutdown
  <2>2. proc' = [proc EXCEPT ![k[r]] = "dead"] \/ (proc' = proc /\ k[r] \in Faulty)
    BY <1>10 DEF Shutdown, EndProcess
  <2>3. proc[p] = "live" /\ p # k[r]
    BY <2>2 DEF Inv, TypeOK
  <2> QED
    BY <1>4, <2>1, <2>3 DEF PoppedBy
<1> QED
  BY <1>5, <1>6, <1>7, <1>8, <1>9, <1>10 DEF Handler

LEMMA OrphanNext == Inv /\ NoOrphanProcess /\ [Next]_vars => NoOrphanProcess'
<1> SUFFICES ASSUME Inv, NoOrphanProcess, [Next]_vars
             PROVE  NoOrphanProcess'
  OBVIOUS
<1> USE NoneIsNobody
<1> USE DEF Inv, TypeOK, NoOrphanProcess, Registered, handlerVars
<1>1. CASE JanitorScan
  <2>1. \A p \in Kernels : p \in Registered \cup stale => p \in Registered' \cup stale'
    BY <1>1 DEF JanitorScan
  <2>2. UNCHANGED <<proc, pc, k>>
    BY <1>1 DEF JanitorScan
  <2> HIDE DEF Registered
  <2> QED
    BY <2>1, <2>2
<1>2. ASSUME NEW p \in Kernels, JanitorShutdown(p)
      PROVE  NoOrphanProcess'
  BY <1>2 DEF JanitorShutdown, EndProcess
<1>3. ASSUME NEW p \in Kernels, Age(p) \/ Die(p)
      PROVE  NoOrphanProcess'
  BY <1>3 DEF Age, Die
<1>4. CASE UNCHANGED vars
  BY <1>4 DEF vars
<1> QED
  BY <1>1, <1>2, <1>3, <1>4, HandlerLosesNone DEF Next, Janitor

\* No race of calls and janitor loses track of a live kernel process, but for
\* those that failed to become ready or to end.
THEOREM NoProcessIsLost == Spec => []NoOrphanProcess
<1>1. Init => NoOrphanProcess
  BY DEF Init, NoOrphanProcess
<1>2. Inv /\ NoOrphanProcess /\ [Next]_vars => NoOrphanProcess'
  BY OrphanNext
<1> QED
  BY <1>1, <1>2, InvAlways, PTL DEF Spec

\* A kernel counted as idle executes nothing, unless for longer than that.
OldIsFree == \A p \in old : busy[p] = None \/ p \in Slow

LEMMA OldIsFreeNext == Inv /\ OldIsFree /\ [Next]_vars => OldIsFree'
<1> SUFFICES ASSUME Inv, OldIsFree, [Next]_vars
             PROVE  OldIsFree'
  OBVIOUS
<1> USE DEF OldIsFree, Inv, TypeOK
<1>1. ASSUME old' \subseteq old, UNCHANGED busy
      PROVE  OldIsFree'
  BY <1>1
<1>2. ASSUME NEW r \in Requests, Execute(r)
      PROVE  OldIsFree'
  BY <1>2 DEF Execute, Touch
<1>3. ASSUME NEW r \in Requests, Executed(r)
      PROVE  OldIsFree'
  BY <1>3 DEF Executed
<1>4. ASSUME NEW r \in Requests, Register(r)
      PROVE  old' \subseteq old /\ UNCHANGED busy
  BY <1>4 DEF Register
<1>5. ASSUME NEW r \in Requests,
             \/ Call(r) \/ Found(r) \/ Refused(r) \/ StartProcess(r) \/ StartFails(r)
             \/ PopForShutdown(r) \/ Shutdown(r)
      PROVE  UNCHANGED <<old, busy>>
  BY <1>5 DEF Call, Found, Refused, StartProcess, StartFails, PopForShutdown, Shutdown
<1>6. ASSUME NEW p \in Kernels, Age(p)
      PROVE  OldIsFree'
  BY <1>6 DEF Age
<1>7. ASSUME NEW p \in Kernels, JanitorShutdown(p) \/ Die(p)
      PROVE  UNCHANGED <<old, busy>>
  BY <1>7 DEF JanitorShutdown, Die
<1>8. CASE JanitorScan \/ UNCHANGED vars
  BY <1>1, <1>8 DEF JanitorScan, vars
<1> QED
  BY <1>1, <1>2, <1>3, <1>4, <1>5, <1>6, <1>7, <1>8 DEF Next, Handler, Janitor

\* The janitor never picks a kernel that is executing, but for an execution
\* that lasts beyond the idle timeout: execute refreshes last_used first.
THEOREM JanitorSparesExecutions == Spec => JanitorPicksUnused
<1>1. Init => OldIsFree
  BY DEF Init, OldIsFree
<1>2. OldIsFree /\ [Next]_vars =>
        [JanitorScan => \A p \in stale' : busy[p] = None \/ p \in Slow]_vars
  BY DEF OldIsFree, JanitorScan
<1>3. Inv /\ OldIsFree /\ [Next]_vars => OldIsFree'
  BY OldIsFreeNext
<1> QED
  BY <1>1, <1>2, <1>3, InvAlways, PTL DEF Spec, JanitorPicksUnused

=============================================================================
