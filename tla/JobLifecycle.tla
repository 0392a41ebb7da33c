---------------------------- MODULE JobLifecycle ----------------------------
(***************************************************************************)
(* What GET /api/jobs/{id} promises to a client that polls the status of  *)
(* an execution job: the job is created once, never goes back to QUEUED,  *)
(* and is finished only after it was running.  With AtLeastOnce FALSE a   *)
(* finished job is final; with AtLeastOnce TRUE a redelivered message may *)
(* run it again and overwrite the outcome.                                *)
(***************************************************************************)
CONSTANTS
    Jobs,
    AtLeastOnce     \* TRUE or FALSE

VARIABLE status

Finished == {"COMPLETED", "FAILED"}
WorkerStatus == {"RUNNING"} \cup Finished
InitialStatus == {"QUEUED", "FALLBACK_TO_AWS"}
Status == {"none"} \cup InitialStatus \cup WorkerStatus

Init == status = [j \in Jobs |-> "none"]

Move(j, from, to) ==
    /\ status[j] \in from
    /\ \E s \in to : status' = [status EXCEPT ![j] = s]

Create(j) == Move(j, {"none"}, InitialStatus)
Start(j)  == Move(j, {"QUEUED"}, {"RUNNING"})
Finish(j) == Move(j, {"RUNNING"}, Finished)
Redo(j)   == AtLeastOnce /\ Move(j, Finished, WorkerStatus)

Next == \E j \in Jobs : Create(j) \/ Start(j) \/ Finish(j) \/ Redo(j)

Spec == Init /\ [][Next]_status
=============================================================================
