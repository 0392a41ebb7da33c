--------------------------- MODULE ObjectWorkspace --------------------------
(***************************************************************************)
(* One user's workspace in object mode: the bucket, the staging directory  *)
(* of one backend process, and the requests and job threads that move      *)
(* files between them (blob_storage/sync_io.py and its callers in main.py).*)
(*                                                                        *)
(* A dataset's content is the number of the upload that made it, a model   *)
(* file is whole.  Any file is torn while a request writes it.  Charts,    *)
(* predictions and the history file are left out.                          *)
(***************************************************************************)
EXTENDS Naturals, FiniteSets

CONSTANTS
    Datasets,
    Models,      \* bound: trainings that write a model
    Requests,    \* bound: requests and job threads under way at one time
    MaxUploads,  \* bound: uploads
    MaxWork,     \* bound: uploads and trainings together
    ApiFaults    \* may a call to the object store fail

ASSUME ConstantsOK ==
    /\ MaxUploads \in Nat
    /\ ApiFaults \in BOOLEAN

None == "none"

Joblib(m) == <<m, "joblib">>
Json(m) == <<m, "json">>
ModelFiles == Models \X {"joblib", "json"}
Data == Datasets \X {"csv"}
Files == ModelFiles \cup Data

\* Contents of a file.  Uploads are numbered from 1.
Absent == 0
Torn == MaxUploads + 1
Whole == MaxUploads + 2
Contents == 0..Whole

VARIABLES
    store,      \* the objects in the bucket
    staging,    \* the files below staging_anchor
    req,        \* what each request is doing
    uploads,    \* number of uploads begun
    used,       \* model ids given out
    \* History variables, which the properties speak of:
    may,        \* what may be found under a dataset's name: the result of the
                \* last answered quiet change, or of a change after that one
    quiet,      \* datasets whose last change nobody has disturbed so far
    soiled,     \* files of which a half-written copy has been read for the bucket
    synced      \* models of answered requests that push the workspace

ghosts == <<may, quiet, soiled, synced>>
vars == <<store, staging, req, uploads, used, ghosts>>

-----------------------------------------------------------------------------
Jobs == {"train job", "predict job"}
Changes == {"upload", "delete"}
Trains == {"train", "train job"}
Predicts == {"predict", "predict job"}
Kinds == {"read", "models"} \cup Changes \cup Trains \cup Predicts

Steps == {"idle", "write", "written", "push", "fetch", "save", "saved",
          "fetch joblib", "check",
          "open", "erase", "unlink", "dump", "describe", "list data",
          "list models", "each", "put", "answer"}

\* kind: the handler.  file: the dataset it is about.  model: the model it
\* trains or applies.  own: the number of the upload.  todo: files still to
\* fetch or push, and then: the step after them.  moving, blob: the file of
\* which bytes have been read and not yet written, and the bytes.
Request == [kind : Kinds \cup {None}, step : Steps, file : Files \cup {None},
            model : Models \cup {None}, own : 0..MaxUploads,
            todo : SUBSET Files, then : Steps,
            moving : Files \cup {None}, blob : Contents]

Idle == [kind |-> None, step |-> "idle", file |-> None, model |-> None,
         own |-> 0, todo |-> {}, then |-> "idle", moving |-> None,
         blob |-> Absent]

TypeOK ==
    /\ store \in [Files -> Contents]
    /\ staging \in [Files -> Contents]
    /\ req \in [Requests -> Request]
    /\ uploads \in 0..MaxUploads
    /\ used \subseteq Models
    /\ may \in [Data -> SUBSET (0..MaxUploads)]
    /\ quiet \subseteq Data
    /\ soiled \subseteq Files
    /\ synced \subseteq used

Init ==
    /\ store = [f \in Files |-> Absent]
    /\ staging = [f \in Files |-> Absent]
    /\ req = [r \in Requests |-> Idle]
    /\ uploads = 0
    /\ used = {}
    /\ may = [f \in Data |-> {Absent}]
    /\ quiet = {}
    /\ soiled = {}
    /\ synced = {}

At(r, step) == req[r].step = step
Goto(r, step) == req' = [req EXCEPT ![r].step = step]
End(r) == req' = [req EXCEPT ![r] = Idle]

\* Go on with step loop while files are left, and with q.then after them.
Resume(q, loop, files) ==
    IF files # {}
    THEN [q EXCEPT !.step = loop, !.todo = files, !.moving = None, !.blob = Absent]
    ELSE [q EXCEPT !.step = q.then, !.todo = {}, !.then = "idle",
                   !.moving = None, !.blob = Absent]

Loop(r, loop, files, then) ==
    req' = [req EXCEPT ![r] = Resume([@ EXCEPT !.then = then], loop, files)]

\* The bytes of a file have been read and are not yet written.
Move(r, step, f, bytes) ==
    req' = [req EXCEPT ![r] = [@ EXCEPT !.step = step, !.moving = f, !.blob = bytes]]

\* Bytes of the file are in the hands of a request.
Moving(r, f) == req[r].step \in {"save", "saved", "put"} /\ req[r].moving = f

Changing(r, f) == req[r].kind \in Changes /\ req[r].file = f

\* A change is quiet while no other request changes the file, and none has read
\* bytes of it that it has not yet written.
Accept(r, request) ==
    LET f == request.file IN
    /\ At(r, "idle")
    /\ req' = [req EXCEPT ![r] = request]
    /\ quiet' = IF request.kind \notin Changes THEN quiet
                ELSE IF \E q \in Requests : Changing(q, f) \/ Moving(q, f)
                THEN quiet \ {f} ELSE quiet \cup {f}
    /\ UNCHANGED <<store, staging, used, may, soiled, synced>>

\* The request reads bytes of the file; a change reads those of its own.
Disturb(r, f) == quiet' = IF Changing(r, f) THEN quiet ELSE quiet \ {f}

\* The staged copy is read for the bucket.
ReadStaged(f) == soiled' = IF staging[f] = Torn THEN soiled \cup {f} ELSE soiled

\* A change of the file is answered, and c is what it has made of it.
Settle(f, c) ==
    /\ may' = IF f \in quiet THEN [may EXCEPT ![f] = {c}] ELSE may
    /\ soiled' = IF f \in quiet THEN soiled \ {f} ELSE soiled

\* A handler that begins by fetching files.
Begin(r, kind, f, m, files, then) ==
    /\ Accept(r, Resume([Idle EXCEPT !.kind = kind, !.file = f, !.model = m,
                                     !.then = then], "fetch", files))
    /\ UNCHANGED uploads

-----------------------------------------------------------------------------
(* The requests. *)

BeginUpload(r, f) ==
    /\ uploads < MaxUploads
    /\ uploads + Cardinality(used) < MaxWork
    /\ uploads' = uploads + 1
    /\ Accept(r, [Idle EXCEPT !.kind = "upload", !.file = f, !.own = uploads',
                              !.step = "write"])

BeginDelete(r, f) == Begin(r, "delete", f, None, {f}, "open")

\* preview, get_metrics, download_artifact: the file, or 404.
BeginRead(r, f) == Begin(r, "read", None, None, {f}, "answer")

\* list_models: the keys come from the bucket.
BeginModels(r) ==
    Begin(r, "models", None, None,
          {Json(m) : m \in {n \in Models : store[Json(n)] # Absent}}, "answer")

BeginTrain(r, f, kind) == Begin(r, kind, f, None, {f}, "open")

BeginPredict(r, f, m, kind) ==
    Begin(r, kind, f, m, {Json(m)}, "fetch joblib")

-----------------------------------------------------------------------------
(* The steps of sync_io.  Any of them may meet an error of the object      *)
(* store, which ends the request (Fail).                                   *)

\* fetch_file_if_missing up to the answer of get_bytes.
Fetch(r, f) ==
    /\ At(r, "fetch")
    /\ f \in req[r].todo
    /\ IF staging[f] # Absent \/ store[f] = Absent
       THEN Loop(r, "fetch", req[r].todo \ {f}, req[r].then) /\ UNCHANGED quiet
       ELSE Move(r, "save", f, store[f]) /\ Disturb(r, f)
    /\ UNCHANGED <<store, staging, uploads, used, may, soiled, synced>>

\* fetch_file_if_missing writes what it got.
Save(r) ==
    /\ \/ At(r, "save") /\ Goto(r, "saved")
       \/ At(r, "saved") /\ Loop(r, "fetch", req[r].todo \ {req[r].moving}, req[r].then)
    /\ staging' = [staging EXCEPT ![req[r].moving] =
                      IF At(r, "save") THEN Torn ELSE req[r].blob]
    /\ UNCHANGED <<store, uploads, used, ghosts>>

\* snapshot_push_workspace enters a directory and lists it.
ListDirectory(r, from, files, then) ==
    /\ At(r, from)
    /\ Loop(r, "each", {f \in files : staging[f] # Absent}, then)
    /\ UNCHANGED <<store, staging, uploads, used, ghosts>>

snapshot_push_workspace(r) ==
    \/ ListDirectory(r, "list data", Data, "list models")
    \/ ListDirectory(r, "list models", ModelFiles, "answer")

\* push_file reads the next file.  One that is gone is passed over, or, if it
\* went after is_file, ends the request: read_bytes raises.
PushRead(r, f) ==
    /\ At(r, "each")
    /\ f \in req[r].todo
    /\ \/ /\ staging[f] = Absent
          /\ Loop(r, "each", req[r].todo \ {f}, req[r].then) \/ End(r)
          /\ UNCHANGED <<quiet, soiled>>
       \/ /\ staging[f] # Absent
          /\ Move(r, "put", f, staging[f])
          /\ Disturb(r, f) /\ ReadStaged(f)
    /\ UNCHANGED <<store, staging, uploads, used, may, synced>>

\* push_file puts what it has read.
PushPut(r) ==
    /\ At(r, "put")
    /\ store' = [store EXCEPT ![req[r].moving] = req[r].blob]
    /\ Loop(r, "each", req[r].todo \ {req[r].moving}, req[r].then)
    /\ UNCHANGED <<staging, uploads, used, ghosts>>

\* get_bytes, put_bytes or delete_keys raises: the request answers 500, the job
\* fails.
Fail(r) ==
    /\ ApiFaults
    /\ \/ req[r].step \in {"push", "put", "erase"}
       \/ At(r, "fetch") /\ \E f \in req[r].todo : staging[f] = Absent
    /\ End(r)
    /\ UNCHANGED <<store, staging, uploads, used, ghosts>>

-----------------------------------------------------------------------------
(* The steps of the handlers. *)

\* _upload_csv_core blocks the event loop from here to its answer, so it
\* overlaps with no other upload.
Write(r) ==
    /\ At(r, "write")
    /\ \A q \in Requests : req[q].kind = "upload" => At(q, "write")
    /\ staging' = [staging EXCEPT ![req[r].file] = Torn]
    /\ Goto(r, "written")
    /\ UNCHANGED <<store, uploads, used, ghosts>>

Written(r) ==
    /\ At(r, "written")
    /\ staging' = [staging EXCEPT ![req[r].file] = req[r].own]
    /\ may' = [may EXCEPT ![req[r].file] = @ \cup {req[r].own}]
    /\ Goto(r, "push")
    /\ UNCHANGED <<store, uploads, used, quiet, soiled, synced>>

\* push_file of the uploaded file (read_bytes raises if it is gone), then
\* _load_csv.
Push(r) ==
    /\ At(r, "push")
    /\ LET f == req[r].file IN
       IF staging[f] = Absent
       THEN End(r) /\ UNCHANGED <<store, soiled>>
       ELSE /\ store' = [store EXCEPT ![f] = staging[f]]
            /\ Loop(r, "fetch", {f}, "open")
            /\ ReadStaged(f)
    /\ UNCHANGED <<staging, uploads, used, may, quiet, synced>>

\* After the fetches of a handler: 404 if the file is still missing.
Open(r, kind, step) ==
    /\ At(r, "open")
    /\ req[r].kind = kind
    /\ IF staging[req[r].file] = Absent THEN End(r) ELSE Goto(r, step)
    /\ UNCHANGED <<store, staging, uploads, used, ghosts>>

OpenUpload(r) == Open(r, "upload", "answer")
OpenDelete(r) == Open(r, "delete", "erase")

AfterTraining_NoPush(r) == "answer"

\* The synchronous training pushes the workspace (train_sync_via_main_impl),
\* the job does not.
AfterTraining(r) ==
    IF req[r].kind = "train" THEN "list data" ELSE "answer"

\* The content cannot be read or does not fit the request, or what a training
\* writes after its model (history, run rows, lineage) cannot be written.
Refuse(r) ==
    /\ \/ At(r, "open") /\ req[r].kind # "delete"
       \/ req[r].kind \in Trains /\ At(r, AfterTraining(r))
    /\ End(r)
    /\ UNCHANGED <<store, staging, uploads, used, ghosts>>

\* delete_dataset: delete_file_from_store, then unlink.
Erase(r) ==
    /\ At(r, "erase")
    /\ store' = [store EXCEPT ![req[r].file] = Absent]
    /\ may' = [may EXCEPT ![req[r].file] = @ \cup {Absent}]
    /\ Goto(r, "unlink")
    /\ UNCHANGED <<staging, uploads, used, quiet, soiled, synced>>

\* The staged copy is forgotten.
Unlink_Kept(r) ==
    /\ At(r, "unlink")
    /\ Settle(req[r].file, Absent)
    /\ End(r)
    /\ UNCHANGED <<store, staging, uploads, used, quiet, synced>>

Unlink(r) ==
    /\ At(r, "unlink")
    /\ staging' = [staging EXCEPT ![req[r].file] = Absent]
    /\ Settle(req[r].file, Absent)
    /\ End(r)
    /\ UNCHANGED <<store, uploads, used, quiet, synced>>

\* The model is not given an id of its own.
OpenTrain_NoNewId(r, m) ==
    /\ At(r, "open")
    /\ req[r].kind \in Trains
    /\ staging[req[r].file] # Absent
    /\ staging' = [staging EXCEPT ![Joblib(m)] = Torn]
    /\ req' = [req EXCEPT ![r].step = "dump", ![r].model = m]
    /\ UNCHANGED <<store, uploads, used, ghosts>>

\* _train_impl has its data and trained.  It writes the model, then the
\* metadata; a file is torn while it is written, and the first one is whole
\* when the second is opened.
OpenTrain(r, m) ==
    /\ m \notin used
    /\ uploads + Cardinality(used) < MaxWork
    /\ At(r, "open")
    /\ req[r].kind \in Trains
    /\ staging[req[r].file] # Absent
    /\ used' = used \cup {m}
    /\ staging' = [staging EXCEPT ![Joblib(m)] = Torn]
    /\ req' = [req EXCEPT ![r].step = "dump", ![r].model = m]
    /\ UNCHANGED <<store, uploads, ghosts>>

Dump(r) ==
    LET m == req[r].model IN
    /\ At(r, "dump")
    /\ staging' = [staging EXCEPT ![Joblib(m)] = Whole, ![Json(m)] = Torn]
    /\ Goto(r, "describe")
    /\ UNCHANGED <<store, uploads, used, ghosts>>

Describe(r) ==
    /\ At(r, "describe")
    /\ staging' = [staging EXCEPT ![Json(req[r].model)] = Whole]
    /\ Goto(r, AfterTraining(r))
    /\ UNCHANGED <<store, uploads, used, ghosts>>

\* _predict_impl: fetch both files of the model, read the metadata, fetch the
\* dataset and load the model.
FetchJoblib(r) ==
    /\ At(r, "fetch joblib")
    /\ Loop(r, "fetch", {Joblib(req[r].model)}, "check")
    /\ UNCHANGED <<store, staging, uploads, used, ghosts>>

CheckModel(r) ==
    /\ At(r, "check")
    /\ IF staging[Json(req[r].model)] = Whole
       THEN Loop(r, "fetch", {req[r].file}, "open")
       ELSE End(r)
    /\ UNCHANGED <<store, staging, uploads, used, ghosts>>

\* POST /api/predict pushes the workspace, the job does not.
OpenPredict(r) ==
    /\ At(r, "open")
    /\ req[r].kind \in Predicts
    /\ IF staging[req[r].file] = Absent
            \/ staging[Joblib(req[r].model)] # Whole
            \/ req[r].kind = "predict job"
       THEN End(r)
       ELSE Goto(r, "list data")
    /\ UNCHANGED <<store, staging, uploads, used, ghosts>>

Answer(r) ==
    LET q == req[r] IN
    /\ At(r, "answer")
    /\ IF q.kind = "upload"
       THEN Settle(q.file, q.own) ELSE UNCHANGED <<may, soiled>>
    /\ synced' = IF q.kind \in {"train", "predict"}
                 THEN synced \cup {q.model} ELSE synced
    /\ End(r)
    /\ UNCHANGED <<store, staging, uploads, used, quiet>>

\* The process ends and starts again.  The temporary directory survives a
\* restart of the process, half-written copies included, not a new container.
Restart ==
    /\ req' = [r \in Requests |-> Idle]
    /\ staging' = [f \in Files |-> Absent] \/ UNCHANGED staging
    /\ UNCHANGED <<store, uploads, used, ghosts>>

-----------------------------------------------------------------------------
\* Users name the models they have been told of.
Arrive(r) ==
    \/ BeginModels(r)
    \/ \E f \in Data \cup used \X {"joblib", "json"} : BeginRead(r, f)
    \/ \E f \in Data :
          \/ BeginUpload(r, f)
          \/ BeginDelete(r, f)
          \/ \E kind \in Trains : BeginTrain(r, f, kind)
          \/ \E kind \in Predicts, m \in used : BeginPredict(r, f, m, kind)

Sync(r) ==
    \/ \E f \in Files : Fetch(r, f) \/ PushRead(r, f)
    \/ Save(r) \/ snapshot_push_workspace(r) \/ PushPut(r) \/ Fail(r)

Handler(r) ==
    \/ Write(r) \/ Written(r) \/ Push(r) \/ OpenUpload(r) \/ Refuse(r)
    \/ OpenDelete(r) \/ Erase(r) \/ Unlink(r)
    \/ \E m \in Models : OpenTrain(r, m)
    \/ Dump(r) \/ Describe(r) \/ FetchJoblib(r) \/ CheckModel(r) \/ OpenPredict(r)
    \/ Answer(r)

Next == Restart \/ \E r \in Requests : Arrive(r) \/ Sync(r) \/ Handler(r)

Spec == Init /\ [][Next]_vars

-----------------------------------------------------------------------------
\* What a request finds under a dataset's name is never older than the last
\* change (upload or delete) that was answered and that no other request
\* disturbed, by changing the dataset too or by moving its bytes while that change
\* was under way: a copy left in the staging directory (main.py:618, main.py:3058,
\* sync_io.py:47) is not, whichever restarts and transfers follow, and no push of
\* the whole workspace brings back what was deleted.  Of a change that was
\* disturbed it says nothing but that: sync_io.py:49-53 may write an older copy
\* after it.  A half-written copy may be found in the staging directory; one that
\* is in the bucket was read there by a push, and the next quiet change ends it.
DatasetIsRecent ==
    \A f \in Data :
        /\ store[f] \in may[f] \/ (store[f] = Torn /\ f \in soiled)
        /\ staging[f] \in may[f] \cup {Absent, Torn}

FilesOf(m) == {Joblib(m), Json(m)}
Stored(m) == \A f \in FilesOf(m) : store[f] = Whole

\* Both files of a model for which POST /api/train or POST /api/predict has
\* answered (aws_executor.py:30, main.py:1814) are whole in the bucket for ever,
\* whoever else pushes, fetches and trains and whenever the process ends; unless
\* some push has read one of them while it was being written.
SyncedModelSurvives ==
    \A m \in synced : FilesOf(m) \cap soiled = {} => Stored(m)

\* As snapshot_push_workspace says of itself (sync_io.py:223), the workspace is
\* uploaded when the work has ended: a training about to report that it is
\* complete has its model in the bucket.
TrainedModelIsSynced ==
    \A r \in Requests :
        At(r, "answer") /\ req[r].kind \in Trains => Stored(req[r].model)
=============================================================================
