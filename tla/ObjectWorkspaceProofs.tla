------------------------ MODULE ObjectWorkspaceProofs -----------------------
(***************************************************************************)
(* ObjectWorkspace for any datasets, models, requests and number of        *)
(* uploads, however they overlap: its types, that a dataset is never found *)
(* older than its last quiet change, and that a synced model survives.     *)
(***************************************************************************)
EXTENDS ObjectWorkspace, TLAPS

Fetching == {"fetch", "save", "saved"}
Pushing == {"each", "put"}

\* The steps of a training that has written, or is writing, its model.
ModelSteps == {"dump", "describe", "list data", "list models", "each", "put", "answer"}

Syncs == {"train", "predict"}  \* the kinds that push the workspace

-----------------------------------------------------------------------------
(* What a request is about, at each of its steps. *)

\* Each step belongs to some of the kinds.
KindFits(q) ==
    /\ q.step = "idle" <=> q.kind = None
    /\ q.step \in {"write", "written", "push"} => q.kind = "upload"
    /\ q.step \in {"erase", "unlink"} => q.kind = "delete"
    /\ q.step \in {"dump", "describe"} => q.kind \in Trains
    /\ q.step \in {"fetch joblib", "check"} => q.kind \in Predicts
    /\ q.step \in {"list data", "list models"} \cup Pushing => q.kind \in Syncs
    /\ q.step = "open" => q.kind \notin {"read", "models"}

\* A loop goes on to a step of its kind, and holds what it is about.
LoopFits(q) ==
    /\ q.step \in Fetching =>
          \/ q.then = "answer" /\ q.kind \in {"read", "models"}
          \/ q.then = "open" /\ q.todo \subseteq {q.file} /\ q.kind \notin {"read", "models"}
          \/ q.then \in {"fetch joblib", "check"} /\ q.kind \in Predicts
    /\ q.step \in Pushing => q.then \in {"list models", "answer"}
    /\ q.step \in {"save", "saved", "put"} => q.moving \in q.todo

\* What it is about exists.
SubjectFits(q) ==
    /\ q.kind \in Changes \cup Trains \cup Predicts => q.file \in Data
    /\ q.kind = "upload" => q.own # 0
    /\ q.kind \in Predicts => q.model \in used
    /\ q.kind \in Trains /\ q.step \in ModelSteps => q.model \in used

Fits(q) == KindFits(q) /\ LoopFits(q) /\ SubjectFits(q)

Shape == TypeOK /\ \A r \in Requests : Fits(req[r])

-----------------------------------------------------------------------------
(* The datasets. *)

\* The bucket may hold c under the name f.
Found(f, c) == c \in may[f] \/ (c = Torn /\ f \in soiled)

\* While the last change of f is quiet, nobody else has bytes of f in hand or
\* changes it, and it finds what it has made of it.  An upload does not fetch.
QuietHolds(r, f) ==
    /\ Moving(r, f) => Changing(r, f)
    /\ Changing(r, f) =>
         /\ \A q \in Requests \ {r} : ~Changing(q, f)
         /\ req[r].kind = "upload" =>
              /\ ~Moving(r, f)
              /\ req[r].step \notin {"write", "written"} => staging[f] = req[r].own
              /\ req[r].step \in {"fetch", "open", "answer"} => store[f] = req[r].own
         /\ At(r, "unlink") => store[f] = Absent

RecentHolds(f) == Found(f, store[f]) /\ staging[f] \in may[f] \cup {Absent, Torn}
HandsHold(f) == \A r \in Requests : Moving(r, f) => Found(f, req[r].blob)
QuietIsHeld(f) == f \in quiet => \A r \in Requests : QuietHolds(r, f)

DatasetHolds(f) == RecentHolds(f) /\ HandsHold(f) /\ QuietIsHeld(f)

DataInv == \A f \in Data : DatasetHolds(f)

-----------------------------------------------------------------------------
(* The models. *)

ModelContents == {Absent, Torn, Whole}

\* A model file that no push has read half-written is whole in the bucket, if it
\* is there, and whole on its way to it.
ModelFileHolds(g) ==
    /\ store[g] \in ModelContents /\ staging[g] \in ModelContents
    /\ \A r \in Requests : Moving(r, g) => req[r].blob \in ModelContents \ {Absent}
    /\ g \notin soiled => /\ store[g] # Torn
                          /\ \A r \in Requests :
                                At(r, "put") /\ req[r].moving = g => req[r].blob # Torn

Staged(g) == staging[g] # Absent

\* A prediction that has read the metadata of its model.
Checked(r) ==
    /\ req[r].kind \in Predicts
    /\ \/ req[r].step \in {"open", "answer", "list data", "list models"} \cup Pushing
       \/ req[r].step \in Fetching /\ req[r].then = "open"

\* The push of a request has listed the models.
PushedModels(r) == At(r, "answer") \/ (req[r].step \in Pushing /\ req[r].then = "answer")

\* A training or a prediction has staged its model before it pushes, and from
\* the listing on each file is in the bucket or still to be put there.
SyncHolds(r) ==
    LET m == req[r].model IN
    /\ req[r].step \in {"dump", "describe"} => Staged(Joblib(m))
    /\ At(r, "describe") \/ Checked(r) => Staged(Json(m))
    /\ req[r].kind \in Syncs /\ req[r].step \in {"list data", "list models"} \cup Pushing =>
         Staged(Joblib(m)) /\ Staged(Json(m))
    /\ req[r].kind \in Syncs /\ PushedModels(r) =>
         \A g \in FilesOf(m) :
            store[g] # Absent \/ (req[r].step \in Pushing /\ g \in req[r].todo)

ModelInv ==
    /\ \A g \in ModelFiles : ModelFileHolds(g)
    /\ \A r \in Requests : SyncHolds(r)
    /\ \A m \in synced : \A g \in FilesOf(m) : store[g] # Absent

-----------------------------------------------------------------------------
(* Files and requests. *)

\* The two files of a model are distinct, belong to no other model and are no
\* datasets.
LEMMA FilesAreApart ==
  /\ \A m \in Models : Joblib(m) \in Files \ Data /\ Json(m) \in Files \ Data
  /\ \A m \in Models : FilesOf(m) \subseteq Files \ Data
  /\ \A m, n \in Models : Joblib(m) # Json(n)
  /\ \A m, n \in Models : FilesOf(m) \cap FilesOf(n) # {} => m = n
  /\ Data \subseteq Files
  /\ ModelFiles \subseteq Files \ Data
  /\ \A m \in Models : FilesOf(m) \subseteq ModelFiles
<1>1. \A m, n \in Models : Joblib(m) # Json(n) /\ (Joblib(m) = Joblib(n) => m = n)
                              /\ (Json(m) = Json(n) => m = n)
  BY DEF Joblib, Json
<1>2. \A m \in Models : Joblib(m) \in ModelFiles /\ Json(m) \in ModelFiles
  BY DEF Joblib, Json, ModelFiles
<1>3. ModelFiles \cap Data = {}
  BY DEF ModelFiles, Data
<1> QED
  BY <1>1, <1>2, <1>3 DEF Files, FilesOf

\* A content is a number, and the three marks differ from every upload.
LEMMA ContentsAreApart ==
  /\ Absent \in Contents /\ Torn \in Contents /\ Whole \in Contents
  /\ 0..MaxUploads \subseteq Contents
  /\ Absent # Torn /\ Absent # Whole /\ Torn # Whole
  /\ Absent \in 0..MaxUploads /\ Torn \notin 0..MaxUploads /\ Whole \notin 0..MaxUploads
  BY ConstantsOK DEF Contents, Absent, Torn, Whole

LEMMA RequestFields ==
  ASSUME NEW q \in Request
  PROVE  /\ q.kind \in Kinds \cup {None} /\ q.step \in Steps
         /\ q.file \in Files \cup {None} /\ q.model \in Models \cup {None}
         /\ q.own \in 0..MaxUploads /\ q.todo \in SUBSET Files /\ q.then \in Steps
         /\ q.moving \in Files \cup {None} /\ q.blob \in Contents
  BY DEF Request

LEMMA IdleFields ==
  /\ Idle \in Request
  /\ Idle.kind = None /\ Idle.step = "idle" /\ Idle.todo = {}
<1>1. "idle" \in Steps /\ 0 \in 0..MaxUploads
  BY ConstantsOK DEF Steps
<1> QED
  BY <1>1, ContentsAreApart DEF Idle, Request

\* What Resume leaves alone, and where it goes.
LEMMA ResumeFields ==
  ASSUME NEW q \in Request, NEW loop \in Steps, NEW files \in SUBSET Files
  PROVE  LET n == Resume(q, loop, files) IN
         /\ n \in Request
         /\ n.kind = q.kind /\ n.file = q.file /\ n.model = q.model /\ n.own = q.own
         /\ files # {} => n.step = loop /\ n.todo = files /\ n.then = q.then
         /\ files = {} => n.step = q.then /\ n.todo = {}
<1>1. CASE files # {}
  BY <1>1, ContentsAreApart DEF Resume, Request
<1>2. CASE files = {}
  <2>1. "idle" \in Steps
    BY DEF Steps
  <2> QED
    BY <1>2, <2>1, ContentsAreApart DEF Resume, Request
<1> QED
  BY <1>1, <1>2

\* A step of one request leaves the records of the others alone ...
Others(r) == \A q \in Requests \ {r} : req'[q] = req[q]

\* ... and mostly what it is about.
Same(r) == /\ req'[r].kind = req[r].kind /\ req'[r].file = req[r].file
           /\ req'[r].model = req[r].model /\ req'[r].own = req[r].own

Steady(r) == req' \in [Requests -> Request] /\ Others(r) /\ Same(r)

\* Goto, Loop, Move and End, field by field.
Goes(r, step) ==
  /\ Steady(r) /\ req'[r].step = step /\ req'[r].todo = req[r].todo
  /\ req'[r].then = req[r].then /\ req'[r].moving = req[r].moving
  /\ req'[r].blob = req[r].blob

Loops(r, loop, files, then) ==
  /\ Steady(r)
  /\ files # {} => req'[r].step = loop /\ req'[r].todo = files /\ req'[r].then = then
  /\ files = {} => req'[r].step = then /\ req'[r].todo = {}

Moves(r, step, f, bytes) ==
  /\ Steady(r) /\ req'[r].step = step /\ req'[r].todo = req[r].todo
  /\ req'[r].then = req[r].then /\ req'[r].moving = f /\ req'[r].blob = bytes

Ends(r) ==
  /\ req' \in [Requests -> Request] /\ Others(r)
  /\ req'[r].kind = None /\ req'[r].step = "idle"

LEMMA GotoEffect ==
  ASSUME TypeOK, NEW r \in Requests, NEW step \in Steps, Goto(r, step)
  PROVE  Goes(r, step)
<1>1. req[r] \in Request
  BY DEF TypeOK
<1>2. [req[r] EXCEPT !.step = step] \in Request
  BY <1>1 DEF Request
<1>3. req' = [req EXCEPT ![r] = [req[r] EXCEPT !.step = step]]
  BY DEF Goto, TypeOK
<1> QED
  BY <1>1, <1>2, <1>3 DEF Goes, Steady, Others, Same, Request, TypeOK

LEMMA LoopEffect ==
  ASSUME TypeOK, NEW r \in Requests, NEW loop \in Steps, NEW then \in Steps,
         NEW files \in SUBSET Files, Loop(r, loop, files, then)
  PROVE  Loops(r, loop, files, then)
<1> DEFINE q == [req[r] EXCEPT !.then = then]
<1>1. q \in Request /\ q.kind = req[r].kind /\ q.file = req[r].file
        /\ q.model = req[r].model /\ q.own = req[r].own /\ q.then = then
  BY DEF TypeOK, Request
<1>2. req' = [req EXCEPT ![r] = Resume(q, loop, files)]
  BY DEF Loop, TypeOK
<1> HIDE DEF q
<1>3. Resume(q, loop, files) \in Request
  BY <1>1, ResumeFields
<1>4. req' \in [Requests -> Request] /\ req'[r] = Resume(q, loop, files) /\ Others(r)
  BY <1>2, <1>3 DEF TypeOK, Others
<1> QED
  BY <1>1, <1>4, ResumeFields DEF Loops, Steady, Same

LEMMA MoveEffect ==
  ASSUME TypeOK, NEW r \in Requests, NEW step \in Steps, NEW f \in Files,
         NEW bytes \in Contents, Move(r, step, f, bytes)
  PROVE  Moves(r, step, f, bytes)
<1> DEFINE q == [req[r] EXCEPT !.step = step, !.moving = f, !.blob = bytes]
<1>1. /\ q \in Request /\ q.kind = req[r].kind /\ q.file = req[r].file
      /\ q.model = req[r].model /\ q.own = req[r].own /\ q.then = req[r].then
      /\ q.step = step /\ q.todo = req[r].todo /\ q.moving = f /\ q.blob = bytes
  BY DEF TypeOK, Request
<1>2. req' = [req EXCEPT ![r] = q]
  BY DEF Move, TypeOK
<1> HIDE DEF q
<1> QED
  BY <1>1, <1>2 DEF Moves, Steady, Others, Same, TypeOK

LEMMA EndEffect ==
  ASSUME TypeOK, NEW r \in Requests, End(r)
  PROVE  Ends(r)
  BY IdleFields DEF End, Ends, TypeOK, Others


\* A change of f arrives quiet if nobody else is at f.
Accepted(r) ==
  /\ quiet' \subseteq Data
  /\ \A f \in quiet' :
       \/ f \in quiet /\ ~(Changing(r, f)')
       \/ /\ Changing(r, f)'
          /\ \A q \in Requests : ~Changing(q, f) /\ ~Moving(q, f)

LEMMA AcceptEffect ==
  ASSUME TypeOK, NEW r \in Requests, NEW q \in Request, Accept(r, q),
         q.kind \in Changes => q.file \in Data
  PROVE  Accepted(r)
<1>1. req'[r] = q /\ quiet \subseteq Data
  BY DEF Accept, TypeOK
<1>2. \A f : Changing(r, f)' <=> q.kind \in Changes /\ q.file = f
  BY <1>1 DEF Changing
<1>3. CASE q.kind \notin Changes
  BY <1>1, <1>2, <1>3 DEF Accept, Accepted
<1>4. CASE q.kind \in Changes
  BY <1>1, <1>2, <1>4 DEF Accept, Accepted
<1> QED
  BY <1>3, <1>4

LEMMA BeginEffect ==
  ASSUME TypeOK, NEW r \in Requests, NEW kind \in Kinds, NEW f \in Files \cup {None},
         NEW m \in Models \cup {None}, NEW files \in SUBSET Files, NEW then \in Steps,
         Begin(r, kind, f, m, files, then)
  PROVE  /\ req' \in [Requests -> Request] /\ Others(r) /\ At(r, "idle")
         /\ (kind \in Changes => f \in Data) => Accepted(r)
         /\ req'[r].kind = kind /\ req'[r].file = f /\ req'[r].model = m
         /\ files # {} => /\ req'[r].step = "fetch" /\ req'[r].todo = files
                          /\ req'[r].then = then
         /\ files = {} => req'[r].step = then /\ req'[r].todo = {}
<1> DEFINE q == [Idle EXCEPT !.kind = kind, !.file = f, !.model = m, !.then = then]
<1>1. q \in Request /\ q.kind = kind /\ q.file = f /\ q.model = m /\ q.then = then
  BY IdleFields DEF Request
<1>2. "fetch" \in Steps
  BY DEF Steps
<1>3. Accept(r, Resume(q, "fetch", files))
  BY DEF Begin
<1> HIDE DEF q
<1>4. /\ Resume(q, "fetch", files) \in Request
      /\ Resume(q, "fetch", files).kind = kind /\ Resume(q, "fetch", files).file = f
      /\ Resume(q, "fetch", files).model = m
  BY <1>1, <1>2, ResumeFields
<1>5. req' = [req EXCEPT ![r] = Resume(q, "fetch", files)] /\ At(r, "idle")
  BY <1>3, <1>4 DEF Accept
<1>6. req' \in [Requests -> Request] /\ req'[r] = Resume(q, "fetch", files) /\ Others(r)
  BY <1>4, <1>5 DEF TypeOK, Others
<1>7. (kind \in Changes => f \in Data) => Accepted(r)
  BY <1>3, <1>4, AcceptEffect
<1> QED
  BY <1>1, <1>2, <1>4, <1>5, <1>6, <1>7, ResumeFields

-----------------------------------------------------------------------------
(* Types and shape. *)

\* A handler arrives with a request that fits, at one of three steps.
Arrived(r) ==
  /\ req' \in [Requests -> Request] /\ Others(r) /\ At(r, "idle")
  /\ req'[r].kind \in Kinds /\ Accepted(r)
  /\ UNCHANGED <<store, staging, used, may, soiled, synced>> /\ uploads' \in 0..MaxUploads
  /\ Fits(req[r])'
  /\ \/ req'[r].step = "fetch" /\ req'[r].kind # "upload"
        /\ (req'[r].kind \in Predicts => req'[r].then # "open")
     \/ req'[r].step = "write" /\ req'[r].kind = "upload"
     \/ req'[r].step = "answer" /\ req'[r].kind = "models"

LEMMA ArriveEffect ==
  ASSUME Shape, NEW r \in Requests, Arrive(r)
  PROVE  Arrived(r)
<1>1. TypeOK /\ used \subseteq Models /\ Data \subseteq Files
  BY FilesAreApart DEF Shape, TypeOK
<1>0. /\ {"fetch", "answer", "open", "fetch joblib", "write"} \subseteq Steps
      /\ {"read", "models", "upload", "delete"} \cup Trains \cup Predicts \subseteq Kinds
      /\ None \in Files \cup {None} /\ None \in Models \cup {None}
  BY DEF Steps, Kinds, Trains, Predicts, Changes
<1>2. \A f \in used \X {"joblib", "json"} : f \in Files
  BY <1>1 DEF Files, ModelFiles
<1>3. ASSUME NEW f \in Files, BeginRead(r, f)
      PROVE  /\ req'[r].kind = "read" /\ req'[r].step = "fetch" /\ req'[r].then = "answer"
             /\ req' \in [Requests -> Request] /\ Others(r) /\ At(r, "idle")
             /\ Accepted(r) /\ UNCHANGED uploads
  <2>1. Begin(r, "read", None, None, {f}, "answer")
    BY <1>3 DEF BeginRead
  <2>2. UNCHANGED uploads
    BY <2>1 DEF Begin
  <2>4. "read" \notin Changes
    BY DEF Changes
  <2>3. "read" \in Kinds /\ "answer" \in Steps /\ {f} \in SUBSET Files /\ {f} # {}
    BY <1>0
  <2> QED
    BY <1>0, <1>1, <2>1, <2>2, <2>3, <2>4, BeginEffect
<1>4. ASSUME BeginModels(r)
      PROVE  /\ req'[r].kind = "models"
             /\ \/ req'[r].step = "fetch" /\ req'[r].then = "answer"
                \/ req'[r].step = "answer"
             /\ req' \in [Requests -> Request] /\ Others(r) /\ At(r, "idle")
             /\ Accepted(r) /\ UNCHANGED uploads
  <2> DEFINE files == {Json(m) : m \in {n \in Models : store[Json(n)] # Absent}}
  <2>1. Begin(r, "models", None, None, files, "answer")
    BY <1>4 DEF BeginModels
  <2>2. UNCHANGED uploads
    BY <2>1 DEF Begin
  <2>3. "models" \in Kinds /\ "answer" \in Steps /\ files \in SUBSET Files
    BY <1>0, FilesAreApart
  <2> HIDE DEF files
  <2>5. "models" \notin Changes
    BY DEF Changes
  <2>4. /\ req' \in [Requests -> Request] /\ Others(r) /\ At(r, "idle")
        /\ Accepted(r) /\ req'[r].kind = "models"
        /\ files # {} => req'[r].step = "fetch" /\ req'[r].then = "answer"
        /\ files = {} => req'[r].step = "answer"
    BY <1>0, <1>1, <2>1, <2>3, <2>5, BeginEffect
  <2> QED
    BY <2>2, <2>4
<1>5. ASSUME NEW f \in Data, NEW kind \in {"delete"} \cup Trains,
             Begin(r, kind, f, None, {f}, "open")
      PROVE  /\ req'[r].kind = kind /\ req'[r].step = "fetch" /\ req'[r].then = "open"
             /\ req'[r].todo = {f} /\ req'[r].file = f
             /\ req' \in [Requests -> Request] /\ Others(r) /\ At(r, "idle")
             /\ Accepted(r) /\ UNCHANGED uploads
  <2>1. UNCHANGED uploads
    BY <1>5 DEF Begin
  <2>2. kind \in Kinds /\ "open" \in Steps /\ {f} \in SUBSET Files /\ {f} # {} /\ f \in Files
    BY <1>0, <1>1
  <2> QED
    BY <1>0, <1>1, <1>5, <2>1, <2>2, BeginEffect
<1>6. ASSUME NEW f \in Data, NEW m \in used, NEW kind \in Predicts, BeginPredict(r, f, m, kind)
      PROVE  /\ req'[r].kind = kind /\ req'[r].step = "fetch" /\ req'[r].then = "fetch joblib"
             /\ req'[r].file = f /\ req'[r].model = m
             /\ req' \in [Requests -> Request] /\ Others(r) /\ At(r, "idle")
             /\ Accepted(r) /\ UNCHANGED uploads
  <2>1. Begin(r, kind, f, m, {Json(m)}, "fetch joblib")
    BY <1>6 DEF BeginPredict
  <2>2. UNCHANGED uploads
    BY <2>1 DEF Begin
  <2>4. kind \notin Changes
    BY DEF Changes, Predicts
  <2>3. /\ {Json(m)} \in SUBSET Files /\ {Json(m)} # {} /\ m \in Models /\ f \in Files
        /\ kind \in Kinds /\ "fetch joblib" \in Steps
    BY <1>0, <1>1, FilesAreApart
  <2> QED
    BY <1>0, <1>1, <2>1, <2>2, <2>3, <2>4, BeginEffect
<1>7. ASSUME NEW f \in Data, BeginUpload(r, f)
      PROVE  /\ req'[r].kind = "upload" /\ req'[r].step = "write"
             /\ req'[r].file = f /\ req'[r].own # 0
             /\ req' \in [Requests -> Request] /\ Others(r) /\ At(r, "idle")
             /\ Accepted(r) /\ uploads' \in 0..MaxUploads
  <2> DEFINE q == [Idle EXCEPT !.kind = "upload", !.file = f, !.own = uploads', !.step = "write"]
  <2>1. uploads' \in 0..MaxUploads /\ uploads' # 0
    BY <1>1, <1>7, ConstantsOK DEF BeginUpload, TypeOK
  <2>2. q \in Request /\ q.kind = "upload" /\ q.file = f /\ q.own = uploads' /\ q.step = "write"
    BY <1>0, <1>1, <2>1, IdleFields DEF Request
  <2>3. req' = [req EXCEPT ![r] = q] /\ At(r, "idle")
    BY <1>7 DEF BeginUpload, Accept
  <2>4. Accept(r, q)
    BY <1>7 DEF BeginUpload
  <2> HIDE DEF q
  <2>5. Accepted(r)
    BY <1>1, <2>2, <2>4, AcceptEffect
  <2> QED
    BY <1>1, <2>1, <2>2, <2>3, <2>5 DEF TypeOK, Others
<1>8. UNCHANGED <<store, staging, used, may, soiled, synced>>
  BY DEF Arrive, BeginModels, BeginRead, BeginUpload, BeginDelete, BeginTrain, BeginPredict,
         Begin, Accept, ghosts
<1>9. uploads \in 0..MaxUploads
  BY <1>1 DEF TypeOK
<1> USE DEF Fits, KindFits, LoopFits, SubjectFits, Fetching, Pushing, Changes, Trains,
            Predicts, Syncs, ModelSteps, Jobs, Kinds, None
<1>10. ASSUME BeginModels(r) PROVE Arrived(r)
  BY <1>4, <1>8, <1>9, <1>10 DEF Arrived
<1>11. ASSUME NEW f \in Data \cup used \X {"joblib", "json"}, BeginRead(r, f)
       PROVE  Arrived(r)
  BY <1>1, <1>2, <1>3, <1>8, <1>9, <1>11 DEF Arrived
<1>12. ASSUME NEW f \in Data, BeginUpload(r, f) PROVE Arrived(r)
  BY <1>7, <1>8, <1>12 DEF Arrived
<1>13. ASSUME NEW f \in Data, NEW kind \in {"delete"} \cup Trains,
              Begin(r, kind, f, None, {f}, "open")
       PROVE  Arrived(r)
  BY <1>5, <1>8, <1>9, <1>13 DEF Arrived
<1>14. ASSUME NEW f \in Data, NEW m \in used, NEW kind \in Predicts, BeginPredict(r, f, m, kind)
       PROVE  Arrived(r)
  BY <1>6, <1>8, <1>9, <1>14 DEF Arrived
<1> QED
  BY <1>10, <1>11, <1>12, <1>13, <1>14 DEF Arrive, BeginDelete, BeginTrain

LEMMA StepNames == Steps = {"idle", "write", "written", "push", "fetch", "save", "saved",
                            "fetch joblib", "check", "open", "erase", "unlink", "dump",
                            "describe", "list data", "list models", "each", "put", "answer"}
  BY DEF Steps

-----------------------------------------------------------------------------
(* The steps of sync_io, with the fields they set. *)

Fetched(r, f) ==
  /\ At(r, "fetch") /\ f \in req[r].todo
  /\ UNCHANGED <<store, staging, uploads, used, may, soiled, synced>>
  /\ \/ /\ staging[f] # Absent \/ store[f] = Absent
        /\ Loops(r, "fetch", req[r].todo \ {f}, req[r].then) /\ UNCHANGED quiet
     \/ /\ staging[f] = Absent /\ store[f] # Absent
        /\ Moves(r, "save", f, store[f]) /\ Disturb(r, f)

LEMMA FetchEffect ==
  ASSUME Shape, NEW r \in Requests, NEW f \in Files, Fetch(r, f)
  PROVE  Fetched(r, f)
<1> USE DEF Fetched
<1>1. TypeOK /\ req[r] \in Request /\ store[f] \in Contents
  BY DEF Shape, TypeOK
<1>2. "fetch" \in Steps /\ "save" \in Steps
  BY StepNames
<1>3. req[r].todo \ {f} \in SUBSET Files /\ req[r].then \in Steps
  BY <1>1, RequestFields
<1>4. CASE staging[f] # Absent \/ store[f] = Absent
  <2>1. Loop(r, "fetch", req[r].todo \ {f}, req[r].then)
    BY <1>4 DEF Fetch
  <2>2. Loops(r, "fetch", req[r].todo \ {f}, req[r].then)
    BY <1>1, <1>2, <1>3, <2>1, LoopEffect
  <2> QED
    BY <1>4, <2>2 DEF Fetch
<1>5. CASE ~(staging[f] # Absent \/ store[f] = Absent)
  <2>1. Move(r, "save", f, store[f])
    BY <1>5 DEF Fetch
  <2>2. Moves(r, "save", f, store[f])
    BY <1>1, <1>2, <2>1, MoveEffect
  <2> QED
    BY <1>5, <2>2 DEF Fetch
<1> QED
  BY <1>4, <1>5

Saved(r) ==
  /\ req[r].moving \in Files /\ req[r].moving \in req[r].todo
  /\ UNCHANGED <<store, uploads, used, may, quiet, soiled, synced>>
  /\ \/ /\ At(r, "save") /\ Goes(r, "saved")
        /\ staging' = [staging EXCEPT ![req[r].moving] = Torn]
     \/ /\ At(r, "saved")
        /\ Loops(r, "fetch", req[r].todo \ {req[r].moving}, req[r].then)
        /\ staging' = [staging EXCEPT ![req[r].moving] = req[r].blob]

LEMMA SaveEffect ==
  ASSUME Shape, NEW r \in Requests, Save(r)
  PROVE  Saved(r)
<1> USE DEF Saved
<1>1. TypeOK /\ req[r] \in Request
  BY DEF Shape, TypeOK
<1>2. "fetch" \in Steps /\ "saved" \in Steps
  BY StepNames
<1>3. /\ req[r].moving \in req[r].todo /\ req[r].todo \in SUBSET Files
      /\ req[r].todo \ {req[r].moving} \in SUBSET Files /\ req[r].then \in Steps
  BY <1>1, RequestFields DEF Shape, Fits, LoopFits, Save, At
<1>4. CASE At(r, "save") /\ Goto(r, "saved")
  <2>1. Goes(r, "saved")
    BY <1>1, <1>2, <1>4, GotoEffect
  <2> QED
    BY <1>3, <1>4, <2>1 DEF Save, ghosts
<1>5. CASE At(r, "saved") /\ Loop(r, "fetch", req[r].todo \ {req[r].moving}, req[r].then)
  <2>1. Loops(r, "fetch", req[r].todo \ {req[r].moving}, req[r].then)
    BY <1>1, <1>2, <1>3, <1>5, LoopEffect
  <2> QED
    BY <1>3, <1>5, <2>1 DEF Save, ghosts, At
<1> QED
  BY <1>4, <1>5 DEF Save

Listed(r) ==
  /\ UNCHANGED <<store, staging, uploads, used, may, quiet, soiled, synced>>
  /\ \/ /\ At(r, "list data")
        /\ Loops(r, "each", {f \in Data : staging[f] # Absent}, "list models")
     \/ /\ At(r, "list models")
        /\ Loops(r, "each", {f \in ModelFiles : staging[f] # Absent}, "answer")

LEMMA ListEffect ==
  ASSUME Shape, NEW r \in Requests, snapshot_push_workspace(r)
  PROVE  Listed(r)
<1> USE DEF Listed
<1>1. TypeOK
  BY DEF Shape
<1>2. {"each", "list models", "answer"} \subseteq Steps
  BY StepNames
<1>3. ASSUME NEW from, NEW files \in SUBSET Files, NEW then \in Steps,
             ListDirectory(r, from, files, then)
      PROVE  At(r, from) /\ Loops(r, "each", {f \in files : staging[f] # Absent}, then)
             /\ UNCHANGED <<store, staging, uploads, used, may, quiet, soiled, synced>>
  <2> DEFINE staged == {f \in files : staging[f] # Absent}
  <2>1. staged \in SUBSET Files
    OBVIOUS
  <2>2. Loop(r, "each", staged, then)
    BY <1>3 DEF ListDirectory
  <2> HIDE DEF staged
  <2>3. Loops(r, "each", staged, then)
    BY <1>1, <1>2, <2>1, <2>2, LoopEffect
  <2> QED
    BY <1>3, <2>3 DEF ListDirectory, ghosts, staged
<1>4. Data \in SUBSET Files /\ ModelFiles \in SUBSET Files
  BY FilesAreApart
<1> QED
  BY <1>2, <1>3, <1>4 DEF snapshot_push_workspace

ReadForPush(r, f) ==
  /\ At(r, "each") /\ f \in req[r].todo
  /\ UNCHANGED <<store, staging, uploads, used, may, synced>>
  /\ \/ /\ staging[f] = Absent /\ UNCHANGED <<quiet, soiled>>
        /\ Loops(r, "each", req[r].todo \ {f}, req[r].then) \/ Ends(r)
     \/ /\ staging[f] # Absent
        /\ Moves(r, "put", f, staging[f]) /\ Disturb(r, f) /\ ReadStaged(f)

LEMMA PushReadEffect ==
  ASSUME Shape, NEW r \in Requests, NEW f \in Files, PushRead(r, f)
  PROVE  ReadForPush(r, f)
<1> USE DEF ReadForPush
<1>1. TypeOK /\ req[r] \in Request /\ staging[f] \in Contents
  BY DEF Shape, TypeOK
<1>2. "each" \in Steps /\ "put" \in Steps
  BY StepNames
<1>3. req[r].todo \ {f} \in SUBSET Files /\ req[r].then \in Steps
  BY <1>1, RequestFields
<1>4. CASE staging[f] = Absent
  <2>1. CASE Loop(r, "each", req[r].todo \ {f}, req[r].then)
    <3>1. Loops(r, "each", req[r].todo \ {f}, req[r].then)
      BY <1>1, <1>2, <1>3, <2>1, LoopEffect
    <3> QED
      BY <1>4, <3>1 DEF PushRead
  <2>2. CASE End(r)
    <3>1. Ends(r)
      BY <1>1, <2>2, EndEffect
    <3> QED
      BY <1>4, <3>1 DEF PushRead
  <2> QED
    BY <1>4, <2>1, <2>2 DEF PushRead
<1>5. CASE staging[f] # Absent
  <2>1. Move(r, "put", f, staging[f])
    BY <1>5 DEF PushRead
  <2>2. Moves(r, "put", f, staging[f])
    BY <1>1, <1>2, <2>1, MoveEffect
  <2> QED
    BY <1>5, <2>2 DEF PushRead
<1> QED
  BY <1>4, <1>5

PutDone(r) ==
  /\ At(r, "put") /\ req[r].moving \in Files /\ req[r].moving \in req[r].todo
  /\ UNCHANGED <<staging, uploads, used, may, quiet, soiled, synced>>
  /\ store' = [store EXCEPT ![req[r].moving] = req[r].blob]
  /\ Loops(r, "each", req[r].todo \ {req[r].moving}, req[r].then)

LEMMA PushPutEffect ==
  ASSUME Shape, NEW r \in Requests, PushPut(r)
  PROVE  PutDone(r)
<1> USE DEF PutDone
<1>1. TypeOK /\ req[r] \in Request /\ At(r, "put")
  BY DEF Shape, TypeOK, PushPut
<1>2. "each" \in Steps
  BY StepNames
<1>3. /\ req[r].moving \in req[r].todo /\ req[r].todo \in SUBSET Files
      /\ req[r].todo \ {req[r].moving} \in SUBSET Files /\ req[r].then \in Steps
  BY <1>1, RequestFields DEF Shape, Fits, LoopFits, At
<1>4. Loop(r, "each", req[r].todo \ {req[r].moving}, req[r].then)
  BY DEF PushPut
<1>5. Loops(r, "each", req[r].todo \ {req[r].moving}, req[r].then)
  BY <1>1, <1>2, <1>3, <1>4, LoopEffect
<1> QED
  BY <1>1, <1>3, <1>5 DEF PushPut, ghosts

\* An error of the object store, or a content that does not fit.
LEMMA EndingEffect ==
  ASSUME Shape, NEW r \in Requests, Fail(r) \/ Refuse(r)
  PROVE  Ends(r) /\ UNCHANGED <<store, staging, uploads, used, may, quiet, soiled, synced>>
  BY EndEffect DEF Shape, Fail, Refuse, ghosts

-----------------------------------------------------------------------------
(* The steps of the handlers. *)

Uploading(r) ==
  /\ req[r].kind = "upload" /\ req[r].file \in Data /\ req[r].file \in Files
  /\ UNCHANGED <<store, uploads, used, quiet, soiled, synced>>
  /\ \/ /\ At(r, "write") /\ Goes(r, "written") /\ UNCHANGED may
        /\ staging' = [staging EXCEPT ![req[r].file] = Torn]
     \/ /\ At(r, "written") /\ Goes(r, "push")
        /\ staging' = [staging EXCEPT ![req[r].file] = req[r].own]
        /\ may' = [may EXCEPT ![req[r].file] = @ \cup {req[r].own}]

LEMMA UploadEffect ==
  ASSUME Shape, NEW r \in Requests, Write(r) \/ Written(r)
  PROVE  Uploading(r)
<1> USE DEF Uploading
<1>1. TypeOK /\ Fits(req[r])
  BY DEF Shape
<1>2. "written" \in Steps /\ "push" \in Steps
  BY StepNames
<1>3. CASE Write(r)
  BY <1>1, <1>2, <1>3, GotoEffect, FilesAreApart
     DEF Write, At, Fits, KindFits, SubjectFits, Changes, ghosts
<1>4. CASE Written(r)
  BY <1>1, <1>2, <1>4, GotoEffect, FilesAreApart
     DEF Written, At, Fits, KindFits, SubjectFits, Changes
<1> QED
  BY <1>3, <1>4

Pushed(r) ==
  /\ At(r, "push") /\ req[r].kind = "upload"
  /\ req[r].file \in Data /\ req[r].file \in Files
  /\ UNCHANGED <<staging, uploads, used, may, quiet, synced>>
  /\ \/ staging[req[r].file] = Absent /\ Ends(r) /\ UNCHANGED <<store, soiled>>
     \/ /\ staging[req[r].file] # Absent
        /\ Loops(r, "fetch", {req[r].file}, "open") /\ ReadStaged(req[r].file)
        /\ store' = [store EXCEPT ![req[r].file] = staging[req[r].file]]

LEMMA PushEffect ==
  ASSUME Shape, NEW r \in Requests, Push(r)
  PROVE  Pushed(r)
<1> USE DEF Pushed
<1>1. TypeOK /\ Fits(req[r]) /\ At(r, "push")
  BY DEF Shape, Push
<1>2. "fetch" \in Steps /\ "open" \in Steps
  BY StepNames
<1>3. req[r].kind = "upload" /\ req[r].file \in Data /\ req[r].file \in Files
  BY <1>1, FilesAreApart DEF At, Fits, KindFits, SubjectFits, Changes
<1>4. CASE staging[req[r].file] = Absent
  BY <1>1, <1>3, <1>4, EndEffect DEF Push
<1>5. CASE staging[req[r].file] # Absent
  <2>1. Loop(r, "fetch", {req[r].file}, "open") /\ {req[r].file} \in SUBSET Files
    BY <1>3, <1>5 DEF Push
  <2>2. Loops(r, "fetch", {req[r].file}, "open")
    BY <1>1, <1>2, <2>1, LoopEffect
  <2> QED
    BY <1>1, <1>3, <1>5, <2>2 DEF Push
<1> QED
  BY <1>4, <1>5

Opened(r) ==
  /\ At(r, "open") /\ UNCHANGED <<store, staging, uploads, used, may, quiet, soiled, synced>>
  /\ \/ Ends(r)
     \/ req[r].kind = "upload" /\ Goes(r, "answer")
     \/ req[r].kind = "delete" /\ Goes(r, "erase")

LEMMA OpenEffect ==
  ASSUME Shape, NEW r \in Requests, OpenUpload(r) \/ OpenDelete(r)
  PROVE  Opened(r)
<1> USE DEF Opened
<1>1. TypeOK
  BY DEF Shape
<1>2. "answer" \in Steps /\ "erase" \in Steps
  BY StepNames
<1> QED
  BY <1>1, <1>2, GotoEffect, EndEffect DEF OpenUpload, OpenDelete, Open, ghosts

Deleting(r) ==
  /\ req[r].kind = "delete" /\ req[r].file \in Data /\ req[r].file \in Files
  /\ UNCHANGED <<uploads, used, quiet, synced>>
  /\ \/ /\ At(r, "erase") /\ Goes(r, "unlink") /\ UNCHANGED <<staging, soiled>>
        /\ store' = [store EXCEPT ![req[r].file] = Absent]
        /\ may' = [may EXCEPT ![req[r].file] = @ \cup {Absent}]
     \/ /\ At(r, "unlink") /\ Ends(r) /\ UNCHANGED store
        /\ staging' = [staging EXCEPT ![req[r].file] = Absent]
        /\ Settle(req[r].file, Absent)

LEMMA DeleteEffect ==
  ASSUME Shape, NEW r \in Requests, Erase(r) \/ Unlink(r)
  PROVE  Deleting(r)
<1> USE DEF Deleting
<1>1. TypeOK /\ Fits(req[r])
  BY DEF Shape
<1>2. "unlink" \in Steps
  BY StepNames
<1>3. CASE Erase(r)
  BY <1>1, <1>2, <1>3, GotoEffect, FilesAreApart
     DEF Erase, At, Fits, KindFits, SubjectFits, Changes
<1>4. CASE Unlink(r)
  BY <1>1, <1>4, EndEffect, FilesAreApart
     DEF Unlink, At, Fits, KindFits, SubjectFits, Changes
<1> QED
  BY <1>3, <1>4

TrainOpened(r, m) ==
  /\ At(r, "open") /\ req[r].kind \in Trains /\ m \notin used
  /\ UNCHANGED <<store, uploads, may, quiet, soiled, synced>>
  /\ used' = used \cup {m}
  /\ staging' = [staging EXCEPT ![Joblib(m)] = Torn]
  /\ req' \in [Requests -> Request] /\ Others(r)
  /\ req'[r].kind = req[r].kind /\ req'[r].file = req[r].file
  /\ req'[r].own = req[r].own /\ req'[r].step = "dump" /\ req'[r].model = m

LEMMA OpenTrainEffect ==
  ASSUME Shape, NEW r \in Requests, NEW m \in Models, OpenTrain(r, m)
  PROVE  TrainOpened(r, m)
<1> USE DEF TrainOpened
<1>1. TypeOK /\ req[r] \in Request /\ "dump" \in Steps
  BY StepNames DEF Shape, TypeOK
<1> DEFINE q == [req[r] EXCEPT !.step = "dump", !.model = m]
<1>2. q \in Request /\ q.kind = req[r].kind /\ q.file = req[r].file /\ q.own = req[r].own
        /\ q.step = "dump" /\ q.model = m
  BY <1>1 DEF Request
<1>3. req' = [req EXCEPT ![r] = q]
  BY <1>1 DEF OpenTrain, TypeOK
<1> HIDE DEF q
<1>4. req' \in [Requests -> Request] /\ Others(r) /\ req'[r] = q
  BY <1>1, <1>2, <1>3 DEF TypeOK, Others
<1> QED
  BY <1>2, <1>4 DEF OpenTrain, ghosts

Training(r) ==
  LET m == req[r].model IN
  /\ req[r].kind \in Trains /\ m \in used /\ m \in Models
  /\ UNCHANGED <<store, uploads, used, may, quiet, soiled, synced>>
  /\ \/ /\ At(r, "dump") /\ Goes(r, "describe")
        /\ staging' = [staging EXCEPT ![Joblib(m)] = Whole, ![Json(m)] = Torn]
     \/ /\ At(r, "describe")
        /\ Goes(r, IF req[r].kind = "train" THEN "list data" ELSE "answer")
        /\ staging' = [staging EXCEPT ![Json(m)] = Whole]

LEMMA TrainEffect ==
  ASSUME Shape, NEW r \in Requests, Dump(r) \/ Describe(r)
  PROVE  Training(r)
<1> USE DEF Training
<1>1. TypeOK /\ Fits(req[r]) /\ used \subseteq Models
  BY DEF Shape, TypeOK
<1>2. {"describe", "list data", "answer"} \subseteq Steps
  BY StepNames
<1>3. AfterTraining(r) = IF req[r].kind = "train" THEN "list data" ELSE "answer"
  BY DEF AfterTraining
<1>4. AfterTraining(r) \in Steps
  BY <1>2, <1>3
<1>5. CASE Dump(r)
  BY <1>1, <1>2, <1>5, GotoEffect
     DEF Dump, At, Fits, KindFits, SubjectFits, ModelSteps, ghosts
<1>6. CASE Describe(r)
  <2>1. At(r, "describe") /\ Goes(r, AfterTraining(r))
    BY <1>1, <1>4, <1>6, GotoEffect DEF Describe
  <2> QED
    BY <1>1, <1>3, <1>6, <2>1
       DEF Describe, At, Fits, KindFits, SubjectFits, ModelSteps, ghosts
<1> QED
  BY <1>5, <1>6

Predicting(r) ==
  /\ req[r].kind \in Predicts /\ req[r].file \in Data /\ req[r].file \in Files
  /\ req[r].model \in used /\ req[r].model \in Models
  /\ UNCHANGED <<store, staging, uploads, used, may, quiet, soiled, synced>>
  /\ \/ Ends(r)
     \/ At(r, "fetch joblib") /\ Loops(r, "fetch", {Joblib(req[r].model)}, "check")
     \/ /\ At(r, "check") /\ Loops(r, "fetch", {req[r].file}, "open")
        /\ staging[Json(req[r].model)] = Whole
     \/ /\ At(r, "open") /\ Goes(r, "list data") /\ req[r].kind = "predict"
        /\ staging[Joblib(req[r].model)] = Whole

LEMMA PredictEffect ==
  ASSUME Shape, NEW r \in Requests, FetchJoblib(r) \/ CheckModel(r) \/ OpenPredict(r)
  PROVE  Predicting(r)
<1> USE DEF Predicting
<1>1. TypeOK /\ Fits(req[r]) /\ used \subseteq Models
  BY DEF Shape, TypeOK
<1>2. {"fetch", "check", "open", "list data"} \subseteq Steps
  BY StepNames
<1>3. /\ req[r].kind \in Predicts /\ req[r].file \in Data /\ req[r].file \in Files
      /\ req[r].model \in used /\ req[r].model \in Models
  BY <1>1, FilesAreApart
     DEF FetchJoblib, CheckModel, OpenPredict, At, Fits, KindFits, SubjectFits
<1>4. UNCHANGED <<store, staging, uploads, used, may, quiet, soiled, synced>>
  BY DEF FetchJoblib, CheckModel, OpenPredict, ghosts
<1>5. CASE FetchJoblib(r)
  <2>1. /\ At(r, "fetch joblib") /\ Loop(r, "fetch", {Joblib(req[r].model)}, "check")
        /\ {Joblib(req[r].model)} \in SUBSET Files
    BY <1>3, <1>5, FilesAreApart DEF FetchJoblib
  <2> QED
    BY <1>1, <1>2, <1>3, <1>4, <2>1, LoopEffect
<1>6. CASE CheckModel(r)
  <2>1. CASE staging[Json(req[r].model)] = Whole
    <3>1. At(r, "check") /\ Loop(r, "fetch", {req[r].file}, "open")
            /\ {req[r].file} \in SUBSET Files
      BY <1>3, <1>6, <2>1 DEF CheckModel
    <3>2. Loops(r, "fetch", {req[r].file}, "open")
      BY <1>1, <1>2, <3>1, LoopEffect
    <3> QED
      BY <1>3, <1>4, <2>1, <3>1, <3>2
  <2>2. CASE staging[Json(req[r].model)] # Whole
    BY <1>1, <1>3, <1>4, <1>6, <2>2, EndEffect DEF CheckModel
  <2> QED
    BY <2>1, <2>2
<1>7. CASE OpenPredict(r)
  BY <1>1, <1>2, <1>3, <1>4, <1>7, GotoEffect, EndEffect DEF OpenPredict, Predicts
<1> QED
  BY <1>5, <1>6, <1>7

Answered(r) ==
  /\ At(r, "answer") /\ Ends(r)
  /\ UNCHANGED <<store, staging, uploads, used, quiet>>
  /\ IF req[r].kind = "upload"
     THEN Settle(req[r].file, req[r].own) ELSE UNCHANGED <<may, soiled>>
  /\ synced' = IF req[r].kind \in Syncs THEN synced \cup {req[r].model} ELSE synced

LEMMA AnswerEffect ==
  ASSUME Shape, NEW r \in Requests, Answer(r)
  PROVE  Answered(r)
  BY EndEffect DEF Answered, Shape, Answer, Syncs

-----------------------------------------------------------------------------
(* Every request keeps fitting. *)

LEMMA ShapeKept ==
  ASSUME Shape, NEW r \in Requests, Others(r), TypeOK', used \subseteq used', Fits(req[r])'
  PROVE  Shape'
<1>1. ASSUME NEW q \in Requests \ {r} PROVE Fits(req[q])'
  <2>1. req'[q] = req[q] /\ Fits(req[q])
    BY DEF Others, Shape
  <2> QED
    BY <2>1 DEF Fits, KindFits, LoopFits, SubjectFits
<1> QED
  BY <1>1 DEF Shape

\* The types of the files after a step.
LEMMA FilesKeepType ==
  ASSUME TypeOK, NEW f \in Files, NEW c \in Contents, NEW g \in Files, NEW d \in Contents
  PROVE  /\ [store EXCEPT ![f] = c] \in [Files -> Contents]
         /\ [staging EXCEPT ![f] = c] \in [Files -> Contents]
         /\ [staging EXCEPT ![f] = c, ![g] = d] \in [Files -> Contents]
  BY DEF TypeOK

LEMMA ShapeIdle ==
  ASSUME Shape, NEW r \in Requests, Ends(r), TypeOK', used \subseteq used'
  PROVE  Shape'
<1>1. Fits(req[r])'
  BY DEF Ends, Fits, KindFits, LoopFits, SubjectFits, Fetching, Pushing, ModelSteps, Syncs,
         Changes, Trains, Predicts, None
<1> QED
  BY <1>1, ShapeKept DEF Ends

LEMMA ShapeSync ==
  ASSUME Shape, NEW r \in Requests, Sync(r)
  PROVE  Shape'
<1>1. TypeOK /\ Fits(req[r]) /\ req[r] \in Request
  BY DEF Shape, TypeOK
<1> USE DEF Fits, KindFits, LoopFits, SubjectFits, Fetching, Pushing, ModelSteps, Syncs,
            Changes, Trains, Predicts, At, Steady, Same, None
<1>2. ASSUME NEW f \in Files, Fetch(r, f) PROVE Shape'
  <2>0. Fetched(r, f)
    BY <1>2, FetchEffect
  <2>1. TypeOK' /\ Others(r)
    BY <1>1, <1>2, <2>0 DEF Fetched, TypeOK, Loops, Moves, Disturb
  <2>2. Fits(req[r])'
    BY <1>1, <1>2, <2>0 DEF Fetched, Loops, Moves
  <2> QED
    BY <1>2, <2>1, <2>2, ShapeKept, <2>0 DEF Fetched
<1>3. ASSUME NEW f \in Files, PushRead(r, f) PROVE Shape'
  <2>0. ReadForPush(r, f)
    BY <1>3, PushReadEffect
  <2>1. TypeOK' /\ Others(r)
    BY <1>1, <1>3, <2>0 DEF ReadForPush, TypeOK, Loops, Moves, Ends, Disturb, ReadStaged
  <2>2. CASE Ends(r)
    BY <2>0, <2>1, <2>2, ShapeIdle DEF ReadForPush
  <2>3. CASE ~Ends(r)
    <3>1. Fits(req[r])'
      BY <1>1, <1>3, <2>0, <2>3 DEF ReadForPush, Loops, Moves
    <3> QED
      BY <1>3, <2>1, <3>1, ShapeKept, <2>0 DEF ReadForPush
  <2> QED
    BY <2>2, <2>3
<1>4. CASE Save(r)
  <2>0. Saved(r)
    BY <1>4, SaveEffect
  <2>1. req[r].blob \in Contents
    BY <1>1, RequestFields
  <2>2. TypeOK' /\ Others(r)
    <3>1. staging' \in [Files -> Contents]
      <4>1. staging \in [Files -> Contents]
        BY <1>1 DEF TypeOK
      <4> QED
        BY <4>1, <2>0, <2>1, ContentsAreApart DEF Saved
    <3> QED
      BY <1>1, <2>0, <3>1 DEF Saved, TypeOK, Loops, Goes
  <2>3. Fits(req[r])'
    BY <1>1, <1>4, <2>0 DEF Saved, Loops, Goes
  <2> QED
    BY <1>4, <2>2, <2>3, ShapeKept, <2>0 DEF Saved
<1>5. CASE snapshot_push_workspace(r)
  <2>0. Listed(r)
    BY <1>5, ListEffect
  <2>1. TypeOK' /\ Others(r)
    BY <1>1, <1>5, <2>0 DEF Listed, TypeOK, Loops
  <2>2. Fits(req[r])'
    BY <1>1, <1>5, <2>0 DEF Listed, Loops
  <2> QED
    BY <1>5, <2>1, <2>2, ShapeKept, <2>0 DEF Listed
<1>6. CASE PushPut(r)
  <2>0. PutDone(r)
    BY <1>6, PushPutEffect
  <2>1. req[r].blob \in Contents
    BY <1>1, RequestFields
  <2>2. TypeOK' /\ Others(r)
    BY <1>1, <1>6, <2>1, <2>0, FilesKeepType DEF PutDone, TypeOK, Loops
  <2>3. Fits(req[r])'
    BY <1>1, <1>6, <2>0 DEF PutDone, Loops
  <2> QED
    BY <1>6, <2>2, <2>3, ShapeKept, <2>0 DEF PutDone
<1>7. CASE Fail(r)
  BY <1>1, <1>7, EndingEffect, ShapeIdle DEF TypeOK, Ends
<1> QED
  BY <1>2, <1>3, <1>4, <1>5, <1>6, <1>7 DEF Sync

LEMMA ShapeHandler ==
  ASSUME Shape, NEW r \in Requests, Handler(r)
  PROVE  Shape'
<1>1. TypeOK /\ Fits(req[r]) /\ req[r] \in Request
  BY DEF Shape, TypeOK
<1>2. req[r].own \in 0..MaxUploads /\ req[r].own \in Contents
  BY <1>1, RequestFields, ContentsAreApart
<1>3. ASSUME NEW f \in Data, NEW S \in SUBSET (0..MaxUploads)
      PROVE  [may EXCEPT ![f] = S] \in [Data -> SUBSET (0..MaxUploads)]
  BY <1>1 DEF TypeOK
<1>4. \A f \in Data : may[f] \in SUBSET (0..MaxUploads)
  BY <1>1 DEF TypeOK
<1> USE DEF Fits, KindFits, LoopFits, SubjectFits, Fetching, Pushing, ModelSteps, Syncs,
            Changes, Trains, Predicts, At, Steady, Same, None
<1>5. CASE Write(r) \/ Written(r)
  <2>0. Uploading(r)
    BY <1>5, UploadEffect
  <2>1. TypeOK' /\ Others(r)
    <3>1. req[r].file \in Data => may[req[r].file] \cup {req[r].own} \in SUBSET (0..MaxUploads)
      BY <1>2, <1>4
    <3>2. staging' \in [Files -> Contents]
      <4>1. staging \in [Files -> Contents]
        BY <1>1 DEF TypeOK
      <4> QED
        BY <4>1, <1>2, <2>0, ContentsAreApart DEF Uploading
    <3>3. may' \in [Data -> SUBSET (0..MaxUploads)]
      BY <1>1, <1>3, <2>0, <3>1 DEF Uploading, TypeOK
    <3> QED
      BY <1>1, <2>0, <3>2, <3>3 DEF Uploading, TypeOK, Goes
  <2>2. Fits(req[r])'
    BY <1>1, <1>5, <2>0 DEF Uploading, Goes
  <2> QED
    BY <1>5, <2>1, <2>2, ShapeKept, <2>0 DEF Uploading
<1>6. CASE Push(r)
  <2>0. Pushed(r)
    BY <1>6, PushEffect
  <2>1. staging[req[r].file] \in Contents \/ req[r].file \notin Files
    BY <1>1 DEF TypeOK
  <2>2. CASE Ends(r) /\ UNCHANGED <<store, soiled>>
    BY <1>1, <1>6, <2>2, <2>0, ShapeIdle DEF Pushed, TypeOK, Ends
  <2>3. CASE Loops(r, "fetch", {req[r].file}, "open") /\ ReadStaged(req[r].file)
    <3>1. TypeOK' /\ Others(r)
      BY <1>1, <1>6, <2>1, <2>3, <2>0, FilesKeepType DEF Pushed, TypeOK, Loops, ReadStaged
    <3>2. Fits(req[r])'
      BY <1>1, <1>6, <2>3, <2>0 DEF Pushed, Loops
    <3> QED
      BY <1>6, <3>1, <3>2, ShapeKept, <2>0 DEF Pushed
  <2> QED
    BY <1>6, <2>2, <2>3, <2>0 DEF Pushed
<1>7. CASE OpenUpload(r) \/ OpenDelete(r)
  <2>0. Opened(r)
    BY <1>7, OpenEffect
  <2>1. TypeOK' /\ Others(r)
    BY <1>1, <1>7, <2>0 DEF Opened, TypeOK, Goes, Ends
  <2>2. Fits(req[r])'
    BY <1>1, <1>7, <2>0 DEF Opened, Goes, Ends
  <2> QED
    BY <1>7, <2>1, <2>2, ShapeKept, <2>0 DEF Opened
<1>8. CASE Refuse(r)
  BY <1>1, <1>8, EndingEffect, ShapeIdle DEF TypeOK, Ends
<1>9. CASE Erase(r) \/ Unlink(r)
  <2>0. Deleting(r)
    BY <1>9, DeleteEffect
  <2>1. TypeOK' /\ Others(r)
    <3>1. req[r].file \in Data => /\ may[req[r].file] \cup {Absent} \in SUBSET (0..MaxUploads)
                                  /\ {Absent} \in SUBSET (0..MaxUploads)
      BY <1>4, ContentsAreApart
    <3>2. staging' \in [Files -> Contents] /\ store' \in [Files -> Contents]
      <4>1. staging \in [Files -> Contents] /\ store \in [Files -> Contents]
        BY <1>1 DEF TypeOK
      <4> QED
        BY <1>1, <2>0, <4>1, FilesKeepType, ContentsAreApart DEF Deleting
    <3>3. may' \in [Data -> SUBSET (0..MaxUploads)]
      BY <1>1, <1>3, <2>0, <3>1 DEF Deleting, TypeOK, Settle
    <3> QED
      BY <1>1, <2>0, <3>2, <3>3 DEF Deleting, TypeOK, Goes, Ends, Settle
  <2>2. Fits(req[r])'
    BY <1>1, <1>9, <2>0 DEF Deleting, Goes, Ends
  <2> QED
    BY <1>9, <2>1, <2>2, ShapeKept, <2>0 DEF Deleting
<1>10. ASSUME NEW m \in Models, OpenTrain(r, m) PROVE Shape'
  <2>0. TrainOpened(r, m)
    BY <1>10, OpenTrainEffect
  <2>1. TypeOK' /\ Others(r)
    BY <1>1, <1>10, <2>0, FilesKeepType, FilesAreApart, ContentsAreApart DEF TrainOpened, TypeOK
  <2>2. Fits(req[r])'
    BY <1>1, <1>10, <2>0 DEF TrainOpened
  <2> QED
    BY <1>10, <2>1, <2>2, ShapeKept, <2>0 DEF TrainOpened
<1>11. CASE Dump(r) \/ Describe(r)
  <2>0. Training(r)
    BY <1>11, TrainEffect
  <2>1. TypeOK' /\ Others(r)
    <3>1. staging' \in [Files -> Contents]
      <4>1. staging \in [Files -> Contents]
        BY <1>1 DEF TypeOK
      <4> QED
        BY <4>1, <2>0, FilesAreApart, ContentsAreApart DEF Training
    <3> QED
      BY <1>1, <2>0, <3>1 DEF Training, TypeOK, Goes
  <2>2. Fits(req[r])'
    BY <1>1, <1>11, <2>0 DEF Training, Goes
  <2> QED
    BY <1>11, <2>1, <2>2, ShapeKept, <2>0 DEF Training
<1>12. CASE FetchJoblib(r) \/ CheckModel(r) \/ OpenPredict(r)
  <2>0. Predicting(r)
    BY <1>12, PredictEffect
  <2>1. TypeOK' /\ Others(r)
    BY <1>1, <1>12, <2>0 DEF Predicting, TypeOK, Goes, Loops, Ends
  <2>2. Fits(req[r])'
    BY <1>1, <1>12, <2>0 DEF Predicting, Goes, Loops, Ends
  <2> QED
    BY <1>12, <2>1, <2>2, ShapeKept, <2>0 DEF Predicting
<1>13. CASE Answer(r)
  <2>0. Answered(r)
    BY <1>13, AnswerEffect
  <2>1. TypeOK' /\ Others(r)
    <3>1. synced' \subseteq used'
      BY <1>1, <1>13, <2>0 DEF Answered, TypeOK
    <3>2. may' \in [Data -> SUBSET (0..MaxUploads)] /\ soiled' \subseteq Files
      <4>1. CASE req[r].kind = "upload"
        <5>1. Settle(req[r].file, req[r].own) /\ req[r].file \in Data
          BY <1>1, <2>0, <4>1 DEF Answered
        <5>2. {req[r].own} \in SUBSET (0..MaxUploads)
          BY <1>2
        <5> QED
          BY <1>1, <1>3, <5>1, <5>2 DEF Settle, TypeOK
      <4>2. CASE req[r].kind # "upload"
        BY <1>1, <2>0, <4>2 DEF Answered, TypeOK
      <4> QED
        BY <4>1, <4>2
    <3> QED
      BY <1>1, <1>13, <3>1, <3>2, <2>0 DEF Answered, TypeOK, Ends
  <2> QED
    BY <1>13, <2>1, ShapeIdle, <2>0 DEF Answered
<1> QED
  BY <1>5, <1>6, <1>7, <1>8, <1>9, <1>10, <1>11, <1>12, <1>13 DEF Handler

LEMMA ShapeRestart ==
  ASSUME Shape, Restart
  PROVE  Shape' /\ \A r \in Requests : req'[r] = Idle
<1>1. TypeOK'
  BY IdleFields, ContentsAreApart DEF Shape, Restart, TypeOK, ghosts
<1>2. \A r \in Requests : req'[r] = Idle
  BY DEF Restart
<1>3. ASSUME NEW r \in Requests PROVE Fits(req[r])'
  BY <1>2, IdleFields DEF Fits, KindFits, LoopFits, SubjectFits, Fetching, Pushing,
     ModelSteps, Syncs, Changes, Trains, Predicts, None
<1> QED
  BY <1>1, <1>2, <1>3 DEF Shape

LEMMA ShapeNext ==
  ASSUME Shape, [Next]_vars
  PROVE  Shape'
<1>1. CASE UNCHANGED vars
  BY <1>1 DEF vars, ghosts, Shape, TypeOK, Fits, KindFits, LoopFits, SubjectFits
<1>2. ASSUME NEW r \in Requests, Arrive(r) PROVE Shape'
  <2>1. Arrived(r)
    BY <1>2, ArriveEffect
  <2>2. TypeOK'
    BY <2>1 DEF Arrived, Accepted, Shape, TypeOK
  <2> QED
    BY <2>1, <2>2, ShapeKept DEF Arrived
<1> QED
  BY <1>1, <1>2, ShapeSync, ShapeHandler, ShapeRestart DEF Next

LEMMA ShapeInit == Init => Shape
<1> SUFFICES ASSUME Init PROVE Shape
  OBVIOUS
<1>1. TypeOK
  BY IdleFields, ContentsAreApart, ConstantsOK DEF Init, TypeOK
<1>2. ASSUME NEW r \in Requests PROVE Fits(req[r])
  <2>1. req[r].kind = None /\ req[r].step = "idle"
    BY IdleFields DEF Init
  <2> QED
    BY <2>1 DEF Fits, KindFits, LoopFits, SubjectFits, Fetching, Pushing,
         ModelSteps, Syncs, Changes, Trains, Predicts, None
<1> QED
  BY <1>1, <1>2 DEF Shape

\* Whatever the object store answers and however requests overlap, every variable
\* keeps its type, and only models that were given out are synced.
THEOREM WorkspaceTypeCorrect == Spec => []TypeOK
<1>1. Shape /\ [Next]_vars => Shape'
  BY ShapeNext
<1>2. Shape => TypeOK
  BY DEF Shape
<1> QED
  BY ShapeInit, <1>1, <1>2, PTL DEF Spec

-----------------------------------------------------------------------------
(* A step of r, seen from one dataset. *)

\* What r has in hand after the step may be found, and while the last change of
\* f is quiet only r, if it is that change, touches f.
KeptBy(r, f) ==
  /\ RecentHolds(f)'
  /\ Moving(r, f)' => Found(f, req[r].blob)'
  /\ f \in quiet' => /\ f \in quiet /\ QuietHolds(r, f)'
                     /\ Changing(r, f)' => Changing(r, f)
                     /\ Changing(r, f) \/ (store'[f] = store[f] /\ staging'[f] = staging[f])

LEMMA DatasetKept ==
  ASSUME Shape, NEW r \in Requests, Others(r), NEW f \in Data, DatasetHolds(f), KeptBy(r, f),
         \A q \in Requests \ {r} : Moving(q, f) => Found(f, req[q].blob)'
  PROVE  DatasetHolds(f)'
<1>1. \A q \in Requests \ {r} : /\ Moving(q, f)' <=> Moving(q, f)
                                /\ Changing(q, f)' <=> Changing(q, f)
  BY DEF Others, Moving, Changing
<1>2. HandsHold(f)'
  <2>1. ASSUME NEW q \in Requests, Moving(q, f)' PROVE Found(f, req[q].blob)'
    BY <1>1, <2>1 DEF KeptBy
  <2> QED
    BY <2>1 DEF HandsHold
<1>3. ASSUME f \in quiet', NEW q \in Requests PROVE QuietHolds(q, f)'
  <2>1. CASE q = r
    BY <1>3, <2>1 DEF KeptBy
  <2>2. CASE q # r
    <3>1. f \in quiet /\ QuietHolds(q, f) /\ QuietHolds(r, f)
      BY <1>3 DEF KeptBy, DatasetHolds, QuietIsHeld
    <3>2. CASE ~Changing(q, f)
      BY <1>1, <2>2, <3>1, <3>2 DEF QuietHolds
    <3>3. CASE Changing(q, f)
      <4>1. ~Changing(r, f) /\ store'[f] = store[f] /\ staging'[f] = staging[f]
        BY <1>3, <2>2, <3>1, <3>3 DEF KeptBy, QuietHolds
      <4>2. \A p \in Requests \ {q} : ~(Changing(p, f)')
        BY <1>1, <1>3, <2>2, <3>1, <3>3, <4>1 DEF KeptBy, QuietHolds
      <4>3. req'[q] = req[q]
        BY <2>2 DEF Others
      <4> QED
        BY <1>1, <2>2, <3>1, <3>3, <4>1, <4>2, <4>3 DEF QuietHolds, At
    <3> QED
      BY <3>2, <3>3
  <2> QED
    BY <2>1, <2>2
<1> QED
  BY <1>2, <1>3 DEF DatasetHolds, QuietIsHeld, KeptBy

\* The same, when the step takes nothing away from what may be found.
LEMMA DatasetGrows ==
  ASSUME Shape, NEW r \in Requests, Others(r), NEW f \in Data, DatasetHolds(f), KeptBy(r, f),
         may[f] \subseteq may'[f], f \in soiled => f \in soiled'
  PROVE  DatasetHolds(f)'
<1>1. ASSUME NEW q \in Requests \ {r}, Moving(q, f) PROVE Found(f, req[q].blob)'
  <2>1. req'[q] = req[q] /\ Found(f, req[q].blob)
    BY <1>1 DEF Others, DatasetHolds, HandsHold
  <2> QED
    BY <2>1 DEF Found
<1> QED
  BY <1>1, DatasetKept

\* A dataset whose copies and history r leaves alone.
Untouched(f) == /\ store'[f] = store[f] /\ staging'[f] = staging[f] /\ may'[f] = may[f]
                /\ f \in soiled => f \in soiled'
                /\ f \in quiet' => f \in quiet

LEMMA UntouchedRecent ==
  ASSUME NEW f \in Data, DatasetHolds(f), Untouched(f)
  PROVE  RecentHolds(f)' /\ may[f] \subseteq may'[f] /\ (f \in soiled => f \in soiled')
  BY DEF Untouched, DatasetHolds, RecentHolds, Found

\* A request that has nothing of f in hand afterwards and is no change of it.
LEMMA DatasetUntouched ==
  ASSUME Shape, NEW r \in Requests, Others(r), NEW f \in Data, DatasetHolds(f), Untouched(f),
         ~(Moving(r, f)'), ~(Changing(r, f)')
  PROVE  DatasetHolds(f)'
<1>1. KeptBy(r, f)
  BY UntouchedRecent DEF KeptBy, Untouched, QuietHolds
<1> QED
  BY <1>1, UntouchedRecent, DatasetGrows

\* A request that changes f goes from one step to another.
LEMMA DatasetGoesOn ==
  ASSUME Shape, NEW r \in Requests, Others(r), NEW f \in Data, DatasetHolds(f), Untouched(f),
         Moving(r, f)' => Found(f, req[r].blob)',
         f \in quiet' => QuietHolds(r, f)',
         Same(r)
  PROVE  DatasetHolds(f)'
<1>1. KeptBy(r, f)
  BY UntouchedRecent DEF KeptBy, Untouched, Changing, Same
<1> QED
  BY <1>1, UntouchedRecent, DatasetGrows

LEMMA NotMoving ==
  ASSUME NEW r \in Requests, NEW f \in Data, req'[r].step \notin {"save", "saved", "put"}
  PROVE  ~(Moving(r, f)')
  BY DEF Moving

LEMMA DatasetEnds ==
  ASSUME Shape, NEW r \in Requests, Ends(r), NEW f \in Data, DatasetHolds(f), Untouched(f)
  PROVE  DatasetHolds(f)'
<1>1. Others(r) /\ ~(Moving(r, f)') /\ ~(Changing(r, f)')
  BY DEF Ends, Moving, Changing, Changes, None
<1> QED
  BY <1>1, DatasetUntouched

LEMMA DataArrive ==
  ASSUME Shape, DataInv, NEW r \in Requests, Arrived(r)
  PROVE  DataInv'
<1> SUFFICES ASSUME NEW f \in Data PROVE DatasetHolds(f)'
  BY DEF DataInv
<1>1. DatasetHolds(f) /\ Others(r) /\ ~(Moving(r, f)')
  BY NotMoving DEF DataInv, Arrived
<1>2. CASE f \in quiet' => f \in quiet /\ ~(Changing(r, f)')
  <2>1. KeptBy(r, f)
    BY <1>1, <1>2 DEF KeptBy, Arrived, QuietHolds, DatasetHolds, RecentHolds, Found
  <2> QED
    BY <1>1, <2>1, DatasetGrows DEF Arrived
<1>3. CASE /\ Changing(r, f)' /\ f \in quiet'
           /\ \A q \in Requests : ~Changing(q, f) /\ ~Moving(q, f)
  <2>1. \A q \in Requests \ {r} : ~(Changing(q, f)') /\ ~(Moving(q, f)')
    BY <1>1, <1>3 DEF Others, Changing, Moving
  <2>2. HandsHold(f)'
    BY <1>1, <2>1 DEF HandsHold
  <2>3. ASSUME NEW q \in Requests PROVE QuietHolds(q, f)'
    BY <1>1, <2>1, <2>3 DEF QuietHolds, Arrived, At
  <2>4. RecentHolds(f)'
    BY <1>1 DEF Arrived, DatasetHolds, RecentHolds, Found
  <2> QED
    BY <2>2, <2>3, <2>4 DEF DatasetHolds, QuietIsHeld
<1> QED
  BY <1>2, <1>3 DEF Arrived, Accepted

\* Where a loop of r leads: not to bytes in hand, nor to the end of a change.
LEMMA LoopGoesOn ==
  ASSUME Shape, NEW r \in Requests, NEW f \in Data, req[r].step \in Fetching \cup Pushing
  PROVE  /\ req[r].then \notin {"save", "saved", "put", "unlink", "write", "written"}
         /\ Changing(r, f) => req[r].step \in Fetching /\ req[r].then = "open"
                              /\ req[r].todo \subseteq {f}
  BY DEF Shape, Fits, KindFits, LoopFits, Fetching, Pushing, Changing, Changes, Syncs, Predicts

LEMMA DataFetch ==
  ASSUME Shape, DataInv, NEW r \in Requests, NEW g \in Files, Fetched(r, g)
  PROVE  DataInv'
<1> SUFFICES ASSUME NEW f \in Data PROVE DatasetHolds(f)'
  BY DEF DataInv
<1> USE DEF At
<1>1. DatasetHolds(f) /\ Untouched(f) /\ req[r].step = "fetch"
  BY DEF DataInv, Fetched, Untouched, Disturb
<1>2. /\ req[r].then \notin {"save", "saved", "put", "unlink", "write", "written"}
      /\ Changing(r, f) => req[r].then = "open" /\ req[r].todo \subseteq {f}
  BY <1>1, LoopGoesOn DEF Fetching
<1>3. f \in quiet => QuietHolds(r, f)
  BY <1>1 DEF DatasetHolds, QuietIsHeld
<1>4. CASE Loops(r, "fetch", req[r].todo \ {g}, req[r].then)
  <2>1. Others(r) /\ Same(r) /\ req'[r].step \in {"fetch", req[r].then}
    BY <1>4 DEF Loops, Steady
  <2>2. ~(Moving(r, f)')
    BY <1>2, <2>1, NotMoving
  <2>3. \A q \in Requests : Changing(q, f)' <=> Changing(q, f)
    BY <2>1 DEF Changing, Same, Others
  <2>4. f \in quiet' => QuietHolds(r, f)'
    BY <1>1, <1>2, <1>3, <2>1, <2>2, <2>3 DEF QuietHolds, Untouched, Same
  <2> QED
    BY <1>1, <2>1, <2>2, <2>4, DatasetGoesOn
<1>5. CASE /\ staging[g] = Absent /\ store[g] # Absent
           /\ Moves(r, "save", g, store[g]) /\ Disturb(r, g)
  <2>1. Others(r) /\ Same(r) /\ req'[r].step = "save" /\ req'[r].moving = g
          /\ req'[r].blob = store[g]
    BY <1>5 DEF Moves, Steady
  <2>2. Moving(r, f)' => Found(f, req[r].blob)'
    BY <1>1, <2>1 DEF Moving, Found, Untouched, DatasetHolds, RecentHolds
  <2>3. \A q \in Requests : Changing(q, f)' <=> Changing(q, f)
    BY <2>1 DEF Changing, Same, Others
  <2>4. ASSUME f \in quiet', Changing(r, f) PROVE req[r].kind # "upload" /\ f \in quiet
    <3>1. f = g /\ f \in quiet
      BY <1>1, <1>2, <2>4 DEF Fetched, Untouched
    <3>2. req[r].kind = "upload" => req[r].own # 0 /\ staging[f] = req[r].own
      BY <1>1, <1>3, <2>4, <3>1 DEF QuietHolds, Shape, Fits, SubjectFits
    <3> QED
      BY <1>5, <3>1, <3>2 DEF Absent
  <2>5. ASSUME f \in quiet', ~Changing(r, f) PROVE ~(Moving(r, f)')
    BY <1>5, <2>1, <2>5 DEF Disturb, Moving
  <2>6. f \in quiet' => QuietHolds(r, f)'
    BY <1>3, <2>1, <2>3, <2>4, <2>5 DEF QuietHolds, Same
  <2> QED
    BY <1>1, <2>1, <2>2, <2>6, DatasetGoesOn
<1> QED
  BY <1>4, <1>5 DEF Fetched

LEMMA DataSave ==
  ASSUME Shape, DataInv, NEW r \in Requests, Saved(r)
  PROVE  DataInv'
<1> SUFFICES ASSUME NEW f \in Data PROVE DatasetHolds(f)'
  BY DEF DataInv
<1> USE DEF At
<1>1. DatasetHolds(f) /\ req[r].step \in {"save", "saved"}
  BY DEF DataInv, Saved
<1>2. /\ req[r].then \notin {"save", "saved", "put", "unlink", "write", "written"}
      /\ Changing(r, f) => req[r].then = "open" /\ req[r].todo \subseteq {f}
  BY <1>1, LoopGoesOn DEF Fetching
<1>3. Others(r) /\ Same(r) /\ f \in Files
  BY FilesAreApart DEF Saved, Loops, Goes, Steady
<1>4. \A q \in Requests : Changing(q, f)' <=> Changing(q, f)
  BY <1>3 DEF Changing, Same, Others
<1>5. f \in quiet => QuietHolds(r, f)
  BY <1>1 DEF DatasetHolds, QuietIsHeld
<1>6. /\ req'[r].step \in {"saved", "fetch", req[r].then}
      /\ req'[r].step = "saved" => req'[r].moving = req[r].moving /\ req'[r].blob = req[r].blob
  BY <1>2 DEF Saved, Loops, Goes
<1>7. CASE req[r].moving # f
  <2>1. Untouched(f) /\ ~(Moving(r, f)') /\ ~Changing(r, f)
    <3>1. staging \in [Files -> Contents]
      BY DEF Shape, TypeOK
    <3>2. staging'[f] = staging[f]
      BY <1>3, <1>7, <3>1 DEF Saved
    <3>3. ~Changing(r, f)
      BY <1>2, <1>7 DEF Saved
    <3> QED
      BY <1>2, <1>6, <1>7, <3>2, <3>3 DEF Saved, Untouched, Moving
  <2> QED
    BY <1>1, <1>3, <1>4, <2>1, DatasetUntouched
<1>8. CASE req[r].moving = f
  <2>1. Moving(r, f) /\ Found(f, req[r].blob)
    BY <1>1, <1>8 DEF Moving, DatasetHolds, HandsHold
  <2>2. staging'[f] \in {Torn, req[r].blob}
    <3>1. staging \in [Files -> Contents]
      BY DEF Shape, TypeOK
    <3> QED
      BY <1>3, <1>8, <3>1 DEF Saved
  <2>3. RecentHolds(f)'
    BY <1>1, <2>1, <2>2 DEF Saved, DatasetHolds, RecentHolds, Found
  <2>4. Moving(r, f)' => Found(f, req[r].blob)'
    BY <1>2, <1>6, <2>1 DEF Saved, Moving, Found
  <2>5. f \in quiet => Changing(r, f) /\ req[r].kind # "upload"
    BY <1>5, <2>1 DEF QuietHolds
  <2>6. f \in quiet' => QuietHolds(r, f)'
    BY <1>2, <1>3, <1>4, <1>5, <1>6, <2>5 DEF Saved, QuietHolds, Same
  <2>7. KeptBy(r, f)
    BY <1>4, <2>3, <2>4, <2>5, <2>6 DEF KeptBy, Saved
  <2> QED
    BY <1>1, <1>3, <2>7, DatasetGrows DEF Saved
<1> QED
  BY <1>7, <1>8

\* A step that leaves every dataset alone: no request changes one at this step,
\* and none has one in hand after it.
LEMMA DataAside ==
  ASSUME Shape, DataInv, NEW r \in Requests, Others(r), Same(r) \/ Ends(r),
         req'[r].step \notin {"save", "saved", "put"}, req[r].kind \notin Changes,
         \A f \in Data : Untouched(f)
  PROVE  DataInv'
<1> SUFFICES ASSUME NEW f \in Data PROVE DatasetHolds(f)'
  BY DEF DataInv
<1>1. DatasetHolds(f) /\ Untouched(f) /\ ~(Moving(r, f)')
  BY NotMoving DEF DataInv
<1>2. ~(Changing(r, f)')
  BY DEF Changing, Same, Ends, Changes, None
<1> QED
  BY <1>1, <1>2, DatasetUntouched

LEMMA DataList ==
  ASSUME Shape, DataInv, NEW r \in Requests, Listed(r)
  PROVE  DataInv'
<1>1. req[r].kind \notin Changes
  BY DEF Shape, Fits, KindFits, Listed, At, Syncs, Changes
<1>2. Others(r) /\ Same(r) /\ req'[r].step \notin {"save", "saved", "put"}
  BY DEF Listed, Loops, Steady
<1>3. \A f \in Data : Untouched(f)
  BY DEF Listed, Untouched
<1> QED
  BY <1>1, <1>2, <1>3, DataAside

LEMMA DataPushRead ==
  ASSUME Shape, DataInv, NEW r \in Requests, NEW g \in Files, ReadForPush(r, g)
  PROVE  DataInv'
<1> USE DEF At
<1>1. req[r].kind \notin Changes /\ req[r].then \notin {"save", "saved", "put"}
  BY DEF Shape, Fits, KindFits, LoopFits, Pushing, ReadForPush, Syncs, Changes
<1>2. \A f \in Data : Untouched(f)
  BY DEF ReadForPush, Untouched, Disturb, ReadStaged
<1>3. CASE Loops(r, "each", req[r].todo \ {g}, req[r].then)
  <2>1. Others(r) /\ Same(r) /\ req'[r].step \notin {"save", "saved", "put"}
    BY <1>1, <1>3 DEF Loops, Steady
  <2> QED
    BY <1>1, <1>2, <2>1, DataAside
<1>4. CASE Ends(r)
  BY <1>1, <1>2, <1>4, DataAside DEF Ends
<1>5. CASE Moves(r, "put", g, staging[g]) /\ Disturb(r, g) /\ ReadStaged(g)
  <2> SUFFICES ASSUME NEW f \in Data PROVE DatasetHolds(f)'
    BY DEF DataInv
  <2>1. DatasetHolds(f) /\ Untouched(f)
    BY <1>2 DEF DataInv
  <2>2. Others(r) /\ Same(r) /\ req'[r].moving = g /\ req'[r].blob = staging[g]
    BY <1>5 DEF Moves, Steady
  <2>3. Moving(r, f)' => Found(f, req[r].blob)'
    <3>1. SUFFICES ASSUME f = g PROVE Found(f, req[r].blob)'
      BY <2>2 DEF Moving
    <3>3. staging[f] \in may[f] \cup {Absent, Torn}
      BY <2>1 DEF DatasetHolds, RecentHolds
    <3>4. req'[r].step = "put"
      BY <1>5 DEF Moves
    <3>5. staging[f] # Absent
      BY <1>1, <3>1, <3>4 DEF ReadForPush, Loops, Ends
    <3> QED
      BY <1>5, <2>1, <2>2, <3>1, <3>3, <3>5 DEF Found, Untouched, ReadStaged
  <2>4. ~Changing(r, f) /\ ~(Changing(r, f)')
    BY <1>1, <2>2 DEF Changing, Same
  <2>5. f \in quiet' => QuietHolds(r, f)'
    BY <1>5, <1>1, <2>2, <2>4 DEF QuietHolds, Disturb, Changing, Moving
  <2> QED
    BY <2>1, <2>2, <2>3, <2>5, DatasetGoesOn
<1> QED
  BY <1>3, <1>4, <1>5 DEF ReadForPush

LEMMA DataPut ==
  ASSUME Shape, DataInv, NEW r \in Requests, PutDone(r)
  PROVE  DataInv'
<1> SUFFICES ASSUME NEW f \in Data PROVE DatasetHolds(f)'
  BY DEF DataInv
<1> USE DEF At
<1>1. /\ DatasetHolds(f) /\ Others(r) /\ Same(r) /\ req[r].step = "put" /\ f \in Files
      /\ req[r].kind \notin Changes /\ req'[r].step \notin {"save", "saved", "put"}
  BY FilesAreApart
     DEF DataInv, PutDone, Loops, Steady, Shape, Fits, KindFits, LoopFits, Pushing, Syncs, Changes
<1>2. ~(Moving(r, f)') /\ ~Changing(r, f) /\ ~(Changing(r, f)')
  BY <1>1, NotMoving DEF Changing, Same
<1>3. store \in [Files -> Contents]
  BY DEF Shape, TypeOK
<1>4. CASE req[r].moving # f
  <2>1. store'[f] = store[f]
    BY <1>1, <1>3, <1>4 DEF PutDone
  <2>2. Untouched(f)
    BY <2>1 DEF PutDone, Untouched
  <2> QED
    BY <1>1, <1>2, <2>2, DatasetUntouched
<1>5. CASE req[r].moving = f
  <2>1. Moving(r, f) /\ Found(f, req[r].blob) /\ store'[f] = req[r].blob
    BY <1>1, <1>3, <1>5 DEF Moving, DatasetHolds, HandsHold, PutDone
  <2>2. RecentHolds(f)'
    BY <1>1, <2>1 DEF PutDone, DatasetHolds, RecentHolds, Found
  <2>3. f \notin quiet
    BY <1>1, <1>2, <2>1 DEF DatasetHolds, QuietIsHeld, QuietHolds
  <2>4. KeptBy(r, f)
    BY <1>2, <2>2, <2>3 DEF KeptBy, PutDone
  <2> QED
    BY <1>1, <2>4, DatasetGrows DEF PutDone
<1> QED
  BY <1>4, <1>5

LEMMA DataEnding ==
  ASSUME Shape, DataInv, NEW r \in Requests, Ends(r),
         UNCHANGED <<store, staging, uploads, used, may, quiet, soiled, synced>>
  PROVE  DataInv'
<1> SUFFICES ASSUME NEW f \in Data PROVE DatasetHolds(f)'
  BY DEF DataInv
<1>1. DatasetHolds(f) /\ Untouched(f)
  BY DEF DataInv, Untouched
<1> QED
  BY <1>1, DatasetEnds

LEMMA DataUpload ==
  ASSUME Shape, DataInv, NEW r \in Requests, Uploading(r)
  PROVE  DataInv'
<1> SUFFICES ASSUME NEW f \in Data PROVE DatasetHolds(f)'
  BY DEF DataInv
<1> USE DEF At
<1>1. /\ DatasetHolds(f) /\ Others(r) /\ Same(r) /\ f \in Files /\ req[r].kind = "upload"
      /\ req'[r].step \in {"written", "push"}
  BY FilesAreApart DEF DataInv, Uploading, Goes, Steady
<1>2. ~(Moving(r, f)')
  BY <1>1, NotMoving
<1>3. staging \in [Files -> Contents] /\ may \in [Data -> SUBSET (0..MaxUploads)]
  BY DEF Shape, TypeOK
<1>4. CASE req[r].file # f
  <2>1. staging'[f] = staging[f] /\ may'[f] = may[f]
    BY <1>1, <1>3, <1>4 DEF Uploading
  <2>2. Untouched(f) /\ ~(Changing(r, f)')
    BY <1>1, <1>4, <2>1 DEF Uploading, Untouched, Changing, Same
  <2> QED
    BY <1>1, <1>2, <2>2, DatasetUntouched
<1>5. CASE req[r].file = f
  <2>1. Changing(r, f)
    BY <1>1, <1>5 DEF Changing, Changes
  <2>2. \/ staging'[f] = Torn /\ may'[f] = may[f] /\ req'[r].step = "written"
        \/ staging'[f] = req[r].own /\ may'[f] = may[f] \cup {req[r].own} /\ req'[r].step = "push"
    BY <1>1, <1>3, <1>5 DEF Uploading, Goes
  <2>3. RecentHolds(f)' /\ may[f] \subseteq may'[f]
    BY <1>1, <2>2 DEF Uploading, DatasetHolds, RecentHolds, Found
  <2>4. \A q \in Requests : Changing(q, f)' <=> Changing(q, f)
    BY <1>1 DEF Changing, Same, Others
  <2>5. f \in quiet' => QuietHolds(r, f)'
    BY <1>1, <1>2, <2>1, <2>2, <2>4
       DEF Uploading, DatasetHolds, QuietIsHeld, QuietHolds, Same
  <2>6. KeptBy(r, f)
    BY <1>2, <2>1, <2>3, <2>5 DEF KeptBy, Uploading
  <2> QED
    BY <1>1, <2>3, <2>6, DatasetGrows DEF Uploading
<1> QED
  BY <1>4, <1>5

LEMMA DataPush ==
  ASSUME Shape, DataInv, NEW r \in Requests, Pushed(r)
  PROVE  DataInv'
<1> SUFFICES ASSUME NEW f \in Data PROVE DatasetHolds(f)'
  BY DEF DataInv
<1> USE DEF At
<1>1. DatasetHolds(f) /\ f \in Files /\ req[r].kind = "upload" /\ req[r].step = "push"
  BY FilesAreApart DEF DataInv, Pushed
<1>2. CASE Ends(r) /\ UNCHANGED <<store, soiled>>
  BY <1>1, <1>2, DatasetEnds DEF Pushed, Untouched
<1>3. CASE /\ staging[req[r].file] # Absent
           /\ Loops(r, "fetch", {req[r].file}, "open") /\ ReadStaged(req[r].file)
           /\ store' = [store EXCEPT ![req[r].file] = staging[req[r].file]]
  <2>1. Others(r) /\ Same(r) /\ req'[r].step = "fetch"
    BY <1>3 DEF Loops, Steady
  <2>2. ~(Moving(r, f)')
    BY <2>1, NotMoving
  <2>3. store \in [Files -> Contents]
    BY DEF Shape, TypeOK
  <2>4. CASE req[r].file # f
    <3>1. store'[f] = store[f]
      BY <1>1, <1>3, <2>3, <2>4
    <3>2. Untouched(f) /\ ~(Changing(r, f)')
      BY <1>3, <2>1, <2>4, <3>1 DEF Pushed, Untouched, ReadStaged, Changing, Same
    <3> QED
      BY <1>1, <2>1, <2>2, <3>2, DatasetUntouched
  <2>5. CASE req[r].file = f
    <3>1. Changing(r, f) /\ store'[f] = staging[f]
      BY <1>1, <1>3, <2>3, <2>5 DEF Changing, Changes
    <3>2. RecentHolds(f)'
      BY <1>1, <1>3, <2>5, <3>1 DEF Pushed, DatasetHolds, RecentHolds, Found, ReadStaged
    <3>3. \A q \in Requests : Changing(q, f)' <=> Changing(q, f)
      BY <2>1 DEF Changing, Same, Others
    <3>4. f \in quiet => staging[f] = req[r].own
      BY <1>1, <3>1 DEF DatasetHolds, QuietIsHeld, QuietHolds
    <3>5. f \in quiet' => QuietHolds(r, f)'
      BY <1>1, <2>1, <2>2, <3>1, <3>3, <3>4
         DEF Pushed, DatasetHolds, QuietIsHeld, QuietHolds, Same
    <3>6. KeptBy(r, f)
      BY <2>2, <3>1, <3>2, <3>5 DEF KeptBy, Pushed
    <3> QED
      BY <1>1, <1>3, <2>1, <3>6, DatasetGrows DEF Pushed, ReadStaged
  <2> QED
    BY <2>4, <2>5
<1> QED
  BY <1>2, <1>3 DEF Pushed

LEMMA DataOpen ==
  ASSUME Shape, DataInv, NEW r \in Requests, Opened(r)
  PROVE  DataInv'
<1> SUFFICES ASSUME NEW f \in Data PROVE DatasetHolds(f)'
  BY DEF DataInv
<1> USE DEF At
<1>1. DatasetHolds(f) /\ Untouched(f) /\ req[r].step = "open"
  BY DEF DataInv, Opened, Untouched
<1>2. CASE Ends(r)
  BY <1>1, <1>2, DatasetEnds
<1>3. CASE \/ req[r].kind = "upload" /\ Goes(r, "answer")
           \/ req[r].kind = "delete" /\ Goes(r, "erase")
  <2>1. Others(r) /\ Same(r) /\ req'[r].step \in {"answer", "erase"}
    BY <1>3 DEF Goes, Steady
  <2>2. ~(Moving(r, f)')
    BY <2>1, NotMoving
  <2>3. \A q \in Requests : Changing(q, f)' <=> Changing(q, f)
    BY <2>1 DEF Changing, Same, Others
  <2>4. f \in quiet => QuietHolds(r, f)
    BY <1>1 DEF DatasetHolds, QuietIsHeld
  <2>5. f \in quiet' => QuietHolds(r, f)'
    BY <1>1, <2>1, <2>2, <2>3, <2>4 DEF QuietHolds, Untouched, Same
  <2> QED
    BY <1>1, <2>1, <2>2, <2>5, DatasetGoesOn
<1> QED
  BY <1>2, <1>3 DEF Opened

\* The end of a change: r has made c of its dataset, and if nobody has disturbed
\* it, both copies are c or the staged one is gone.
LEMMA DataSettle ==
  ASSUME Shape, DataInv, NEW r \in Requests, Ends(r), NEW f \in Data, NEW c \in Contents,
         Changing(r, f), Settle(f, c), UNCHANGED <<store, quiet>>,
         staging'[f] = staging[f] \/ staging'[f] = Absent,
         f \in quiet => store[f] = c /\ staging'[f] \in {c, Absent}
  PROVE  DatasetHolds(f)'
<1>1. DatasetHolds(f) /\ Others(r) /\ ~(Moving(r, f)') /\ ~(Changing(r, f)')
  BY DEF DataInv, Ends, Moving, Changing, Changes, None
<1>2. may \in [Data -> SUBSET (0..MaxUploads)]
  BY DEF Shape, TypeOK
<1>3. CASE f \notin quiet
  <2>1. UNCHANGED <<may, soiled>>
    BY <1>3 DEF Settle
  <2>2. KeptBy(r, f)
    BY <1>1, <1>3, <2>1 DEF KeptBy, DatasetHolds, RecentHolds, Found
  <2> QED
    BY <1>1, <2>1, <2>2, DatasetGrows
<1>4. CASE f \in quiet
  <2>1. may'[f] = {c}
    BY <1>2, <1>4 DEF Settle
  <2>2. KeptBy(r, f)
    BY <1>1, <1>4, <2>1 DEF KeptBy, QuietHolds, RecentHolds, Found
  <2>3. ASSUME NEW q \in Requests \ {r}, Moving(q, f) PROVE Found(f, req[q].blob)'
    BY <1>1, <1>4, <2>3 DEF DatasetHolds, QuietIsHeld, QuietHolds
  <2> QED
    BY <1>1, <2>2, <2>3, DatasetKept
<1> QED
  BY <1>3, <1>4

LEMMA DataDelete ==
  ASSUME Shape, DataInv, NEW r \in Requests, Deleting(r)
  PROVE  DataInv'
<1> SUFFICES ASSUME NEW f \in Data PROVE DatasetHolds(f)'
  BY DEF DataInv
<1> USE DEF At
<1>1. DatasetHolds(f) /\ f \in Files /\ req[r].kind = "delete" /\ req[r].file \in Data
  BY FilesAreApart DEF DataInv, Deleting
<1>2. /\ store \in [Files -> Contents] /\ staging \in [Files -> Contents]
      /\ may \in [Data -> SUBSET (0..MaxUploads)]
  BY DEF Shape, TypeOK
<1>3. CASE /\ req[r].step = "erase" /\ Goes(r, "unlink") /\ UNCHANGED <<staging, soiled>>
           /\ store' = [store EXCEPT ![req[r].file] = Absent]
           /\ may' = [may EXCEPT ![req[r].file] = @ \cup {Absent}]
  <2>1. Others(r) /\ Same(r) /\ req'[r].step = "unlink"
    BY <1>3 DEF Goes, Steady
  <2>2. ~(Moving(r, f)')
    BY <2>1, NotMoving
  <2>3. CASE req[r].file # f
    <3>1. store'[f] = store[f] /\ may'[f] = may[f]
      BY <1>1, <1>2, <1>3, <2>3
    <3>2. Untouched(f) /\ ~(Changing(r, f)')
      BY <1>3, <2>1, <2>3, <3>1 DEF Deleting, Untouched, Changing, Same
    <3> QED
      BY <1>1, <2>1, <2>2, <3>2, DatasetUntouched
  <2>4. CASE req[r].file = f
    <3>1. Changing(r, f) /\ store'[f] = Absent /\ may'[f] = may[f] \cup {Absent}
      BY <1>1, <1>2, <1>3, <2>4 DEF Changing, Changes
    <3>2. RecentHolds(f)' /\ may[f] \subseteq may'[f]
      BY <1>1, <1>3, <3>1 DEF DatasetHolds, RecentHolds, Found
    <3>3. \A q \in Requests : Changing(q, f)' <=> Changing(q, f)
      BY <2>1 DEF Changing, Same, Others
    <3>4. f \in quiet' => QuietHolds(r, f)'
      BY <1>1, <2>1, <2>2, <3>1, <3>3
         DEF Deleting, DatasetHolds, QuietIsHeld, QuietHolds, Same
    <3>5. KeptBy(r, f)
      BY <2>2, <3>1, <3>2, <3>4 DEF KeptBy, Deleting
    <3> QED
      BY <1>1, <1>3, <2>1, <3>2, <3>5, DatasetGrows
  <2> QED
    BY <2>3, <2>4
<1>4. CASE /\ req[r].step = "unlink" /\ Ends(r) /\ UNCHANGED store
           /\ staging' = [staging EXCEPT ![req[r].file] = Absent]
           /\ Settle(req[r].file, Absent)
  <2>1. CASE req[r].file # f
    <3>1. staging'[f] = staging[f] /\ may'[f] = may[f] /\ (f \in soiled => f \in soiled')
      BY <1>1, <1>2, <1>4, <2>1 DEF Settle
    <3>2. Untouched(f)
      BY <1>4, <3>1 DEF Deleting, Untouched
    <3> QED
      BY <1>1, <1>4, <3>2, DatasetEnds
  <2>2. CASE req[r].file = f
    <3>1. Changing(r, f) /\ staging'[f] = Absent /\ Settle(f, Absent) /\ Absent \in Contents
      BY <1>1, <1>2, <1>4, <2>2, ContentsAreApart DEF Changing, Changes
    <3>2. f \in quiet => store[f] = Absent
      BY <1>1, <1>4, <3>1 DEF DatasetHolds, QuietIsHeld, QuietHolds
    <3> QED
      BY <1>4, <3>1, <3>2, DataSettle DEF Deleting
  <2> QED
    BY <2>1, <2>2
<1> QED
  BY <1>3, <1>4 DEF Deleting

\* A training writes no dataset.
LEMMA DataTrain ==
  ASSUME Shape, DataInv, NEW r \in Requests,
         (\E m \in Models : TrainOpened(r, m)) \/ Training(r)
  PROVE  DataInv'
<1> SUFFICES ASSUME NEW f \in Data PROVE DatasetHolds(f)'
  BY DEF DataInv
<1>1. /\ DatasetHolds(f) /\ Others(r) /\ req[r].kind \notin Changes
      /\ req'[r].kind = req[r].kind
      /\ req'[r].step \in {"dump", "describe", "list data", "answer"}
      /\ UNCHANGED <<store, may, quiet, soiled>>
  BY DEF DataInv, TrainOpened, Training, Goes, Steady, Same, Trains, Changes
<1>2. staging'[f] = staging[f]
  <2>1. staging \in [Files -> Contents] /\ f \in Files
    BY FilesAreApart DEF Shape, TypeOK
  <2>2. \A m \in Models : Joblib(m) # f /\ Json(m) # f
    BY FilesAreApart
  <2> QED
    BY <2>1, <2>2 DEF TrainOpened, Training
<1>3. Untouched(f) /\ ~(Changing(r, f)') /\ ~(Moving(r, f)')
  BY <1>1, <1>2 DEF Untouched, Changing, Moving
<1> QED
  BY <1>1, <1>3, DatasetUntouched

LEMMA DataPredict ==
  ASSUME Shape, DataInv, NEW r \in Requests, Predicting(r)
  PROVE  DataInv'
<1>1. \A f \in Data : Untouched(f)
  BY DEF Predicting, Untouched
<1>2. /\ Others(r) /\ (Same(r) \/ Ends(r))
      /\ req'[r].step \notin {"save", "saved", "put"} /\ req[r].kind \notin Changes
  BY DEF Predicting, Ends, Loops, Goes, Steady, Predicts, Changes
<1> QED
  BY <1>1, <1>2, DataAside

LEMMA DataAnswer ==
  ASSUME Shape, DataInv, NEW r \in Requests, Answered(r)
  PROVE  DataInv'
<1> SUFFICES ASSUME NEW f \in Data PROVE DatasetHolds(f)'
  BY DEF DataInv
<1> USE DEF At
<1>1. DatasetHolds(f) /\ Ends(r) /\ req[r].step = "answer"
  BY DEF DataInv, Answered
<1>2. CASE req[r].kind = "upload"
  <2>1. Settle(req[r].file, req[r].own) /\ req[r].own \in Contents
    <3>1. req[r] \in Request
      BY DEF Shape, TypeOK
    <3> QED
      BY <1>2, <3>1, RequestFields, ContentsAreApart DEF Answered
  <2>2. CASE req[r].file # f
    <3>1. may \in [Data -> SUBSET (0..MaxUploads)]
      BY DEF Shape, TypeOK
    <3>2. Untouched(f)
      BY <2>1, <2>2, <3>1 DEF Answered, Untouched, Settle
    <3> QED
      BY <1>1, <3>2, DatasetEnds
  <2>3. CASE req[r].file = f
    <3>1. Changing(r, f)
      BY <1>2, <2>3 DEF Changing, Changes
    <3>2. f \in quiet => store[f] = req[r].own /\ staging[f] = req[r].own
      BY <1>1, <1>2, <3>1 DEF DatasetHolds, QuietIsHeld, QuietHolds
    <3> QED
      BY <1>1, <2>1, <2>3, <3>1, <3>2, DataSettle DEF Answered
  <2> QED
    BY <2>2, <2>3
<1>3. CASE req[r].kind # "upload"
  BY <1>1, <1>3, DatasetEnds DEF Answered, Untouched
<1> QED
  BY <1>2, <1>3

LEMMA DataRestart ==
  ASSUME Shape, DataInv, Restart
  PROVE  DataInv'
<1> SUFFICES ASSUME NEW f \in Data PROVE DatasetHolds(f)'
  BY DEF DataInv
<1>1. \A r \in Requests : ~(Moving(r, f)') /\ ~(Changing(r, f)')
  BY ShapeRestart, IdleFields DEF Moving, Changing, Changes, None
<1>2. RecentHolds(f)'
  <2>1. f \in Files
    BY FilesAreApart
  <2> QED
    BY <2>1 DEF DataInv, DatasetHolds, RecentHolds, Found, Restart, ghosts
<1> QED
  BY <1>1, <1>2 DEF DatasetHolds, HandsHold, QuietIsHeld, QuietHolds

LEMMA DataNext ==
  ASSUME Shape, DataInv, [Next]_vars
  PROVE  DataInv'
<1>1. CASE UNCHANGED vars
  BY <1>1 DEF vars, ghosts, DataInv, DatasetHolds, RecentHolds, HandsHold, QuietIsHeld,
              QuietHolds, Found, Moving, Changing, At
<1>2. ASSUME NEW r \in Requests, Arrive(r) PROVE DataInv'
  BY <1>2, ArriveEffect, DataArrive
<1>3. ASSUME NEW r \in Requests, Sync(r) PROVE DataInv'
  <2>1. ASSUME NEW f \in Files, Fetch(r, f) PROVE DataInv'
    BY <2>1, FetchEffect, DataFetch
  <2>2. ASSUME NEW f \in Files, PushRead(r, f) PROVE DataInv'
    BY <2>2, PushReadEffect, DataPushRead
  <2>3. CASE Fail(r)
    BY <2>3, EndingEffect, DataEnding
  <2> QED
    BY <1>3, <2>1, <2>2, <2>3, SaveEffect, DataSave, ListEffect, DataList, PushPutEffect,
       DataPut DEF Sync
<1>4. ASSUME NEW r \in Requests, Handler(r) PROVE DataInv'
  <2>1. ASSUME NEW m \in Models, OpenTrain(r, m) PROVE DataInv'
    BY <2>1, OpenTrainEffect, DataTrain
  <2>2. CASE Refuse(r)
    BY <2>2, EndingEffect, DataEnding
  <2>3. CASE Dump(r) \/ Describe(r)
    BY <2>3, TrainEffect, DataTrain
  <2>4. CASE Write(r) \/ Written(r) \/ Push(r) \/ Erase(r) \/ Unlink(r)
    BY <2>4, UploadEffect, DataUpload, PushEffect, DataPush, DeleteEffect, DataDelete
  <2>5. CASE OpenUpload(r) \/ OpenDelete(r) \/ Answer(r)
    BY <2>5, OpenEffect, DataOpen, AnswerEffect, DataAnswer
  <2>6. CASE FetchJoblib(r) \/ CheckModel(r) \/ OpenPredict(r)
    BY <2>6, PredictEffect, DataPredict
  <2> QED
    BY <1>4, <2>1, <2>2, <2>3, <2>4, <2>5, <2>6 DEF Handler
<1> QED
  BY <1>1, <1>2, <1>3, <1>4, DataRestart DEF Next

LEMMA DataInit == Init => DataInv
<1> SUFFICES ASSUME Init, NEW f \in Data PROVE DatasetHolds(f)
  BY DEF DataInv
<1>1. \A r \in Requests : ~Moving(r, f)
  BY IdleFields DEF Init, Moving
<1> QED
  BY <1>1, FilesAreApart
     DEF Init, DatasetHolds, RecentHolds, HandsHold, QuietIsHeld, Found

\* However uploads, deletes, fetches, pushes, trainings and restarts overlap, what
\* is found under a dataset's name is no older than the last answered change that
\* nobody disturbed, and a half-written copy is in the bucket only after a push
\* has read one.
THEOREM DatasetsAreRecent == Spec => []DatasetIsRecent
<1>1. Shape /\ DataInv /\ [Next]_vars => (Shape /\ DataInv)'
  BY ShapeNext, DataNext
<1>2. DataInv => DatasetIsRecent
  BY DEF DataInv, DatasetHolds, RecentHolds, Found, DatasetIsRecent
<1> QED
  BY ShapeInit, DataInit, <1>1, <1>2, PTL DEF Spec

-----------------------------------------------------------------------------
(* A step of r, seen from the model files. *)

\* No step but a restart takes a model file away.
Remain == \A g \in ModelFiles : /\ Staged(g) => Staged(g)'
                                /\ store[g] # Absent => store'[g] # Absent
                                /\ g \in soiled => g \in soiled'

\* What r writes of a model file, and holds of it, is no less than it was.
ModelKeptBy(r, g) ==
  /\ store'[g] \in ModelContents /\ staging'[g] \in ModelContents
  /\ Moving(r, g)' => req'[r].blob \in ModelContents \ {Absent}
  /\ g \notin soiled' => /\ store'[g] # Torn
                         /\ req'[r].step = "put" /\ req'[r].moving = g => req'[r].blob # Torn

LEMMA ModelFileKept ==
  ASSUME NEW r \in Requests, Others(r), Remain, NEW g \in ModelFiles, ModelFileHolds(g),
         ModelKeptBy(r, g)
  PROVE  ModelFileHolds(g)'
<1>1. ASSUME NEW q \in Requests
      PROVE  /\ Moving(q, g)' => req'[q].blob \in ModelContents \ {Absent}
             /\ g \notin soiled' =>
                   (req'[q].step = "put" /\ req'[q].moving = g => req'[q].blob # Torn)
  <2>1. CASE q = r
    BY <2>1 DEF ModelKeptBy
  <2>2. CASE q # r
    BY <2>2 DEF Others, ModelFileHolds, Moving, Remain, At
  <2> QED
    BY <2>1, <2>2
<1> QED
  BY <1>1 DEF ModelFileHolds, ModelKeptBy, At

\* The other requests keep what they have staged and pushed.
LEMMA SyncKept ==
  ASSUME Shape, NEW r \in Requests, Others(r), Remain, NEW q \in Requests \ {r}, SyncHolds(q)
  PROVE  SyncHolds(q)'
<1>1. req'[q] = req[q]
  BY DEF Others
<1>2. CASE req[q].kind \in Predicts \/ (req[q].kind \in Trains /\ req[q].step \in ModelSteps)
  <2>1. req[q].model \in Models
    BY <1>2 DEF Shape, TypeOK, Fits, SubjectFits
  <2>2. /\ Joblib(req[q].model) \in ModelFiles /\ Json(req[q].model) \in ModelFiles
        /\ FilesOf(req[q].model) \subseteq ModelFiles
    BY <2>1, FilesAreApart DEF FilesOf
  <2>3. /\ Staged(Joblib(req[q].model)) => Staged(Joblib(req[q].model))'
        /\ Staged(Json(req[q].model)) => Staged(Json(req[q].model))'
    BY <1>1, <2>2 DEF Remain, Staged
  <2> QED
    BY <1>1, <2>2, <2>3 DEF SyncHolds, Remain, Checked, PushedModels, At
<1>3. CASE ~(req[q].kind \in Predicts \/ (req[q].kind \in Trains /\ req[q].step \in ModelSteps))
  BY <1>1, <1>3
     DEF Shape, Fits, KindFits, SyncHolds, Checked, PushedModels, At, ModelSteps, Pushing,
         Syncs, Trains, Predicts
<1> QED
  BY <1>2, <1>3

\* A step that leaves the model files alone and takes none in hand.
LEMMA ModelsAside ==
  ASSUME Shape, ModelInv, NEW r \in Requests, Others(r), UNCHANGED synced,
         \A g \in ModelFiles : /\ store'[g] = store[g] /\ staging'[g] = staging[g]
                               /\ g \in soiled => g \in soiled'
                               /\ ~(Moving(r, g)'),
         SyncHolds(r)'
  PROVE  ModelInv'
<1>1. Remain
  BY DEF Remain, Staged
<1>2. ASSUME NEW g \in ModelFiles PROVE ModelFileHolds(g)'
  <2>1. ModelKeptBy(r, g)
    BY DEF ModelInv, ModelFileHolds, ModelKeptBy, Moving
  <2> QED
    BY <1>1, <2>1, ModelFileKept DEF ModelInv
<1>3. ASSUME NEW q \in Requests PROVE SyncHolds(q)'
  BY <1>1, SyncKept DEF ModelInv
<1>4. \A m \in synced' : \A g \in FilesOf(m) : store'[g] # Absent
  <2>1. \A m \in synced : FilesOf(m) \subseteq ModelFiles
    BY FilesAreApart DEF Shape, TypeOK
  <2> QED
    BY <2>1 DEF ModelInv
<1> QED
  BY <1>2, <1>3, <1>4 DEF ModelInv

\* The same for a step that may write or hold model files.
LEMMA ModelsKept ==
  ASSUME Shape, ModelInv, NEW r \in Requests, Others(r), UNCHANGED synced, Remain,
         \A g \in ModelFiles : ModelKeptBy(r, g), SyncHolds(r)'
  PROVE  ModelInv'
<1>1. \A g \in ModelFiles : ModelFileHolds(g)'
  BY ModelFileKept DEF ModelInv
<1>2. \A q \in Requests : SyncHolds(q)'
  BY SyncKept DEF ModelInv
<1>3. \A m \in synced' : \A g \in FilesOf(m) : store'[g] # Absent
  <2>1. \A m \in synced : FilesOf(m) \subseteq ModelFiles
    BY FilesAreApart DEF Shape, TypeOK
  <2> QED
    BY <2>1 DEF ModelInv, Remain
<1> QED
  BY <1>1, <1>2, <1>3 DEF ModelInv

\* A request with none of the steps that SyncHolds speaks of.
LEMMA SyncIdle ==
  ASSUME NEW r \in Requests,
         \/ req'[r].kind \notin Trains \cup Predicts
         \/ req'[r].step \in {"idle", "fetch joblib", "check"}
         \/ req'[r].step = "answer" /\ req'[r].kind = "train job"
         \/ req'[r].step = "open" /\ req'[r].kind \notin Predicts
         \/ req'[r].step \in Fetching /\ (req'[r].then # "open" \/ req'[r].kind \notin Predicts),
         req'[r].step \in {"dump", "describe"} => req'[r].kind \in Trains
  PROVE  SyncHolds(r)'
  BY DEF SyncHolds, Checked, PushedModels, At, Fetching, Pushing, Trains, Predicts, Syncs

LEMMA ModelsEnd ==
  ASSUME Shape, ModelInv, NEW r \in Requests, Ends(r), UNCHANGED synced,
         \A g \in ModelFiles : /\ store'[g] = store[g] /\ staging'[g] = staging[g]
                               /\ g \in soiled => g \in soiled'
  PROVE  ModelInv'
<1>1. Others(r) /\ req'[r].step = "idle"
  BY DEF Ends
<1>2. \A g \in ModelFiles : ~(Moving(r, g)')
  BY <1>1 DEF Moving
<1>3. SyncHolds(r)'
  BY <1>1, SyncIdle
<1> QED
  BY <1>1, <1>2, <1>3, ModelsAside

LEMMA ModelArrive ==
  ASSUME Shape, ModelInv, NEW r \in Requests, Arrived(r)
  PROVE  ModelInv'
<1>1. \A g \in ModelFiles : ~(Moving(r, g)')
  BY DEF Arrived, Moving
<1>2. SyncHolds(r)'
  BY SyncIdle DEF Arrived, Fetching, Trains, Predicts
<1> QED
  BY <1>1, <1>2, ModelsAside DEF Arrived

\* SyncHolds when r goes on within a loop, or from one to the next step, and
\* keeps its model.
LEMMA ModelFetch ==
  ASSUME Shape, ModelInv, NEW r \in Requests, NEW f \in Files, Fetched(r, f)
  PROVE  ModelInv'
<1> USE DEF At
<1>1. SyncHolds(r) /\ Same(r) /\ Others(r) /\ req[r].step = "fetch"
  BY DEF ModelInv, Fetched, Loops, Moves, Steady
<1>2. req[r].then \in {"answer", "open", "fetch joblib", "check"}
        /\ (req[r].then = "answer" => req[r].kind \notin Trains \cup Predicts)
  BY <1>1 DEF Shape, Fits, LoopFits, Fetching, Trains, Predicts
<1>3. /\ req'[r].step \in {"fetch", "save", req[r].then}
      /\ req'[r].step \in {"fetch", "save"} => req'[r].then = req[r].then
  BY <1>2 DEF Fetched, Loops, Moves
<1>4. SyncHolds(r)'
  <2>1. Checked(r)' => Checked(r)
    BY <1>1, <1>2, <1>3 DEF Checked, Same, Fetching, Pushing, Predicts
  <2> QED
    BY <1>1, <1>2, <1>3, <2>1
       DEF Fetched, SyncHolds, PushedModels, Same, Syncs, Pushing, Staged, Trains, Predicts
<1>5. Remain
  BY DEF Fetched, Remain, Staged
<1>6. ASSUME NEW g \in ModelFiles PROVE ModelKeptBy(r, g)
  BY <1>1, <1>2 DEF ModelInv, ModelFileHolds, ModelKeptBy, Fetched, Loops, Moves, Moving
<1> QED
  BY <1>1, <1>4, <1>5, <1>6, ModelsKept DEF Fetched

LEMMA ModelSave ==
  ASSUME Shape, ModelInv, NEW r \in Requests, Saved(r)
  PROVE  ModelInv'
<1> USE DEF At
<1>1. SyncHolds(r) /\ Same(r) /\ Others(r) /\ req[r].step \in {"save", "saved"}
  BY DEF ModelInv, Saved, Loops, Goes, Steady
<1>2. req[r].then \in {"answer", "open", "fetch joblib", "check"}
        /\ (req[r].then = "answer" => req[r].kind \notin Trains \cup Predicts)
  BY <1>1 DEF Shape, Fits, LoopFits, Fetching, Trains, Predicts
<1>3. /\ req'[r].step \in {"fetch", "saved", req[r].then}
      /\ req'[r].step \in {"fetch", "saved"} => req'[r].then = req[r].then
  BY <1>2 DEF Saved, Loops, Goes
<1>4. ASSUME NEW g \in ModelFiles
      PROVE  /\ staging'[g] \in ModelContents /\ (Staged(g) => Staged(g)')
             /\ ~Staged(g) /\ req[r].moving # g => ~(Staged(g)')
  <2>1. staging \in [Files -> Contents] /\ g \in Files
    BY FilesAreApart DEF Shape, TypeOK
  <2>2. CASE req[r].moving # g
    BY <2>1, <2>2 DEF Saved, Staged, ModelInv, ModelFileHolds
  <2>3. CASE req[r].moving = g
    <3>1. Moving(r, g)
      BY <1>1, <2>3 DEF Moving
    <3>2. req[r].blob \in ModelContents \ {Absent} /\ Torn \in ModelContents \ {Absent}
      BY <3>1, ContentsAreApart DEF ModelInv, ModelFileHolds, ModelContents
    <3> QED
      BY <2>1, <2>3, <3>2 DEF Saved, Staged
  <2> QED
    BY <2>2, <2>3
<1>5. Remain
  BY <1>4 DEF Saved, Remain
<1>6. ASSUME NEW g \in ModelFiles PROVE ModelKeptBy(r, g)
  <2>1. Moving(r, g)' => Moving(r, g) /\ req'[r].blob = req[r].blob
    BY <1>1, <1>2 DEF Saved, Loops, Goes, Moving
  <2> QED
    BY <1>2, <1>3, <1>4, <2>1 DEF ModelInv, ModelFileHolds, ModelKeptBy, Saved
<1>7. SyncHolds(r)'
  <2>1. Checked(r)' => Checked(r)
    BY <1>1, <1>2, <1>3 DEF Checked, Same, Fetching, Pushing, Predicts
  <2>2. ASSUME Checked(r) PROVE staging'[Json(req[r].model)] # Absent
    <3>1. req[r].model \in Models
      BY <2>2 DEF Checked, Shape, TypeOK, Fits, SubjectFits
    <3>2. Json(req[r].model) \in ModelFiles
      BY <3>1, FilesAreApart DEF FilesOf
    <3>3. staging[Json(req[r].model)] # Absent
      BY <1>1, <2>2 DEF SyncHolds, Staged
    <3> QED
      BY <1>5, <3>2, <3>3 DEF Remain, Staged
  <2>3. Checked(r)' => Staged(Json(req[r].model))'
    BY <1>1, <2>1, <2>2 DEF Staged, Same
  <2> QED
    BY <1>1, <1>2, <1>3, <2>3
       DEF SyncHolds, PushedModels, Same, Syncs, Pushing, Staged, Trains, Predicts
<1> QED
  BY <1>1, <1>5, <1>6, <1>7, ModelsKept DEF Saved

\* The model of a request that pushes the workspace.
LEMMA PushedModel ==
  ASSUME Shape, NEW r \in Requests, req[r].kind \in Syncs,
         req[r].step \in {"list data", "list models", "answer"} \cup Pushing
  PROVE  /\ req[r].model \in used /\ req[r].model \in Models
         /\ FilesOf(req[r].model) \subseteq ModelFiles
<1>1. req[r].model \in used
  BY DEF Shape, Fits, SubjectFits, Syncs, Trains, Predicts, ModelSteps, Pushing
<1> QED
  BY <1>1, FilesAreApart DEF Shape, TypeOK

LEMMA ModelList ==
  ASSUME Shape, ModelInv, NEW r \in Requests, Listed(r)
  PROVE  ModelInv'
<1> USE DEF At
<1>1. /\ SyncHolds(r) /\ Same(r) /\ Others(r) /\ req[r].step \in {"list data", "list models"}
      /\ req[r].kind \in Syncs
  BY DEF ModelInv, Listed, Loops, Steady, Shape, Fits, KindFits
<1>2. /\ Staged(Joblib(req[r].model)) /\ Staged(Json(req[r].model))
      /\ FilesOf(req[r].model) \subseteq ModelFiles
  BY <1>1, PushedModel DEF SyncHolds
<1>3. \A g \in ModelFiles : ~(Moving(r, g)')
  BY DEF Listed, Loops, Moving
<1>4. SyncHolds(r)'
  <2>1. CASE req[r].step = "list data"
    BY <1>1, <1>2, <2>1
       DEF Listed, Loops, Same, SyncHolds, Checked, PushedModels, Pushing, Syncs, Staged
  <2>2. CASE req[r].step = "list models"
    <3>1. FilesOf(req[r].model) \subseteq {g \in ModelFiles : staging[g] # Absent}
      BY <1>2 DEF FilesOf, Staged
    <3>2. Json(req[r].model) \in {g \in ModelFiles : staging[g] # Absent}
      BY <3>1 DEF FilesOf
    <3>3. Loops(r, "each", {g \in ModelFiles : staging[g] # Absent}, "answer")
      BY <2>2 DEF Listed
    <3>4. /\ req'[r].step = "each" /\ req'[r].then = "answer"
          /\ FilesOf(req[r].model) \subseteq req'[r].todo
      BY <3>1, <3>2, <3>3 DEF Loops
    <3> QED
      BY <1>1, <1>2, <3>4
         DEF Listed, Same, SyncHolds, Checked, PushedModels, Pushing, Syncs, Staged
  <2> QED
    BY <1>1, <2>1, <2>2
<1> QED
  BY <1>1, <1>3, <1>4, ModelsAside DEF Listed

LEMMA ModelPushRead ==
  ASSUME Shape, ModelInv, NEW r \in Requests, NEW f \in Files, ReadForPush(r, f)
  PROVE  ModelInv'
<1> USE DEF At
<1>1. /\ SyncHolds(r) /\ req[r].step = "each" /\ req[r].kind \in Syncs
      /\ req[r].then \in {"list models", "answer"}
  BY DEF ModelInv, ReadForPush, Shape, Fits, KindFits, LoopFits, Pushing
<1>2. /\ Staged(Joblib(req[r].model)) /\ Staged(Json(req[r].model))
      /\ FilesOf(req[r].model) \subseteq ModelFiles
      /\ \A g \in FilesOf(req[r].model) : Staged(g)
  BY <1>1, PushedModel DEF SyncHolds, Pushing, FilesOf
<1>3. CASE Ends(r)
  BY <1>3, ModelsEnd DEF ReadForPush, ReadStaged
<1>4. CASE staging[f] = Absent /\ Loops(r, "each", req[r].todo \ {f}, req[r].then)
  <2>1. /\ Same(r) /\ Others(r) /\ req'[r].step \in {"each", "list models", "answer"}
        /\ req'[r].step = "each" =>
              req'[r].todo = req[r].todo \ {f} /\ req'[r].then = req[r].then
        /\ req'[r].step # "each" => req'[r].step = req[r].then /\ req[r].todo \subseteq {f}
    BY <1>1, <1>4 DEF Loops, Steady
  <2>2. f \notin FilesOf(req[r].model)
    BY <1>2, <1>4 DEF Staged
  <2>3. \A g \in ModelFiles : ~(Moving(r, g)')
    BY <2>1 DEF Moving
  <2>4. SyncHolds(r)'
    BY <1>1, <1>2, <2>1, <2>2
       DEF ReadForPush, Same, SyncHolds, Checked, PushedModels, Pushing, Syncs, Staged, FilesOf
  <2> QED
    BY <2>1, <2>3, <2>4, ModelsAside DEF ReadForPush, ReadStaged
<1>5. CASE staging[f] # Absent /\ Moves(r, "put", f, staging[f]) /\ ReadStaged(f)
  <2>1. /\ Same(r) /\ Others(r) /\ req'[r].step = "put" /\ req'[r].todo = req[r].todo
        /\ req'[r].then = req[r].then /\ req'[r].moving = f /\ req'[r].blob = staging[f]
    BY <1>5 DEF Moves, Steady
  <2>2. SyncHolds(r)'
    BY <1>1, <1>2, <2>1
       DEF ReadForPush, Same, SyncHolds, Checked, PushedModels, Pushing, Syncs, Staged, FilesOf
  <2>3. Remain
    BY DEF ReadForPush, ReadStaged, Remain, Staged
  <2>4. ASSUME NEW g \in ModelFiles PROVE ModelKeptBy(r, g)
    BY <1>5, <2>1
       DEF ModelInv, ModelFileHolds, ModelKeptBy, ReadForPush, ReadStaged, Moving
  <2> QED
    BY <2>1, <2>2, <2>3, <2>4, ModelsKept DEF ReadForPush
<1> QED
  BY <1>3, <1>4, <1>5 DEF ReadForPush

LEMMA ModelPut ==
  ASSUME Shape, ModelInv, NEW r \in Requests, PutDone(r)
  PROVE  ModelInv'
<1> USE DEF At
<1>1. /\ SyncHolds(r) /\ req[r].step = "put" /\ req[r].kind \in Syncs
      /\ req[r].then \in {"list models", "answer"}
  BY DEF ModelInv, PutDone, Shape, Fits, KindFits, LoopFits, Pushing
<1>2. /\ Staged(Joblib(req[r].model)) /\ Staged(Json(req[r].model))
      /\ FilesOf(req[r].model) \subseteq ModelFiles
  BY <1>1, PushedModel DEF SyncHolds, Pushing
<1> DEFINE f == req[r].moving
<1>3. /\ Same(r) /\ Others(r) /\ req'[r].step \in {"each", "list models", "answer"}
      /\ req'[r].step = "each" =>
            req'[r].todo = req[r].todo \ {f} /\ req'[r].then = req[r].then
      /\ req'[r].step # "each" => req'[r].step = req[r].then /\ req[r].todo \subseteq {f}
  BY <1>1 DEF PutDone, Loops, Steady
<1>4. ASSUME NEW g \in ModelFiles
      PROVE  /\ store'[g] \in ModelContents /\ (store[g] # Absent => store'[g] # Absent)
             /\ g = f => store'[g] # Absent
             /\ g \notin soiled => store'[g] # Torn
  <2>1. store \in [Files -> Contents] /\ g \in Files
    BY FilesAreApart DEF Shape, TypeOK
  <2>2. CASE f # g
    BY <2>1, <2>2 DEF PutDone, ModelInv, ModelFileHolds
  <2>3. CASE f = g
    <3>1. Moving(r, g)
      BY <1>1, <2>3 DEF Moving
    <3>2. /\ req[r].blob \in ModelContents \ {Absent}
          /\ g \notin soiled => req[r].blob # Torn
      BY <1>1, <2>3, <3>1 DEF ModelInv, ModelFileHolds
    <3> QED
      BY <2>1, <2>3, <3>2 DEF PutDone
  <2> QED
    BY <2>2, <2>3
<1>5. Remain
  BY <1>4 DEF PutDone, Remain, Staged
<1>6. ASSUME NEW g \in ModelFiles PROVE ModelKeptBy(r, g)
  BY <1>3, <1>4 DEF ModelInv, ModelFileHolds, ModelKeptBy, PutDone, Moving
<1>7. SyncHolds(r)'
  <2>1. /\ Staged(Joblib(req[r].model))' /\ Staged(Json(req[r].model))'
        /\ req'[r].kind = req[r].kind /\ req'[r].model = req[r].model
    BY <1>2, <1>3 DEF PutDone, Staged, Same
  <2>2. ASSUME PushedModels(r)', NEW g \in FilesOf(req[r].model)
        PROVE  store'[g] # Absent \/ (req'[r].step \in Pushing /\ g \in req'[r].todo)
    <3>1. req[r].then = "answer" /\ PushedModels(r)
      BY <1>1, <1>3, <2>2 DEF PushedModels, Pushing
    <3>2. g \in ModelFiles /\ (store[g] # Absent \/ g \in req[r].todo)
      BY <1>1, <1>2, <2>2, <3>1 DEF SyncHolds
    <3> QED
      BY <1>3, <1>4, <3>2 DEF Pushing
  <2>3. Checked(r)' => Staged(Json(req[r].model))'
    BY <2>1
  <2> QED
    BY <1>3, <2>1, <2>2, <2>3 DEF SyncHolds, Same
<1> QED
  BY <1>3, <1>5, <1>6, <1>7, ModelsKept DEF PutDone

LEMMA ModelEnding ==
  ASSUME Shape, ModelInv, NEW r \in Requests, Ends(r),
         UNCHANGED <<store, staging, uploads, used, may, quiet, soiled, synced>>
  PROVE  ModelInv'
  BY ModelsEnd

\* An upload or a delete touches no model file.
LEMMA ModelChange ==
  ASSUME Shape, ModelInv, NEW r \in Requests, Uploading(r) \/ Pushed(r) \/ Opened(r) \/ Deleting(r)
  PROVE  ModelInv'
<1> USE DEF At
<1>1. ASSUME NEW g \in ModelFiles
      PROVE  store'[g] = store[g] /\ staging'[g] = staging[g] /\ (g \in soiled => g \in soiled')
  <2>1. store \in [Files -> Contents] /\ staging \in [Files -> Contents] /\ g \in Files \ Data
    BY FilesAreApart DEF Shape, TypeOK
  <2> QED
    BY <2>1 DEF Uploading, Pushed, Opened, Deleting, Settle, ReadStaged
<1>2. CASE Ends(r)
  BY <1>1, <1>2, ModelsEnd DEF Uploading, Pushed, Opened, Deleting
<1>3. CASE ~Ends(r)
  <2>1. /\ Others(r) /\ req'[r].kind \in Changes
        /\ req'[r].step \in {"written", "push", "fetch", "answer", "erase", "unlink"}
    BY <1>3 DEF Uploading, Pushed, Opened, Deleting, Goes, Loops, Steady, Same, Changes
  <2>2. SyncHolds(r)'
    BY <2>1, SyncIdle DEF Changes, Trains, Predicts
  <2>3. \A g \in ModelFiles : ~(Moving(r, g)')
    BY <2>1 DEF Moving
  <2> QED
    BY <1>1, <2>1, <2>2, <2>3, ModelsAside DEF Uploading, Pushed, Opened, Deleting
<1> QED
  BY <1>2, <1>3

\* What a training writes is there when it goes on.
LEMMA ModelTrain ==
  ASSUME Shape, ModelInv, NEW r \in Requests,
         (\E m \in Models : TrainOpened(r, m)) \/ Training(r)
  PROVE  ModelInv'
<1> USE DEF At
<1>1. PICK m \in Models : TrainOpened(r, m) \/ (Training(r) /\ m = req[r].model)
  BY DEF Training
<1>2. /\ Others(r) /\ UNCHANGED <<store, soiled, synced>>
      /\ req'[r].model = m /\ req'[r].kind \in Trains
      /\ req'[r].step \in {"dump", "describe", "list data", "answer"}
      /\ req'[r].step = "answer" => req'[r].kind = "train job"
  BY <1>1 DEF TrainOpened, Training, Goes, Steady, Same, Trains
<1>3. SyncHolds(r) /\ Joblib(m) \in ModelFiles /\ Json(m) \in ModelFiles /\ Joblib(m) # Json(m)
        /\ Joblib(m) \in Files /\ Json(m) \in Files
  BY FilesAreApart DEF ModelInv, FilesOf
<1>4. staging \in [Files -> Contents] /\ Torn # Absent /\ Whole # Absent
  BY ContentsAreApart DEF Shape, TypeOK
<1>5. /\ staging'[Joblib(m)] # Absent
      /\ req'[r].step # "dump" => staging'[Json(m)] # Absent
  <2>1. CASE TrainOpened(r, m)
    BY <1>3, <1>4, <2>1 DEF TrainOpened
  <2>2. CASE Training(r) /\ m = req[r].model
    BY <1>3, <1>4, <2>2 DEF Training, SyncHolds, Staged, Goes
  <2> QED
    BY <1>1, <2>1, <2>2
<1>6. ASSUME NEW g \in ModelFiles
      PROVE  staging'[g] = staging[g] \/ staging'[g] \in {Torn, Whole}
  <2>1. g \in Files
    BY FilesAreApart
  <2> QED
    BY <1>1, <1>3, <1>4, <2>1 DEF TrainOpened, Training
<1>7. Remain
  BY <1>2, <1>4, <1>6 DEF Remain, Staged
<1>8. ASSUME NEW g \in ModelFiles PROVE ModelKeptBy(r, g)
  BY <1>2, <1>6 DEF ModelInv, ModelFileHolds, ModelKeptBy, ModelContents, Moving
<1>9. SyncHolds(r)'
  BY <1>2, <1>5 DEF SyncHolds, Checked, PushedModels, Pushing, Syncs, Trains, Predicts, Staged
<1> QED
  BY <1>2, <1>7, <1>8, <1>9, ModelsKept

LEMMA ModelPredict ==
  ASSUME Shape, ModelInv, NEW r \in Requests, Predicting(r)
  PROVE  ModelInv'
<1> USE DEF At
<1>1. SyncHolds(r) /\ Absent # Whole
  BY ContentsAreApart DEF ModelInv
<1>2. CASE Ends(r)
  BY <1>2, ModelsEnd DEF Predicting
<1>3. CASE ~Ends(r)
  <2>1. /\ Others(r) /\ Same(r)
        /\ req'[r].step \in {"fetch", "open", "check", "list data"}
    BY <1>3 DEF Predicting, Loops, Goes, Steady
  <2>2. \A g \in ModelFiles : ~(Moving(r, g)')
    BY <2>1 DEF Moving
  <2>3. SyncHolds(r)'
    <3>1. CASE req[r].step = "fetch joblib" /\ Loops(r, "fetch", {Joblib(req[r].model)}, "check")
      <4>1. req'[r].step = "fetch" /\ req'[r].then = "check"
        BY <3>1 DEF Loops
      <4> QED
        BY <4>1, SyncIdle DEF Fetching
    <3>2. CASE /\ req[r].step = "check" /\ Loops(r, "fetch", {req[r].file}, "open")
               /\ staging[Json(req[r].model)] = Whole
      <4>1. req'[r].step = "fetch" /\ req'[r].model = req[r].model
        BY <2>1, <3>2 DEF Loops, Same
      <4> QED
        BY <1>1, <3>2, <4>1 DEF Predicting, SyncHolds, PushedModels, Pushing, Staged
    <3>3. CASE /\ req[r].step = "open" /\ Goes(r, "list data") /\ req[r].kind = "predict"
               /\ staging[Joblib(req[r].model)] = Whole
      <4>1. req'[r].step = "list data" /\ req'[r].model = req[r].model
        BY <2>1, <3>3 DEF Goes, Same
      <4>2. Staged(Json(req[r].model)) /\ Staged(Joblib(req[r].model))
        BY <1>1, <3>3 DEF SyncHolds, Checked, Predicts, Staged
      <4> QED
        BY <4>1, <4>2 DEF Predicting, SyncHolds, PushedModels, Pushing, Staged
    <3> QED
      BY <1>3, <3>1, <3>2, <3>3 DEF Predicting
  <2> QED
    BY <2>1, <2>2, <2>3, ModelsAside DEF Predicting
<1> QED
  BY <1>2, <1>3

LEMMA ModelAnswer ==
  ASSUME Shape, ModelInv, NEW r \in Requests, Answered(r)
  PROVE  ModelInv'
<1> USE DEF At
<1>1. SyncHolds(r) /\ Others(r) /\ req'[r].step = "idle" /\ req[r].step = "answer"
  BY DEF ModelInv, Answered, Ends
<1>2. \A g \in ModelFiles : g \in soiled => g \in soiled'
  <2>1. req[r].kind = "upload" => req[r].file \in Data
    BY DEF Shape, Fits, SubjectFits, Changes
  <2> QED
    BY <2>1, FilesAreApart DEF Answered, Settle
<1>3. Remain
  BY <1>2 DEF Answered, Remain, Staged
<1>4. ASSUME NEW g \in ModelFiles PROVE ModelFileHolds(g)'
  <2>1. ModelKeptBy(r, g)
    BY <1>1, <1>2 DEF Answered, ModelInv, ModelFileHolds, ModelKeptBy, Moving
  <2> QED
    BY <1>1, <1>3, <2>1, ModelFileKept DEF ModelInv
<1>5. ASSUME NEW q \in Requests PROVE SyncHolds(q)'
  <2>1. SyncHolds(r)'
    BY <1>1, SyncIdle
  <2> QED
    BY <1>1, <1>3, <2>1, SyncKept DEF ModelInv
<1>6. ASSUME NEW m \in synced', NEW g \in FilesOf(m) PROVE store'[g] # Absent
  <2>1. CASE m \in synced
    BY <1>6, <2>1 DEF Answered, ModelInv
  <2>2. CASE m = req[r].model /\ req[r].kind \in Syncs
    BY <1>1, <1>6, <2>2 DEF Answered, SyncHolds, PushedModels, Pushing
  <2> QED
    BY <1>6, <2>1, <2>2 DEF Answered
<1> QED
  BY <1>4, <1>5, <1>6 DEF ModelInv

LEMMA ModelRestart ==
  ASSUME Shape, ModelInv, Restart
  PROVE  ModelInv'
<1>1. \A r \in Requests : req'[r].step = "idle"
  BY ShapeRestart, IdleFields
<1>2. ASSUME NEW g \in ModelFiles PROVE ModelFileHolds(g)'
  <2>1. g \in Files
    BY FilesAreApart
  <2> QED
    BY <1>1, <2>1 DEF ModelInv, ModelFileHolds, ModelContents, Restart, ghosts, Moving, At
<1>3. ASSUME NEW r \in Requests PROVE SyncHolds(r)'
  BY <1>1, SyncIdle
<1> QED
  BY <1>2, <1>3 DEF ModelInv, Restart, ghosts

LEMMA ModelNext ==
  ASSUME Shape, ModelInv, [Next]_vars
  PROVE  ModelInv'
<1>1. CASE UNCHANGED vars
  BY <1>1 DEF vars, ghosts, ModelInv, ModelFileHolds, SyncHolds, Staged, Checked, PushedModels,
              Moving, At
<1>2. ASSUME NEW r \in Requests, Arrive(r) PROVE ModelInv'
  BY <1>2, ArriveEffect, ModelArrive
<1>3. ASSUME NEW r \in Requests, Sync(r) PROVE ModelInv'
  <2>1. ASSUME NEW f \in Files, Fetch(r, f) PROVE ModelInv'
    BY <2>1, FetchEffect, ModelFetch
  <2>2. ASSUME NEW f \in Files, PushRead(r, f) PROVE ModelInv'
    BY <2>2, PushReadEffect, ModelPushRead
  <2>3. CASE Fail(r)
    BY <2>3, EndingEffect, ModelEnding
  <2> QED
    BY <1>3, <2>1, <2>2, <2>3, SaveEffect, ModelSave, ListEffect, ModelList, PushPutEffect,
       ModelPut DEF Sync
<1>4. ASSUME NEW r \in Requests, Handler(r) PROVE ModelInv'
  <2>1. ASSUME NEW m \in Models, OpenTrain(r, m) PROVE ModelInv'
    BY <2>1, OpenTrainEffect, ModelTrain
  <2>2. CASE Refuse(r)
    BY <2>2, EndingEffect, ModelEnding
  <2>3. CASE Dump(r) \/ Describe(r)
    BY <2>3, TrainEffect, ModelTrain
  <2>4. CASE Write(r) \/ Written(r) \/ Push(r) \/ OpenUpload(r) \/ OpenDelete(r)
             \/ Erase(r) \/ Unlink(r)
    BY <2>4, UploadEffect, PushEffect, OpenEffect, DeleteEffect, ModelChange
  <2>5. CASE FetchJoblib(r) \/ CheckModel(r) \/ OpenPredict(r)
    BY <2>5, PredictEffect, ModelPredict
  <2>6. CASE Answer(r)
    BY <2>6, AnswerEffect, ModelAnswer
  <2> QED
    BY <1>4, <2>1, <2>2, <2>3, <2>4, <2>5, <2>6 DEF Handler
<1> QED
  BY <1>1, <1>2, <1>3, <1>4, ModelRestart DEF Next

LEMMA ModelInit == Init => ModelInv
<1> SUFFICES ASSUME Init PROVE ModelInv
  OBVIOUS
<1>1. \A r \in Requests : req[r].step = "idle" /\ req[r].kind = None
  BY IdleFields DEF Init
<1>2. \A g \in ModelFiles : ModelFileHolds(g)
  BY <1>1, FilesAreApart, ContentsAreApart
     DEF Init, ModelFileHolds, ModelContents, Moving, At
<1>3. \A r \in Requests : SyncHolds(r)
  BY <1>1 DEF SyncHolds, Checked, PushedModels, At, Predicts, Syncs, Pushing, Fetching, None
<1> QED
  BY <1>2, <1>3 DEF Init, ModelInv

\* However pushes, fetches, trainings and restarts overlap, a model whose training
\* or prediction has answered after pushing the workspace has both files whole in
\* the bucket for ever, unless a push has read one of them half-written.
THEOREM SyncedModelsSurvive == Spec => []SyncedModelSurvives
<1>1. Shape /\ ModelInv /\ [Next]_vars => (Shape /\ ModelInv)'
  BY ShapeNext, ModelNext
<1>2. ASSUME Shape, ModelInv PROVE SyncedModelSurvives
  <2> SUFFICES ASSUME NEW m \in synced, FilesOf(m) \cap soiled = {}, NEW g \in FilesOf(m)
               PROVE  store[g] = Whole
    BY DEF SyncedModelSurvives, Stored
  <2>1. g \in ModelFiles
    BY <1>2, FilesAreApart DEF Shape, TypeOK
  <2> QED
    BY <1>2, <2>1 DEF ModelInv, ModelFileHolds, ModelContents
<1> QED
  BY ShapeInit, ModelInit, <1>1, <1>2, PTL DEF Spec
=============================================================================
