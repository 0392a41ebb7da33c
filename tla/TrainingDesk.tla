---------------------------- MODULE TrainingDesk ----------------------------
(***************************************************************************)
(* From a file to a trained model: the part of App.jsx that the upload,    *)
(* preview, training, prediction and result pages share. One file is       *)
(* selected; its preview names the columns; the target and the input       *)
(* features are chosen among them; TrainingRun sends all that to the       *)
(* server. Every answer may be late, and the user goes on working.         *)
(***************************************************************************)
EXTENDS Naturals, Sequences, SequencesExt

CONSTANTS
    Files,        \* names under which data is uploaded
    Columns,
    ColumnsOf,    \* the columns of each version of each file
    NoFile,
    NoColumn,
    MaxUploads,   \* bound: uploads under one name
    MaxAsked      \* bound: preview requests in flight when the user acts

ASSUME DeskAssumption ==
    /\ NoFile \notin Files /\ NoColumn \notin Columns
    /\ MaxUploads \in Nat \ {0} /\ MaxAsked \in Nat
    /\ ColumnsOf \in [Files -> [1..MaxUploads -> SUBSET Columns]]

VARIABLES
    version,   \* server: how often a file was uploaded, 0 if never
    listed,    \* datasets
    selected,  \* selectedFile
    shown,     \* preview: a file and the version it was read in
    target,    \* targetColumn
    features,  \* featureSelection: column -> switched on
    asked,     \* the preview requests in flight, in the order they were sent
    newest,    \* history: what became of the newest preview request
    upload     \* handleUpload: its stage and file
deskVars == <<version, listed, selected, shown, target, features, asked, newest, upload>>

NoPreview == [file |-> NoFile, v |-> 0]
Previews == {NoPreview} \cup [file : Files, v : 1..MaxUploads]
Offers(p) == IF p = NoPreview THEN {} ELSE ColumnsOf[p.file][p.v]

Inputs == {c \in DOMAIN features : features[c]}

-----------------------------------------------------------------------------
DeskInit ==
    /\ version \in [Files -> {0, 1}]
    /\ listed = {} /\ selected = NoFile /\ shown = NoPreview
    /\ target = NoColumn /\ features = [c \in {} |-> TRUE]
    /\ asked = <<>> /\ newest = "none"
    /\ upload = [stage |-> "idle", file |-> NoFile]

DefaultFeatures_WithTarget(p, t) == [c \in Offers(p) |-> TRUE]

\* The effect on [preview, targetColumn]: every column but the target is on.
DefaultFeatures(p, t) == [c \in Offers(p) \ {t} |-> TRUE]

\* refreshPreview sends a request (v = 0: not read yet). One for a file that
\* is no longer selected cannot bring the preview the user is to see.
Ask(f) == /\ asked' = Append(asked, [file |-> f, v |-> 0])
          /\ newest' = IF f = selected' THEN "pending" ELSE "lost"

\* The effect on selectedFile asks for the preview of a newly selected file;
\* with nothing selected it asks for nothing, and the old preview stays.
Select(f) ==
    /\ selected' = f
    /\ IF f # NoFile /\ f # selected THEN Ask(f) ELSE UNCHANGED <<asked, newest>>

\* The select of the preview and training pages; the target stays.
ChooseFile(f) ==
    /\ f \in listed \cup {NoFile} /\ f # selected
    /\ Len(asked) < MaxAsked
    /\ Select(f)
    /\ UNCHANGED <<version, listed, shown, target, features, upload>>

\* loadDatasets: the list is taken over, and with nothing selected its first
\* file is selected.
ListArrives ==
    /\ listed' = {f \in Files : version[f] > 0}
    /\ IF selected = NoFile /\ listed' # {}
       THEN \E f \in listed' : Select(f)
       ELSE UNCHANGED <<selected, asked, newest>>

LoadDatasets ==
    /\ Len(asked) < MaxAsked
    /\ ListArrives
    /\ UNCHANGED <<version, shown, target, features, upload>>

\* The preview page's button.
RefreshPreview ==
    /\ selected # NoFile /\ Len(asked) < MaxAsked
    /\ UNCHANGED selected
    /\ Ask(selected)
    /\ UNCHANGED <<version, listed, shown, target, features, upload>>

PreviewRead(i) ==
    /\ asked[i].v = 0
    /\ asked' = [asked EXCEPT ![i].v = version[asked[i].file]]
    /\ UNCHANGED <<version, listed, selected, shown, target, features, newest, upload>>

\* The answer is taken over, whatever is selected by now.
PreviewArrives(i) ==
    /\ asked[i].v > 0
    /\ shown' = asked[i]
    /\ features' = DefaultFeatures(asked[i], target)
    /\ asked' = RemoveAt(asked, i)
    /\ newest' = IF newest = "pending"
                 THEN IF i = Len(asked) THEN "shown" ELSE "pending"
                 ELSE "lost"
    /\ UNCHANGED <<version, listed, selected, target, upload>>

PreviewFails(i) ==
    /\ asked' = RemoveAt(asked, i)
    /\ newest' = IF newest = "pending" /\ i = Len(asked) THEN "lost" ELSE newest
    /\ UNCHANGED <<version, listed, selected, shown, target, features, upload>>

\* The select of the training page offers the columns of the preview.
ChooseTarget(c) ==
    /\ c \in Offers(shown) \cup {NoColumn} /\ c # target
    /\ target' = c
    /\ features' = DefaultFeatures(shown, c)
    /\ UNCHANGED <<version, listed, selected, shown, asked, newest, upload>>

ToggleFeature(c) ==
    /\ c \in DOMAIN features
    /\ features' = [features EXCEPT ![c] = ~@]
    /\ UNCHANGED <<version, listed, selected, shown, target, asked, newest, upload>>

-----------------------------------------------------------------------------
(* handleUpload, for a file picked or dropped; ignored while one runs.     *)

Upload(f) ==
    /\ upload.stage = "idle" /\ version[f] < MaxUploads
    /\ Len(asked) < MaxAsked
    /\ upload' = [stage |-> "sent", file |-> f]
    /\ UNCHANGED <<version, listed, selected, shown, target, features, asked, newest>>

ServerStores ==
    /\ upload.stage = "sent"
    /\ version' = [version EXCEPT ![upload.file] = @ + 1]
    /\ upload' = [upload EXCEPT !.stage = "stored"]
    /\ UNCHANGED <<listed, selected, shown, target, features, asked, newest>>

\* The file is selected and the choices are reset. A target that was set
\* makes the effect fill in the features of the preview still shown.
UploadAnswered ==
    /\ upload.stage = "stored"
    /\ Select(upload.file)
    /\ target' = NoColumn
    /\ features' = DefaultFeatures(IF target = NoColumn THEN NoPreview ELSE shown, NoColumn)
    /\ upload' = [upload EXCEPT !.stage = "listing"]
    /\ UNCHANGED <<version, listed, shown>>

\* The new list, and then a preview of its own, are awaited one by one.
UploadListed ==
    /\ upload.stage = "listing"
    /\ listed' = {f \in Files : version[f] > 0}
    /\ UNCHANGED selected
    /\ Ask(upload.file)
    /\ upload' = [upload EXCEPT !.stage = "previewing"]
    /\ UNCHANGED <<version, shown, target, features>>

UploadEnds ==
    /\ upload.stage = "previewing"
    /\ upload' = [stage |-> "idle", file |-> NoFile]
    /\ UNCHANGED <<version, listed, selected, shown, target, features, asked, newest>>

\* The upload fails; a client that gave up waiting does not learn that the
\* server stored the file.
UploadFails ==
    /\ upload.stage \in {"sent", "stored"}
    /\ newest' = IF upload.stage = "stored" THEN "lost" ELSE newest
    /\ upload' = [stage |-> "idle", file |-> NoFile]
    /\ UNCHANGED <<version, listed, selected, shown, target, features, asked>>

-----------------------------------------------------------------------------
DeskNext ==
    \/ \E f \in Files \cup {NoFile} : ChooseFile(f)
    \/ LoadDatasets \/ RefreshPreview
    \/ \E i \in DOMAIN asked : PreviewRead(i) \/ PreviewArrives(i) \/ PreviewFails(i)
    \/ \E c \in Columns \cup {NoColumn} : ChooseTarget(c) \/ ToggleFeature(c)
    \/ \E f \in Files : Upload(f)
    \/ ServerStores \/ UploadAnswered \/ UploadListed \/ UploadEnds \/ UploadFails

DeskSpec == DeskInit /\ [][DeskNext]_deskVars

-----------------------------------------------------------------------------
DeskTypeOK ==
    /\ version \in [Files -> 0..MaxUploads]
    /\ listed \subseteq Files /\ selected \in Files \cup {NoFile}
    /\ shown \in Previews
    /\ target \in Columns \cup {NoColumn}
    /\ DOMAIN features \subseteq Columns /\ \A c \in DOMAIN features : features[c] \in BOOLEAN
    /\ \A i \in DOMAIN asked : asked[i] \in [file : Files, v : 0..MaxUploads]
    /\ newest \in {"none", "pending", "shown", "lost"}
    /\ upload.stage \in {"idle", "sent", "stored", "listing", "previewing"}

\* The target column is never among the inputs a training sends (the model
\* would be given what it is to predict), and every input is a column of the
\* preview, whatever order previews, uploads and choices come in.
TargetIsNoInput == target \notin Inputs /\ Inputs \subseteq Offers(shown)

\* Once the newest preview request was answered, and no older answer came
\* after it, the preview is that of the selected file as it now is: every
\* path that changes the selection or the file asks again. (An older answer
\* that comes later replaces the preview, whatever is selected.)
NewestPreviewIsCurrent ==
    newest = "shown" /\ upload.stage = "idle" /\ selected # NoFile
        => shown = [file |-> selected, v |-> version[selected]]

=============================================================================
