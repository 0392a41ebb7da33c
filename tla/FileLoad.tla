------------------------------ MODULE FileLoad ------------------------------
(***************************************************************************)
(* The uploader of the experiment page (FileUploader.jsx): a file is       *)
(* uploaded, its first rows are fetched, and it is loaded into the kernel  *)
(* as df. Another file may be chosen while one is being loaded, and the    *)
(* mark then speaks of whichever file is named.                            *)
(***************************************************************************)
EXTENDS Naturals

CONSTANTS Tables, NoTable   \* the files there are, and none

ASSUME LoadAssumption == NoTable \notin Tables

VARIABLES
    upStage,    \* uploading: off, uploading, previewing
    named,      \* filename
    previewOf,  \* the file the preview is of
    loadOf,     \* the file being loaded, none when loading is FALSE
    marked,     \* loadedToKernel
    df,         \* what df is in the kernel
    kernelUp,   \* kernel.status.ready
    swapped     \* history: a file was chosen while another was being loaded

loadVars == <<upStage, named, previewOf, loadOf, marked, df, kernelUp, swapped>>

LoadInit ==
    /\ upStage = "off" /\ named = NoTable /\ previewOf = NoTable
    /\ loadOf = NoTable /\ marked = FALSE /\ df = NoTable
    /\ kernelUp \in BOOLEAN /\ swapped = FALSE

ChooseTable ==
    /\ upStage = "off"
    /\ upStage' = "uploading"
    /\ previewOf' = NoTable /\ marked' = FALSE
    /\ swapped' = (loadOf # NoTable)
    /\ UNCHANGED <<named, loadOf, df, kernelUp>>

TableUploaded(f) ==
    /\ upStage = "uploading"
    /\ named' = f /\ upStage' = "previewing"
    /\ UNCHANGED <<previewOf, loadOf, marked, df, kernelUp, swapped>>

\* The name of the file before stays.
TableUploadFails ==
    /\ upStage = "uploading"
    /\ upStage' = "off"
    /\ UNCHANGED <<named, previewOf, loadOf, marked, df, kernelUp, swapped>>

TablePreviewed(ok) ==
    /\ upStage = "previewing"
    /\ upStage' = "off"
    /\ previewOf' = IF ok THEN named ELSE previewOf
    /\ UNCHANGED <<named, loadOf, marked, df, kernelUp, swapped>>

LoadTable ==
    /\ named # NoTable /\ loadOf = NoTable /\ kernelUp
    /\ loadOf' = named
    /\ swapped' = (swapped \/ upStage = "uploading")
    /\ UNCHANGED <<upStage, named, previewOf, marked, df, kernelUp>>

TableLoaded ==
    /\ loadOf # NoTable
    /\ df' = loadOf /\ loadOf' = NoTable
    /\ marked' = TRUE
    /\ UNCHANGED <<upStage, named, previewOf, kernelUp, swapped>>

\* The kernel may have it or not; the mark stays as it is.
TableLoadFails ==
    /\ loadOf # NoTable
    /\ loadOf' = NoTable
    /\ df' \in {df, loadOf}
    /\ UNCHANGED <<upStage, named, previewOf, marked, kernelUp, swapped>>

\* The kernel is ready once it has been started.
KernelStarts ==
    /\ ~kernelUp
    /\ kernelUp' = TRUE
    /\ UNCHANGED <<upStage, named, previewOf, loadOf, marked, df, swapped>>

LoadNext ==
    \/ ChooseTable \/ TableUploadFails \/ LoadTable \/ TableLoaded \/ TableLoadFails
    \/ KernelStarts
    \/ \E f \in Tables : TableUploaded(f)
    \/ \E ok \in BOOLEAN : TablePreviewed(ok)

LoadSpec == LoadInit /\ [][LoadNext]_loadVars

-----------------------------------------------------------------------------
LoadTypeOK ==
    /\ upStage \in {"off", "uploading", "previewing"}
    /\ {named, previewOf, loadOf, df} \subseteq Tables \cup {NoTable}
    /\ {marked, kernelUp, swapped} \subseteq BOOLEAN

\* The file said to be in the kernel is the one that is named, and df is it,
\* unless another was chosen while it was being loaded.
MarkIsOfNamed == (marked /\ ~swapped) => df = named

=============================================================================
