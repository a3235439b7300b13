----------------------------- MODULE MCLibrary ------------------------------
(***************************************************************************)
(* The services around the archive queue on small instances, one at a      *)
(* time: they share nothing that their models keep, so a behaviour of the  *)
(* system is one behaviour of each, and part names the one looked at.      *)
(* Each module's own fairness holds for the part that is looked at: part   *)
(* never changes, so one formula may name an action of each part.          *)
(***************************************************************************)
EXTENDS ArchiveIndex, Discovery, Comments, LocalModels

VARIABLE part

vars == <<part, indexVars, listVars, commentVars, localVars>>

OnlyIndex == UNCHANGED <<part, listVars, commentVars, localVars>>
OnlyDiscovery == UNCHANGED <<part, indexVars, commentVars, localVars>>
OnlyComments == UNCHANGED <<part, indexVars, listVars, localVars>>
OnlyPreviews == UNCHANGED <<part, indexVars, listVars, commentVars>>

LibraryInit ==
    /\ part \in {"index", "discovery", "comments", "previews"}
    /\ IndexInit /\ ScanInit /\ CommentsInit /\ LocalInit
    /\ part = "index" \/ complete
    /\ part = "discovery" \/ kind = "author"
    /\ part = "comments" \/ (board = <<>> /\ style = [replies |-> "flat", told |-> TRUE])

LibraryNext ==
    \/ part = "index" /\ IndexNext /\ OnlyIndex
    \/ part = "discovery" /\ ScanNext /\ OnlyDiscovery
    \/ part = "comments" /\ CommentsNext /\ OnlyComments
    \/ part = "previews" /\ LocalNext /\ OnlyPreviews

LibraryFair ==
    /\ WF_vars(
           \/ part = "index" /\ RepairStep /\ OnlyIndex
           \/ part = "discovery" /\ StartScan /\ OnlyDiscovery
           \/ part = "comments" /\ StartCollect(TRUE) /\ OnlyComments
           \/ part = "previews" /\ Painting /\ OnlyPreviews)
    /\ WF_vars(
           \/ part = "index" /\ RetryPasses /\ OnlyIndex
           \/ part = "discovery" /\ ScanStep /\ OnlyDiscovery)
    /\ WF_vars(
           \/ part = "index" /\ ReleaseMemory /\ OnlyIndex
           \/ part = "discovery" /\ DayPasses /\ OnlyDiscovery)
    /\ WF_vars(part = "index" /\ ReadSnapshot("worker") /\ OnlyIndex)
    /\ WF_vars(part = "index" /\ AskForRepair("worker") /\ OnlyIndex)
    /\ JobsEnd

LibrarySpec == LibraryInit /\ [][LibraryNext]_vars /\ LibraryFair

\* Every variable of every part keeps its type.
LibraryTypeOK == IndexTypeOK /\ ScanTypeOK /\ CommentsTypeOK /\ LocalTypeOK

=============================================================================
