---------------------------- MODULE LocalModels -----------------------------
(***************************************************************************)
(* The local models and their generated previews (local_model_edit.py,     *)
(* local_model_preview.py, local_preview_worker.py, local_model_merge.py). *)
(* The API imports, edits, merges and deletes models; the worker renders a *)
(* preview for a model that has no image of its own.  What is to be        *)
(* rendered is marked in the meta.json of the model and named in a queue   *)
(* in the database, which is scanned for anew when it is empty.            *)
(*                                                                         *)
(* The edits, the details page and each part of the worker's run hold the  *)
(* slot of the model's metadata, and are one step here; a rendering lies   *)
(* between two such parts.  A merge and a deletion hold no slot.  Every    *)
(* file has a name of its own, so that a merge renames none; the           *)
(* thumbnails of the instances, the previews inside of 3MF files, titles,  *)
(* flags and previews of older versions are left out.                      *)
(***************************************************************************)
EXTENDS Naturals, FiniteSets, SequencesExt

CONSTANTS
    Model, Image,
    File,           \* model files ...
    Renderable,     \* ... of which these are 3MF, STL or OBJ
    Wanted,         \* a bound: what the users do
    Deaths          \* a bound: the worker or the API dies

ASSUME LocalAssumption ==
    /\ IsFiniteSet(Model) /\ Renderable \subseteq File /\ Wanted \in Nat /\ Deaths \in Nat

VARIABLES
    lib,        \* lib[m]: the directory of a model, and what its meta.json says
    disk,       \* disk[m]: the model files, and the preview, that lie in the directory
    jobs,       \* PREVIEW_QUEUE_STATE_KEY
    painter,    \* the worker's run: where it is, its model, the meta.json it read,
                \* and whether its job is still in the queue
    merge,      \* merge_local_models
    wanted, deaths      \* what is left of the bounds

localVars == <<lib, disk, jobs, painter, merge, wanted, deaths>>

Preview == "preview"    \* three_preview_<name>.png
NoCover == "none"
Terminal == {"failed", "skipped", "too_large", "unsupported"}
NoModel == [here |-> FALSE, files |-> {}, images |-> {}, preview |-> FALSE,
            cover |-> NoCover, manual |-> FALSE, status |-> "", needs |-> FALSE]
Resting == [at |-> "idle", model |-> CHOOSE m \in Model : TRUE, file |-> CHOOSE f \in File : TRUE,
            meta |-> NoModel, current |-> TRUE]
NoMerge == [at |-> "no", target |-> CHOOSE m \in Model : TRUE, source |-> CHOOSE m \in Model : TRUE,
            old |-> NoModel, new |-> NoModel]

LocalInit ==
    /\ lib = [m \in Model |-> NoModel] /\ disk = [m \in Model |-> {}]
    /\ jobs = <<>> /\ painter = Resting /\ merge = NoMerge
    /\ wanted = Wanted /\ deaths = Deaths

-----------------------------------------------------------------------------
(* local_model_preview.py, of a meta.json and its directory                *)

HasOwn(meta) == meta.images # {} \/ meta.manual
Candidates(meta, dir) == meta.files \cap Renderable \cap dir
HasCurrent(meta, dir) == meta.status = "success" /\ meta.preview /\ Preview \in dir

NotNeeded(meta) ==
    [meta EXCEPT !.needs = FALSE, !.status = IF @ \in {"pending", "running"} THEN "skipped" ELSE @]
Pending(meta, dir) ==
    CASE HasOwn(meta) -> NotNeeded(meta)
      [] ~ HasOwn(meta) /\ Candidates(meta, dir) = {} ->
            IF meta.status = "unsupported" THEN meta
            ELSE [meta EXCEPT !.status = "unsupported", !.needs = FALSE]
      [] ~ HasOwn(meta) /\ Candidates(meta, dir) # {} ->
            IF HasCurrent(meta, dir) \/ meta.status \in Terminal THEN [meta EXCEPT !.needs = FALSE]
            ELSE IF meta.status = "running" THEN meta
            ELSE [meta EXCEPT !.status = "pending", !.needs = TRUE]
NeedsGeneration(meta, dir) ==
    /\ Candidates(meta, dir) # {} /\ ~ HasOwn(meta)
    /\ meta.status \notin Terminal /\ ~ HasCurrent(meta, dir)

\* The preview becomes the cover, unless the user chose one or there are images.
Applied(meta) ==
    IF meta.manual /\ meta.cover = Preview THEN meta
    ELSE [meta EXCEPT !.preview = TRUE, !.status = "success", !.needs = FALSE,
                      !.cover = IF meta.manual \/ @ \in Image THEN @
                                ELSE IF meta.images # {} THEN CHOOSE i \in meta.images : TRUE ELSE Preview]
Failed(meta, status) == [meta EXCEPT !.status = status, !.needs = FALSE]

-----------------------------------------------------------------------------
(* The queue: a job that is asked for again is a new one                   *)

OthersThan(m) ==
    LET list[n \in 0 .. Len(jobs)] ==
            IF n = 0 THEN <<>> ELSE IF jobs[n] = m THEN list[n - 1] ELSE Append(list[n - 1], jobs[n])
    IN list
Without(m) == OthersThan(m)[Len(jobs)]
Enqueued(m) == Append(Without(m), m)
Superseded(m) == [painter EXCEPT !.current = @ /\ painter.model # m]
Enqueue(m) == jobs' = Enqueued(m) /\ painter' = Superseded(m)
Unqueued == UNCHANGED <<jobs, painter>>
\* The API dies after it has written the meta.json.
EnqueueOrDie(m) ==
    \/ Enqueue(m) /\ UNCHANGED deaths
    \/ deaths > 0 /\ deaths' = deaths - 1 /\ Unqueued

-----------------------------------------------------------------------------
(* The API                                                                 *)

Want == wanted > 0 /\ wanted' = wanted - 1
Saved(m, meta) == lib' = [lib EXCEPT ![m] = meta]
NamesOf(m) == lib[m].files \cup disk[m]
NewFile(f) == \A m \in Model : f \notin NamesOf(m)

ImportPackage(m, f, images) ==
    /\ Want /\ ~ lib[m].here /\ disk[m] = {} /\ NewFile(f)
    /\ disk' = [disk EXCEPT ![m] = {f}]
    /\ LET meta == [NoModel EXCEPT !.here = TRUE, !.files = {f}, !.images = images,
                                   !.cover = IF images = {} THEN NoCover ELSE CHOOSE i \in images : TRUE]
           kept == Pending(meta, {f})
       IN /\ Saved(m, kept)
          /\ IF kept # meta THEN EnqueueOrDie(m) ELSE Unqueued /\ UNCHANGED deaths
    /\ UNCHANGED merge

AddFile(m, f) ==
    /\ Want /\ lib[m].here /\ NewFile(f)
    /\ disk' = [disk EXCEPT ![m] = @ \cup {f}]
    /\ LET meta == [lib[m] EXCEPT !.files = @ \cup {f}]
           kept == Pending(meta, disk[m] \cup {f})
       IN /\ Saved(m, kept)
          /\ IF kept # meta THEN EnqueueOrDie(m) ELSE Unqueued /\ UNCHANGED deaths
    /\ UNCHANGED merge
DeleteFile(m, f) ==
    /\ Want /\ lib[m].here /\ f \in lib[m].files /\ lib[m].files # {f}
    /\ Saved(m, [lib[m] EXCEPT !.files = @ \ {f}]) /\ disk' = [disk EXCEPT ![m] = @ \ {f}]
    /\ Unqueued /\ UNCHANGED <<merge, deaths>>

\* promote_local_model_cover: an image replaces a cover that nobody has chosen.
AddImage(m, i) ==
    /\ Want /\ lib[m].here /\ i \notin lib[m].images
    /\ Saved(m, NotNeeded([lib[m] EXCEPT !.images = @ \cup {i},
                                         !.cover = IF lib[m].manual \/ @ \in Image THEN @ ELSE i]))
    /\ Unqueued /\ UNCHANGED <<disk, merge, deaths>>
Gallery(meta) == meta.images \cup IF meta.preview THEN {Preview} ELSE {}
SetCover(m, i) ==
    /\ Want /\ lib[m].here /\ i \in Gallery(lib[m])
    /\ Saved(m, NotNeeded([lib[m] EXCEPT !.cover = i, !.manual = TRUE]))
    /\ Unqueued /\ UNCHANGED <<disk, merge, deaths>>
DeleteImage(m, i) ==
    /\ Want /\ lib[m].here /\ i \in Gallery(lib[m])
    /\ Saved(m, [lib[m] EXCEPT !.images = @ \ {i}, !.preview = @ /\ i # Preview,
                               !.cover = IF @ = i THEN NoCover ELSE @,
                               !.manual = @ /\ lib[m].cover # i])
    /\ disk' = [disk EXCEPT ![m] = @ \ {i}]
    /\ Unqueued /\ UNCHANGED <<merge, deaths>>

\* The page has rendered the model itself, or failed to.
SavePreview(m) ==
    /\ Want /\ lib[m].here /\ Saved(m, Applied(lib[m]))
    /\ disk' = [disk EXCEPT ![m] = @ \cup {Preview}]
    /\ Unqueued /\ UNCHANGED <<merge, deaths>>
SavePreviewFailure(m) ==
    /\ Want /\ lib[m].here /\ Saved(m, Failed(lib[m], "failed"))
    /\ Unqueued /\ UNCHANGED <<disk, merge, deaths>>
\* get_model_detail, and build_local_preview_state in it.
OpenDetail(m) ==
    /\ lib[m].here
    /\ LET meta == Pending(lib[m], disk[m])
       IN /\ meta # lib[m] /\ Saved(m, meta)
          /\ IF NeedsGeneration(meta, disk[m]) THEN Enqueue(m) ELSE Unqueued
    /\ UNCHANGED <<disk, merge, wanted, deaths>>

DeleteLocal(m) ==
    /\ Want /\ lib[m].here
    /\ Saved(m, NoModel) /\ disk' = [disk EXCEPT ![m] = {}]
    /\ Unqueued /\ UNCHANGED <<merge, deaths>>

-----------------------------------------------------------------------------
(* merge_local_models                                                      *)

StartMerge(t, s) ==
    /\ Want /\ merge.at = "no" /\ t # s /\ lib[t].here /\ lib[s].here
    /\ merge' = [NoMerge EXCEPT !.at = "move", !.target = t, !.source = s, !.old = lib[t]]
    /\ UNCHANGED <<lib, disk, jobs, painter, deaths>>
\* The source goes to the backups, and from there its files to the target.
MoveSource ==
    /\ merge.at = "move" /\ lib[merge.source].here
    /\ merge' = [merge EXCEPT !.at = "write", !.new = lib[merge.source]]
    /\ lib' = [lib EXCEPT ![merge.source] = NoModel]
    /\ disk' = [disk EXCEPT ![merge.source] = {}, ![merge.target] = @ \cup disk[merge.source]]
    /\ UNCHANGED <<jobs, painter, wanted, deaths>>
Exists(m) == lib[m].here \/ disk[m] # {}
\* The meta.json of the target as it was read, with the instances and images of the source.
MergedMeta(old, new) ==
    {[old EXCEPT !.here = TRUE, !.files = @ \cup new.files, !.images = @ \cup new.images,
                 !.preview = @ \/ new.preview, !.cover = c] :
        c \in {old.cover} \cup ({new.cover} \ {NoCover})}
WriteMerged ==
    /\ merge.at = "write" /\ Exists(merge.target) /\ merge' = NoMerge
    /\ \E meta \in MergedMeta(merge.old, merge.new) : Saved(merge.target, meta)
    /\ UNCHANGED <<disk, jobs, painter, wanted, deaths>>
\* A directory is gone, or the API dies.
MergeFails ==
    /\ merge.at # "no" /\ merge' = NoMerge
    /\ \/ merge.at = "move" /\ ~ lib[merge.source].here /\ UNCHANGED deaths
       \/ merge.at = "write" /\ ~ Exists(merge.target) /\ UNCHANGED deaths
       \/ deaths > 0 /\ deaths' = deaths - 1
    /\ UNCHANGED <<lib, disk, jobs, painter, wanted>>

-----------------------------------------------------------------------------
(* The worker: run_local_preview_generation_once                           *)

\* The job is acknowledged, if it is not yet superseded.
Done == painter' = Resting /\ jobs' = IF painter.current THEN Without(painter.model) ELSE jobs
GivesUp == painter' = Resting /\ UNCHANGED jobs

AsksFor(meta) == meta.here /\ (meta.needs \/ meta.status = "running")
OnlyStarted(meta) == meta.here /\ meta.status = "running"               \* mutant
Overlooked(meta) == AsksFor(meta)
\* _preview_jobs: an empty queue is filled from the archive, at most every 15 minutes.
ScanArchive ==
    /\ painter.at = "idle" /\ jobs = <<>>
    /\ LET missed == {m \in Model : Overlooked(lib[m])}
       IN missed # {} /\ jobs' = SetToSeq(missed)
    /\ UNCHANGED <<lib, disk, painter, merge, wanted, deaths>>

\* find_pending_local_preview_model: a run that was interrupted is pending again.
Resumed(meta) == IF meta.status = "running" THEN [meta EXCEPT !.status = "pending", !.needs = TRUE] ELSE meta
TakeJob ==
    /\ painter.at = "idle" /\ jobs # <<>>
    /\ LET m == Head(jobs)
           meta == Resumed(Pending(lib[m], disk[m]))
       IN IF AsksFor(lib[m]) /\ NeedsGeneration(meta, disk[m])
          THEN /\ Saved(m, IF lib[m].status = "running" THEN meta ELSE lib[m]) /\ UNCHANGED jobs
               /\ \E f \in Candidates(meta, disk[m]) :
                    painter' = [at |-> "start", model |-> m, file |-> f, meta |-> meta, current |-> TRUE]
          ELSE /\ Saved(m, IF AsksFor(lib[m]) THEN Pending(lib[m], disk[m]) ELSE lib[m])
               /\ jobs' = Tail(jobs) /\ UNCHANGED painter
    /\ UNCHANGED <<disk, merge, wanted, deaths>>

\* What is in the meta.json now; without one, what was read before.
AsTaken(m) == painter.meta                                                 \* mutant
FreshMeta(m) == IF lib[m].here THEN lib[m] ELSE painter.meta

StartRendering ==
    /\ painter.at = "start"
    /\ LET m == painter.model
           meta == FreshMeta(m)
       IN IF ~ lib[m].here THEN UNCHANGED lib /\ GivesUp
          ELSE \/ HasOwn(meta) /\ Saved(m, NotNeeded(meta)) /\ Done
               \/ /\ ~ HasOwn(meta) /\ painter.file \notin disk[m]
                  /\ Saved(m, Failed(meta, "unsupported")) /\ Done
               \/ /\ ~ HasOwn(meta) /\ painter.file \in disk[m]
                  /\ \/ Saved(m, Failed(meta, "too_large")) /\ Done
                     \/ LET running == [meta EXCEPT !.status = "running", !.needs = TRUE]
                        IN /\ Saved(m, running) /\ UNCHANGED jobs
                           /\ painter' = [painter EXCEPT !.at = "rendering", !.meta = running]
    /\ UNCHANGED <<disk, merge, wanted, deaths>>

\* A preview of a model that is gone is stored in a new directory.
StorePreview ==
    /\ painter.at = "rendering"
    /\ LET m == painter.model
           meta == FreshMeta(m)
       IN IF ~ painter.current THEN UNCHANGED <<lib, disk>> /\ GivesUp
          ELSE IF HasOwn(meta)
          THEN IF lib[m].here THEN Saved(m, NotNeeded(meta)) /\ Done /\ UNCHANGED disk
               ELSE UNCHANGED <<lib, disk>> /\ GivesUp
          ELSE /\ Saved(m, Applied(meta)) /\ disk' = [disk EXCEPT ![m] = @ \cup {Preview}] /\ Done
    /\ UNCHANGED <<merge, wanted, deaths>>
RenderingFails ==
    /\ painter.at = "rendering"
    /\ LET m == painter.model
       IN IF ~ painter.current \/ ~ lib[m].here THEN UNCHANGED lib /\ GivesUp
          ELSE /\ Saved(m, IF HasOwn(FreshMeta(m)) THEN NotNeeded(FreshMeta(m)) ELSE Failed(FreshMeta(m), "failed"))
               /\ Done
    /\ UNCHANGED <<disk, merge, wanted, deaths>>

PainterDies ==
    /\ painter.at # "idle" /\ deaths > 0 /\ deaths' = deaths - 1
    /\ painter' = Resting /\ UNCHANGED <<lib, disk, jobs, merge, wanted>>

-----------------------------------------------------------------------------
Painting == ScanArchive \/ TakeJob \/ StartRendering \/ StorePreview \/ RenderingFails
LocalNext ==
    \/ \E m \in Model, f \in File : AddFile(m, f) \/ DeleteFile(m, f)
    \/ \E m \in Model, f \in File, images \in SUBSET Image : ImportPackage(m, f, images)
    \/ \E m \in Model, i \in Image : AddImage(m, i)
    \/ \E m \in Model, i \in Image \cup {Preview} : SetCover(m, i) \/ DeleteImage(m, i)
    \/ \E m \in Model : SavePreview(m) \/ SavePreviewFailure(m) \/ OpenDetail(m) \/ DeleteLocal(m)
    \/ \E t, s \in Model : StartMerge(t, s)
    \/ MoveSource \/ WriteMerged \/ MergeFails
    \/ Painting \/ PainterDies
LocalSpec == LocalInit /\ [][LocalNext]_localVars

\* The worker polls the queue, and a rendering ends (it has a timeout).
LocalFair == WF_localVars(Painting)
LocalFairSpec == LocalSpec /\ LocalFair

-----------------------------------------------------------------------------
\* Every variable has its type.
LocalTypeOK ==
    /\ lib \in [Model -> [here : BOOLEAN, files : SUBSET File, images : SUBSET Image, preview : BOOLEAN,
                          cover : Image \cup {Preview, NoCover}, manual : BOOLEAN,
                          status : Terminal \cup {"", "pending", "running", "success"}, needs : BOOLEAN]]
    /\ disk \in [Model -> SUBSET (File \cup {Preview})]
    /\ jobs \in Seq(Model) /\ painter.at \in {"idle", "start", "rendering"}
    /\ merge.at \in {"no", "move", "write"}
    /\ wanted \in 0 .. Wanted /\ deaths \in 0 .. Deaths

(***************************************************************************)
(* CHANGELOG.md:20, "when a rendering in the background ends the cover is  *)
(* checked anew; what the user has chosen, and the images, are kept":      *)
(* whatever is edited while a preview is rendered, and whenever the worker *)
(* reads and writes a meta.json, its steps keep the files and the images   *)
(* of the model and a cover that is the user's.                            *)
(***************************************************************************)
EditsKept ==
    [][Painting => \A m \in Model : lib[m].here =>
        /\ lib'[m].files = lib[m].files /\ lib'[m].images = lib[m].images /\ lib'[m].manual = lib[m].manual
        /\ (HasOwn(lib[m]) => lib'[m].cover = lib[m].cover)]_localVars

(***************************************************************************)
(* CHANGELOG.md:132, "a durable queue, acknowledged when done and resumed  *)
(* after an interruption; a scan every 15 minutes finds what was missed":  *)
(* whatever dies, is asked for again during a rendering or is written over *)
(* by a merge, no model waits for its preview for ever, none is marked as  *)
(* being rendered for ever, and none is rendered again and again.          *)
(***************************************************************************)
PreviewsSettle ==
    <>[](painter.at = "idle" /\ \A m \in Model : ~ AsksFor(lib[m]))
=============================================================================
