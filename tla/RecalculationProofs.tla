------------------------ MODULE RecalculationProofs ------------------------
(***************************************************************************)
(* Proofs, for every set of request files, that IInv is an invariant of    *)
(* the recalculation transaction and of its reconciliation, and that the   *)
(* safety properties of Recalculation follow from it.  One lemma per       *)
(* action shows that the action preserves IInv.  The last part is about    *)
(* what the same calculation leaves as evidence of its outcome (module     *)
(* OutcomeEvidence, which shares no state with Recalculation).             *)
(***************************************************************************)
EXTENDS RecalculationInv, OutcomeEvidence, TLAPS

USE DEF Goto, Op, Working, Turn, Done

(* The part of IInv about the file system alone.                           *)
DiskOK == /\ disk \in Images /\ survivors \in SUBSET Images
          /\ SurvivorsOK

(* A directory operation that yields a well-formed image keeps the disk    *)
(* and every surviving image well formed.                                  *)
LEMMA Moved ==
  ASSUME IInv, NEW d \in Images, Change(d), ImageOK(d),
         d.status = disk.status \/ disk.status = "RUNNING"
  PROVE  disk' = d /\ DiskOK'
  BY DEF DiskOK, IInv, TypeOK, SurvivorsOK, Change

(* A step that leaves the disk alone.                                      *)
LEMMA Still ==
  ASSUME IInv, UNCHANGED <<disk, survivors>>
  PROVE  DiskOK'
  BY DEF DiskOK, IInv, TypeOK, SurvivorsOK

(* An fsync or a power failure: one of the surviving images is what is     *)
(* left.                                                                   *)
LEMMA Synced ==
  ASSUME IInv, disk' \in survivors, survivors' = {disk'}
  PROVE  DiskOK'
  BY DEF DiskOK, IInv, TypeOK, SurvivorsOK


(* The first journal is written over an untouched event.                   *)
LEMMA NewTransactionStep ==
  ASSUME IInv, NewTransaction
  PROVE  IInv'
<1> DEFINE d == [disk EXCEPT !.journal = [NoJournal EXCEPT !.present = TRUE,
                 !.preceding = {k \in Kinds : disk.source[k] # "none"}]]
<1>1. /\ disk \in Images /\ Untouched(disk) /\ disk.status = "RUNNING"
      /\ at = "new" /\ phase = "op" /\ actor = "prepare"
  BY DEF IInv, TypeOK, ActorOK, Reconciling, StagingOK, NewTransaction
<1>2. d \in Images
  BY <1>1 DEF Images, Journals, NoJournal
<1>3. disk.had = {k \in Kinds : disk.source[k] # "none"}
  BY <1>1 DEF Images, Untouched, OldTrees
<1>4. /\ d.journal.present /\ d.journal.preceding = disk.had
      /\ d.journal.completed = {} /\ ~d.journal.stage_removal_started
      /\ ~d.journal.candidate_removal_started
      /\ d.had = disk.had /\ d.source = OldTrees(disk)
      /\ ~d.stage /\ d.staged = Nothing /\ ~d.archive /\ d.archived = Nothing
      /\ ~d.candidate /\ d.native = {} /\ d.status = "RUNNING"
  BY <1>1, <1>3 DEF Images, NoJournal, Untouched, OldTrees
<1>5. Change(d)
  BY DEF NewTransaction
<1> HIDE DEF d
<1>6. ImageOK(d) /\ QueueImage(d) /\ Staging(d)
  BY <1>4 DEF ImageOK, PrefixClosed, QueueImage, Staging, OldTrees, Nothing
<1>7. disk' = d /\ DiskOK'
  BY <1>1, <1>2, <1>4, <1>5, <1>6, Moved
<1> QED
  BY <1>1, <1>6, <1>7 DEF DiskOK, IInv, TypeOK, ActorOK, Phases,
     Checkpoints, StagingOK, PublicationOK, OutcomeOK, Begun, NewTransaction

(* The private stage appears, or reconciliation finds it.                  *)
LEMMA CreateStageStep ==
  ASSUME IInv, CreateStage
  PROVE  IInv'
<1> DEFINE d == [disk EXCEPT !.stage = TRUE]
<1>0. /\ disk \in Images /\ QueueImage(disk) /\ Staging(disk)
      /\ ImageOK(disk) /\ at = "stage" /\ phase = "op"
      /\ actor \in {"prepare", "reconcile"}
  BY DEF IInv, CreateStage, StagingOK, SurvivorsOK, TypeOK, ActorOK
<1>1. CASE ~disk.stage /\ Change(d) /\ Done
  <2>1. d \in Images
    BY <1>0 DEF Images
  <2>2. /\ QueueImage(d) /\ Staging(d) /\ ImageOK(d)
        /\ d.stage /\ d.status = disk.status
    BY <1>0 DEF Images, Journals, QueueImage, Staging, ImageOK, PrefixClosed
  <2> HIDE DEF d
  <2>3. disk' = d /\ DiskOK'
    BY Moved, <1>1, <2>1, <2>2
  <2>4. TypeOK' /\ ActorOK'
    BY <1>0, <1>1, <2>3 DEF DiskOK, IInv, TypeOK, ActorOK, Phases, Checkpoints
  <2>5. StagingOK' /\ PublicationOK' /\ OutcomeOK'
    BY <1>0, <1>1, <2>2, <2>3 DEF StagingOK, PublicationOK, OutcomeOK, Begun
  <2> QED BY <2>3, <2>4, <2>5 DEF DiskOK, IInv
<1>2. CASE disk.stage /\ Proceed /\ UNCHANGED <<disk, survivors>>
  <2>1. DiskOK'
    BY Still, <1>2
  <2>2. at' = "products_staged" /\ phase' = "op" /\ actor' = actor
    BY <1>0, <1>2 DEF Proceed, After
  <2>4. TypeOK' /\ ActorOK'
    BY <1>0, <1>2, <2>1, <2>2 DEF DiskOK, IInv, TypeOK, ActorOK, Phases,
       Checkpoints, Steps, Preparing, Reconciling
  <2>5. StagingOK' /\ PublicationOK' /\ OutcomeOK'
    BY <1>0, <1>2, <2>2 DEF StagingOK, PublicationOK, OutcomeOK, Begun
  <2> QED BY <2>1, <2>4, <2>5 DEF DiskOK, IInv
<1> QED BY <1>0, <1>1, <1>2 DEF CreateStage

(* Moving one preceding tree into the stage.                               *)
LEMMA MoveToStageOK ==
  ASSUME disk \in Images, QueueImage(disk), Staging(disk), disk.stage,
         ImageOK(disk), NEW k \in Kinds, disk.source[k] # "none"
  PROVE  LET d == MoveToStage(k)
         IN  /\ d \in Images /\ ImageOK(d) /\ QueueImage(d) /\ Staging(d)
             /\ d.stage /\ d.source[k] = "none" /\ d.status = disk.status
             /\ d.journal = disk.journal
  BY DEF MoveToStage, Images, Slots, Kinds, ImageOK, QueueImage, Staging,
     Nothing

(* One round of _stage_preceding.                                          *)
LEMMA StageTreeStep ==
  ASSUME IInv, NEW k \in Kinds, StageTree(k)
  PROVE  IInv'
<1> DEFINE d == MoveToStage(k)
<1>1. /\ disk \in Images /\ ImageOK(disk) /\ QueueImage(disk) /\ Staging(disk)
      /\ disk.stage /\ actor = "prepare" /\ phase = "op"
      /\ at = StagedCheckpoint(k)
      /\ at \in {"products_staged", "service_staged"}
      /\ at = "service_staged" => Completed("products_staged")
  BY DEF IInv, TypeOK, SurvivorsOK, StagingOK, StageTree, StagedCheckpoint
<1>2. CASE disk.source[k] # "none" /\ Change(d) /\ Done
  <2>1. /\ d \in Images /\ ImageOK(d) /\ QueueImage(d) /\ Staging(d)
        /\ d.stage /\ d.source[k] = "none" /\ d.status = disk.status
        /\ d.journal = disk.journal
    BY <1>1, <1>2, MoveToStageOK
  <2> HIDE DEF d
  <2>2. disk' = d /\ DiskOK'
    BY <1>2, <2>1, Moved
  <2> QED
    BY <1>1, <1>2, <2>1, <2>2 DEF DiskOK, IInv, TypeOK, ActorOK, Phases,
       Checkpoints, StagingOK, PublicationOK, OutcomeOK, Begun, Completed,
       StagedCheckpoint, Kinds
<1>3. CASE k \notin disk.journal.preceding /\ Turn(at, "mark")
  <2>1. disk.source[k] = "none"
    BY <1>1, <1>3 DEF QueueImage, Staging, Images
  <2>2. DiskOK'
    BY <1>3, Still
  <2> QED
    BY <1>1, <1>3, <2>1, <2>2 DEF DiskOK, IInv, TypeOK, ActorOK, Phases,
       Checkpoints, StagingOK, PublicationOK, OutcomeOK, Begun, Completed,
       StagedCheckpoint, Kinds
<1> QED BY <1>2, <1>3 DEF StageTree

(* The stage, with every preceding tree whole, becomes the archive.        *)
LEMMA ArchiveStageStep ==
  ASSUME IInv, ArchiveStage
  PROVE  IInv'
<1> DEFINE d == [disk EXCEPT !.archive = TRUE, !.archived = disk.staged,
                             !.stage = FALSE, !.staged = Nothing]
<1>1. /\ disk \in Images /\ ImageOK(disk) /\ QueueImage(disk)
      /\ Completed("service_staged")
      /\ at = "preceding_disposed" /\ phase = "op"
      /\ actor \in {"prepare", "reconcile"}
      /\ ArchiveNeeded(disk) => Staging(disk)
  BY DEF IInv, TypeOK, SurvivorsOK, ActorOK, StagingOK, Begun, ArchiveStage
<1>2. ArchiveNeeded(disk) /\ Staging(disk)
  BY <1>1 DEF ArchiveStage, Archiving, ArchiveNeeded, QueueImage
<1>3. disk.source = Nothing /\ disk.staged = OldTrees(disk)
  BY <1>1, <1>2 DEF Staging, Images, Slots, Kinds, Nothing, OldTrees,
     Completed, ImageOK, PrefixClosed
<1>4. d \in Images
  BY <1>1 DEF Images, Slots, Nothing
<1>5. /\ d.journal = disk.journal /\ d.had = disk.had
      /\ d.overwrite = disk.overwrite
      /\ d.source = Nothing /\ ~d.stage /\ d.staged = Nothing
      /\ d.archive /\ d.archived = OldTrees(d)
      /\ d.candidate = disk.candidate /\ d.native = disk.native
      /\ d.status = disk.status
  BY <1>1, <1>3 DEF Images, OldTrees
<1>6. Change(d)
  BY DEF ArchiveStage
<1> HIDE DEF d
<1>7. /\ ImageOK(d) /\ QueueImage(d) /\ Archived(d)
      /\ "service_staged" \in d.journal.completed
  BY <1>1, <1>2, <1>5 DEF ImageOK, QueueImage, Archived, Staging,
     ArchiveNeeded, Completed
<1>8. disk' = d /\ DiskOK'
  BY <1>4, <1>5, <1>6, <1>7, Moved
<1> QED
  BY <1>1, <1>7, <1>8 DEF DiskOK, IInv, TypeOK, ActorOK, Phases,
     Checkpoints, StagingOK, PublicationOK, OutcomeOK, Begun, Completed,
     ArchiveStage

(* The intent is written while every preceding tree is still whole.        *)
LEMMA StageRemovalIntentStep ==
  ASSUME IInv, StageRemovalIntent
  PROVE  IInv'
<1> DEFINE d == [disk EXCEPT !.journal.stage_removal_started = TRUE]
<1>1. /\ disk \in Images /\ ImageOK(disk) /\ QueueImage(disk) /\ Staging(disk)
      /\ ~ArchiveNeeded(disk) /\ disk.stage /\ Completed("service_staged")
      /\ at = "stage_removal_started" /\ phase = "op"
      /\ actor \in {"prepare", "reconcile"}
  BY DEF IInv, TypeOK, SurvivorsOK, ActorOK, StagingOK, StageRemovalIntent
<1>2. d \in Images
  BY <1>1 DEF Images, Journals
<1>3. /\ ImageOK(d) /\ QueueImage(d) /\ Removing(d) /\ ~ArchiveNeeded(d)
      /\ d.staged = OldTrees(d) /\ d.stage /\ d.status = disk.status
      /\ "service_staged" \in d.journal.completed
  BY <1>1 DEF Images, Journals, Slots, Kinds, Nothing, ImageOK,
     PrefixClosed, QueueImage, Staging, Removing, ArchiveNeeded, OldTrees,
     Completed
<1>4. Change(d)
  BY DEF StageRemovalIntent
<1> HIDE DEF d
<1>5. disk' = d /\ DiskOK'
  BY <1>1, <1>2, <1>3, <1>4, Moved
<1> QED
  BY <1>1, <1>3, <1>5 DEF DiskOK, IInv, TypeOK, ActorOK, Phases,
     Checkpoints, StagingOK, PublicationOK, OutcomeOK, Begun, Completed,
     StageRemovalIntent

(* rmtree takes a tree apart only after the intent.                        *)
LEMMA RemoveStagedStep ==
  ASSUME IInv, NEW k \in Kinds, RemoveStaged(k)
  PROVE  IInv'
<1> DEFINE d == [disk EXCEPT !.staged[k] =
                              IF @ = "torn" THEN "none" ELSE "torn"]
<1>1. /\ disk \in Images /\ ImageOK(disk) /\ QueueImage(disk)
      /\ Completed("service_staged") /\ disk.stage
      /\ ~ArchiveNeeded(disk) => Removing(disk)
      /\ at = "preceding_disposed" /\ phase = "op"
      /\ actor \in {"prepare", "reconcile"}
  BY DEF IInv, TypeOK, SurvivorsOK, ActorOK, StagingOK, Begun, RemoveStaged
<1>2. d \in Images
  BY <1>1 DEF Images, Slots
<1>3. /\ ImageOK(d) /\ QueueImage(d) /\ Removing(d) /\ ~ArchiveNeeded(d)
      /\ d.stage /\ d.status = disk.status
      /\ "service_staged" \in d.journal.completed
  BY <1>1 DEF Images, Slots, Nothing, Kinds, ImageOK, QueueImage, Removing,
     Staging, Archived, ArchiveNeeded, Archiving, OldTrees, Completed,
     RemoveStaged
<1>4. Change(d)
  BY DEF RemoveStaged
<1> HIDE DEF d
<1>5. disk' = d /\ DiskOK'
  BY <1>1, <1>2, <1>3, <1>4, Moved
<1> QED
  BY <1>1, <1>3, <1>5 DEF DiskOK, IInv, TypeOK, ActorOK, Phases,
     Checkpoints, StagingOK, PublicationOK, OutcomeOK, Begun, Completed,
     RemoveStaged

(* The empty stage goes.                                                   *)
LEMMA StageRemovedStep ==
  ASSUME IInv, StageRemoved
  PROVE  IInv'
<1> DEFINE d == [disk EXCEPT !.stage = FALSE]
<1>1. /\ disk \in Images /\ ImageOK(disk) /\ QueueImage(disk)
      /\ Completed("service_staged")
      /\ ~ArchiveNeeded(disk) => Removing(disk)
      /\ at = "preceding_disposed" /\ phase = "op"
      /\ actor \in {"prepare", "reconcile"}
  BY DEF IInv, TypeOK, SurvivorsOK, ActorOK, StagingOK, Begun, StageRemoved
<1>2. d \in Images
  BY <1>1 DEF Images
<1>3. /\ ImageOK(d) /\ QueueImage(d) /\ Removing(d)
      /\ ~d.stage /\ d.status = disk.status
      /\ "service_staged" \in d.journal.completed
  BY <1>1 DEF Images, ImageOK, QueueImage, Removing, ArchiveNeeded,
     Archiving, OldTrees, Completed, StageRemoved
<1>4. Change(d)
  BY DEF StageRemoved
<1> HIDE DEF d
<1>5. disk' = d /\ DiskOK'
  BY <1>1, <1>2, <1>3, <1>4, Moved
<1> QED
  BY <1>1, <1>3, <1>5 DEF DiskOK, IInv, TypeOK, ActorOK, Phases,
     Checkpoints, StagingOK, PublicationOK, OutcomeOK, Begun, Completed,
     StageRemoved

(* The record becomes current; reconciliation never finds the place taken. *)
LEMMA PromoteRecordStep ==
  ASSUME IInv, PromoteRecord
  PROVE  IInv'
<1> DEFINE d == [disk EXCEPT !.source["service"] = "new"]
<1>1. /\ disk \in Images /\ ImageOK(disk) /\ QueueImage(disk)
      /\ Completed("preceding_disposed")
      /\ at = "record_promoted" /\ phase = "op"
      /\ actor \in {"prepare", "reconcile"}
  BY DEF IInv, TypeOK, SurvivorsOK, ActorOK, PublicationOK, Begun,
     PromoteRecord
<1>2. (~disk.stage /\ Removing(disk)) \/ Archived(disk)
  BY <1>1 DEF QueueImage, Staging, Removing, Completed
<1>3. /\ disk.source["service"] = "none" /\ disk.source["products"] = "none"
      /\ ~disk.stage /\ disk.staged = Nothing
      /\ disk.journal.stage_removal_started = ~ArchiveNeeded(disk)
      /\ disk.archive = ArchiveNeeded(disk)
      /\ disk.archived = IF ArchiveNeeded(disk) THEN OldTrees(disk) ELSE Nothing
  BY <1>1, <1>2 DEF Removing, Archived, Nothing, Kinds, Images, Journals,
     ArchiveNeeded
<1>4. d \in Images
  BY <1>1 DEF Images, Slots, Kinds
<1>5. /\ d.journal = disk.journal /\ d.had = disk.had
      /\ d.overwrite = disk.overwrite
      /\ d.source["service"] = "new" /\ d.source["products"] = "none"
      /\ d.stage = disk.stage /\ d.staged = disk.staged
      /\ d.archive = disk.archive /\ d.archived = disk.archived
      /\ d.candidate = disk.candidate /\ d.native = disk.native
      /\ d.status = disk.status
  BY <1>1, <1>3 DEF Images, Slots, Kinds
<1>6. Change(d) /\ Done
  BY <1>3 DEF PromoteRecord
<1> HIDE DEF d
<1>7. /\ ArchiveNeeded(d) = ArchiveNeeded(disk) /\ OldTrees(d) = OldTrees(disk)
  BY <1>5 DEF ArchiveNeeded, OldTrees
<1>8. /\ ImageOK(d) /\ CurrentImage(d) /\ d.status = "RUNNING"
      /\ "candidate_ready" \notin d.journal.completed
      /\ ~d.journal.candidate_removal_started
  BY <1>1, <1>3, <1>5, <1>7 DEF ImageOK, PrefixClosed, QueueImage,
     CurrentImage, Completed
<1>9. disk' = d /\ DiskOK'
  BY <1>1, <1>4, <1>5, <1>6, <1>8, Moved DEF QueueImage
<1> QED
  BY <1>1, <1>6, <1>8, <1>9 DEF DiskOK, IInv, TypeOK, ActorOK, Phases,
     Checkpoints, StagingOK, PublicationOK, OutcomeOK, Begun, Completed

(* The private native tree appears.                                        *)
LEMMA CreateCandidateStep ==
  ASSUME IInv, CreateCandidate
  PROVE  IInv'
<1> DEFINE d == [disk EXCEPT !.candidate = TRUE]
<1>1. /\ disk \in Images /\ ImageOK(disk) /\ CurrentImage(disk)
      /\ disk.status = "RUNNING" /\ disk.source["products"] = "none"
      /\ Completed("record_promoted") /\ ~Completed("candidate_ready")
      /\ ~disk.journal.candidate_removal_started
      /\ at = "candidate_ready" /\ phase = "op" /\ actor = "prepare"
  BY DEF IInv, TypeOK, SurvivorsOK, ActorOK, Reconciling, PublicationOK,
     CreateCandidate
<1>2. d \in Images
  BY <1>1 DEF Images
<1>3. /\ ImageOK(d) /\ CurrentImage(d)
      /\ d.status = "RUNNING" /\ d.source["products"] = "none"
      /\ "record_promoted" \in d.journal.completed
      /\ "candidate_ready" \notin d.journal.completed
      /\ ~d.journal.candidate_removal_started
  BY <1>1 DEF Images, Journals, ImageOK, PrefixClosed, CurrentImage,
     ArchiveNeeded, OldTrees, Completed
<1>4. Change(d)
  BY DEF CreateCandidate
<1> HIDE DEF d
<1>5. disk' = d /\ DiskOK'
  BY <1>1, <1>2, <1>3, <1>4, Moved
<1> QED
  BY <1>1, <1>3, <1>5 DEF DiskOK, IInv, TypeOK, ActorOK, Phases,
     Checkpoints, StagingOK, PublicationOK, OutcomeOK, Begun, Completed,
     CreateCandidate

(* A request file is copied into it.                                       *)
LEMMA CopyFileStep ==
  ASSUME IInv, NEW f \in Files, CopyFile(f)
  PROVE  IInv'
<1> DEFINE d == [disk EXCEPT !.native = @ \cup {f}]
<1>1. /\ disk \in Images /\ ImageOK(disk) /\ CurrentImage(disk)
      /\ disk.status = "RUNNING" /\ disk.source["products"] = "none"
      /\ Completed("record_promoted") /\ ~Completed("candidate_ready")
      /\ ~disk.journal.candidate_removal_started
      /\ at = "candidate_ready" /\ phase = "op" /\ actor = "prepare"
  BY DEF IInv, TypeOK, SurvivorsOK, ActorOK, Reconciling, PublicationOK,
     CopyFile
<1>2. d \in Images
  BY <1>1 DEF Images
<1>3. /\ ImageOK(d) /\ CurrentImage(d)
      /\ d.status = "RUNNING" /\ d.source["products"] = "none"
      /\ "record_promoted" \in d.journal.completed
      /\ "candidate_ready" \notin d.journal.completed
      /\ ~d.journal.candidate_removal_started
  BY <1>1 DEF Images, Journals, ImageOK, PrefixClosed, CurrentImage,
     ArchiveNeeded, OldTrees, Completed, CopyFile
<1>4. Change(d)
  BY DEF CopyFile
<1> HIDE DEF d
<1>5. disk' = d /\ DiskOK'
  BY <1>1, <1>2, <1>3, <1>4, Moved
<1> QED
  BY <1>1, <1>3, <1>5 DEF DiskOK, IInv, TypeOK, ActorOK, Phases,
     Checkpoints, StagingOK, PublicationOK, OutcomeOK, Begun, Completed,
     CopyFile

(* Every file is there.                                                    *)
LEMMA CopyDoneStep ==
  ASSUME IInv, CopyDone
  PROVE  IInv'
<1>1. DiskOK'
  BY Still DEF CopyDone
<1> QED
  BY <1>1 DEF DiskOK, IInv, TypeOK, ActorOK, Phases, Checkpoints, CopyDone,
     StagingOK, PublicationOK, OutcomeOK, Begun, Completed

(* The private tree becomes the public one.                                *)
LEMMA PublishNativeTreeStep ==
  ASSUME IInv, PublishNativeTree
  PROVE  IInv'
<1> DEFINE d == [disk EXCEPT !.candidate = FALSE,
                             !.source["products"] = "new"]
<1>1. /\ disk \in Images /\ ImageOK(disk) /\ CurrentImage(disk)
      /\ disk.status = "RUNNING" /\ Completed("candidate_ready")
      /\ ~disk.journal.candidate_removal_started
      /\ at = "native_tree_published" /\ phase = "op" /\ actor = "prepare"
  BY DEF IInv, TypeOK, SurvivorsOK, ActorOK, Reconciling, PublicationOK,
     PublishNativeTree
<1>2. d \in Images
  BY <1>1 DEF Images, Slots, Kinds
<1>3. /\ ImageOK(d) /\ CurrentImage(d)
      /\ d.status = "RUNNING" /\ d.source["products"] = "new"
      /\ "candidate_ready" \in d.journal.completed
      /\ ~d.journal.candidate_removal_started
  BY <1>1 DEF Images, Journals, ImageOK, PrefixClosed, CurrentImage,
     ArchiveNeeded, OldTrees, Completed, Slots, Kinds, PublishNativeTree
<1>4. Change(d)
  BY DEF PublishNativeTree
<1> HIDE DEF d
<1>5. disk' = d /\ DiskOK'
  BY <1>1, <1>2, <1>3, <1>4, Moved
<1> QED
  BY <1>1, <1>3, <1>5 DEF DiskOK, IInv, TypeOK, ActorOK, Phases,
     Checkpoints, StagingOK, PublicationOK, OutcomeOK, Begun, Completed,
     PublishNativeTree

-----------------------------------------------------------------------------

(* The terminal status is written.                                         *)
LEMMA FinishCalculationStep ==
  ASSUME IInv, FinishCalculation
  PROVE  IInv'
<1>1. /\ disk \in Images /\ ImageOK(disk) /\ CurrentImage(disk)
      /\ disk.status = "RUNNING" /\ disk.source["products"] = "new"
      /\ at = "terminal" /\ phase = "op" /\ actor = "calculate"
  BY DEF IInv, TypeOK, SurvivorsOK, OutcomeOK, FinishCalculation
<1>2. PICK outcome \in {"SUCCESS", "FAILED"} :
          Change([disk EXCEPT !.status = outcome])
  BY DEF FinishCalculation
<1> DEFINE d == [disk EXCEPT !.status = outcome]
<1>3. d \in Images
  BY <1>1 DEF Images
<1>4. /\ ImageOK(d) /\ CurrentImage(d) /\ d.status # "RUNNING"
      /\ d.source["products"] = "new"
  BY <1>1 DEF Images, ImageOK, CurrentImage, ArchiveNeeded, OldTrees
<1> HIDE DEF d
<1>5. disk' = d /\ DiskOK'
  BY <1>1, <1>2, <1>3, <1>4, Moved DEF d
<1> QED
  BY <1>1, <1>4, <1>5 DEF DiskOK, IInv, TypeOK, ActorOK, Phases,
     Checkpoints, StagingOK, PublicationOK, OutcomeOK, Begun, FinishCalculation

(* The calculation removes its journal.                                    *)
LEMMA FinalizeTransactionStep ==
  ASSUME IInv, FinalizeTransaction
  PROVE  IInv'
<1> DEFINE d == [disk EXCEPT !.journal.present = FALSE]
<1>1. /\ disk \in Images /\ ImageOK(disk) /\ CurrentImage(disk)
      /\ ~disk.candidate /\ disk.status # "RUNNING"
      /\ at = "finalize" /\ phase = "op" /\ actor = "calculate"
  BY DEF IInv, TypeOK, SurvivorsOK, ActorOK, OutcomeOK, FinalizeTransaction
<1>2. d \in Images
  BY <1>1 DEF Images, Journals
<1>3. /\ ImageOK(d) /\ CurrentImage(d)
      /\ ~d.candidate /\ d.status = disk.status
  BY <1>1 DEF Images, Journals, ImageOK, CurrentImage, ArchiveNeeded, OldTrees
<1>4. Change(d)
  BY DEF FinalizeTransaction, RemoveJournal
<1> HIDE DEF d
<1>5. disk' = d /\ DiskOK'
  BY <1>1, <1>2, <1>3, <1>4, Moved
<1> QED
  BY <1>1, <1>3, <1>5 DEF DiskOK, IInv, TypeOK, ActorOK, Phases,
     Checkpoints, StagingOK, PublicationOK, OutcomeOK, Begun, Completed,
     FinalizeTransaction

-----------------------------------------------------------------------------

(* Whatever was left is a journal reconciliation accepts, or an untouched  *)
(* record.                                                                 *)
LEMMA LocateStep ==
  ASSUME IInv, Locate
  PROVE  IInv'
<1>1. /\ disk \in Images /\ ImageOK(disk)
      /\ at = "locate" /\ phase = "op" /\ actor = "reconcile"
  BY DEF IInv, TypeOK, SurvivorsOK, Locate
<1>2. disk.journal.present => ValidJournal(disk.journal)
  BY <1>1 DEF ValidJournal, ImageOK, PrefixClosed, Untouched, NoJournal,
     QueueImage, Staging, Removing, Archived, CurrentImage
<1>3. /\ disk.journal.present =>
           /\ Current => CurrentImage(disk)
           /\ ~Current => QueueImage(disk)
      /\ ~disk.journal.present =>
           /\ disk.status = "RUNNING" => Untouched(disk)
  BY <1>1 DEF ImageOK, Untouched, NoJournal, QueueImage, Staging, Removing,
     Archived, CurrentImage, Current, Nothing, Kinds
<1>4. DiskOK'
  BY <1>2, Still DEF Locate
<1> QED
  BY <1>1, <1>2, <1>3, <1>4 DEF DiskOK, IInv, TypeOK, ActorOK, Phases,
     Steps, Actors, Reconciling, Checkpoints, StagingOK, PublicationOK,
     OutcomeOK, Begun, Completed, Locate

(* The head of _recover_staging takes up the work where it stopped.        *)
LEMMA RecoverStagingStep ==
  ASSUME IInv, RecoverStaging
  PROVE  IInv'
<1>1. /\ disk \in Images /\ ImageOK(disk) /\ QueueImage(disk)
      /\ at = "staging" /\ phase = "op" /\ actor = "reconcile"
  BY DEF IInv, TypeOK, SurvivorsOK, StagingOK, RecoverStaging
<1>2. Archiving <=> ArchiveNeeded(disk)
  BY <1>1 DEF Archiving, ArchiveNeeded, QueueImage
<1>3. CASE Removing(disk)
  <2>1. Turn("preceding_disposed", IF disk.stage THEN "op" ELSE "sync")
    BY <1>2, <1>3 DEF RecoverStaging, Removing, SourcesAbsent
  <2>2. DiskOK'
    BY <2>1, Still
  <2>3. ~ArchiveNeeded(disk) /\ Completed("service_staged")
    BY <1>3 DEF Removing, Completed
  <2> QED
    BY <1>1, <1>3, <2>1, <2>2, <2>3 DEF DiskOK, IInv, TypeOK, ActorOK,
       Phases, Steps, Reconciling, Checkpoints, StagingOK, PublicationOK,
       OutcomeOK, Begun, Completed
<1>4. CASE Archived(disk)
  <2>1. ArchiveNames = disk.journal.preceding
    BY <1>1, <1>4 DEF ArchiveNames, Archived, OldTrees, QueueImage, Images
  <2>2. Turn("preceding_disposed", "mark") /\ Completed("service_staged")
    BY <1>2, <1>4, <2>1 DEF RecoverStaging, Archived, Completed
  <2>3. DiskOK'
    BY <2>2, Still
  <2> QED
    BY <1>1, <1>4, <2>2, <2>3 DEF DiskOK, IInv, TypeOK, ActorOK, Phases,
       Steps, Reconciling, Checkpoints, StagingOK, PublicationOK, OutcomeOK,
       Begun, Completed
<1>5. CASE Staging(disk)
  <2>1. Turn("stage", "op")
    BY <1>2, <1>5 DEF RecoverStaging, Staging, Completed
  <2>2. DiskOK'
    BY <2>1, Still
  <2> QED
    BY <1>1, <1>5, <2>1, <2>2 DEF DiskOK, IInv, TypeOK, ActorOK, Phases,
       Steps, Reconciling, Checkpoints, StagingOK, PublicationOK, OutcomeOK,
       Begun, Completed
<1> QED BY <1>1, <1>3, <1>4, <1>5 DEF QueueImage

(* Each preceding tree is found in exactly one place.                      *)
LEMMA RecoverTreeStep ==
  ASSUME IInv, NEW k \in Kinds, RecoverTree(k)
  PROVE  IInv'
<1> DEFINE d == MoveToStage(k)
<1>1. /\ disk \in Images /\ ImageOK(disk) /\ QueueImage(disk) /\ Staging(disk)
      /\ disk.stage /\ actor = "reconcile" /\ phase = "op"
      /\ at = StagedCheckpoint(k)
      /\ at \in {"products_staged", "service_staged"}
      /\ at = "service_staged" => Completed("products_staged")
  BY DEF IInv, TypeOK, SurvivorsOK, StagingOK, RecoverTree, StagedCheckpoint
<1>2. /\ k \in disk.journal.preceding =>
             (disk.source[k] # "none" <=> disk.staged[k] = "none")
      /\ k \notin disk.journal.preceding =>
             disk.source[k] = "none" /\ disk.staged[k] = "none"
  BY <1>1 DEF QueueImage, Staging
<1>3. CASE disk.source[k] # "none" /\ Change(d) /\ Done
  <2>1. /\ d \in Images /\ ImageOK(d) /\ QueueImage(d) /\ Staging(d)
        /\ d.stage /\ d.source[k] = "none" /\ d.status = disk.status
        /\ d.journal = disk.journal
    BY <1>1, <1>3, MoveToStageOK
  <2> HIDE DEF d
  <2>2. disk' = d /\ DiskOK'
    BY <1>3, <2>1, Moved
  <2> QED
    BY <1>1, <1>3, <2>1, <2>2 DEF DiskOK, IInv, TypeOK, ActorOK, Phases,
       Checkpoints, StagingOK, PublicationOK, OutcomeOK, Begun, Completed,
       StagedCheckpoint, Kinds
<1>4. CASE disk.source[k] = "none" /\ Turn(at, "mark")
  <2>1. DiskOK'
    BY <1>4, Still
  <2> QED
    BY <1>1, <1>4, <2>1 DEF DiskOK, IInv, TypeOK, ActorOK, Phases,
       Checkpoints, StagingOK, PublicationOK, OutcomeOK, Begun, Completed,
       StagedCheckpoint, Kinds
<1> QED BY <1>2, <1>3, <1>4 DEF RecoverTree

(* After promotion the stage is gone and the archive complete.             *)
LEMMA VerifyDispositionStep ==
  ASSUME IInv, VerifyDisposition
  PROVE  IInv'
<1>1. /\ disk \in Images /\ CurrentImage(disk) /\ Completed("record_promoted")
      /\ at = "disposition" /\ phase = "op" /\ actor = "reconcile"
  BY DEF IInv, TypeOK, SurvivorsOK, PublicationOK, VerifyDisposition
<1>2. /\ ~disk.stage
      /\ Archiving => disk.archive /\ ArchiveNames = disk.journal.preceding
  BY <1>1 DEF CurrentImage, Archiving, ArchiveNeeded, ArchiveNames,
     OldTrees, Images
<1>3. Turn("candidate", "op")
  BY <1>2 DEF VerifyDisposition
<1>4. DiskOK'
  BY <1>3, Still
<1> QED
  BY <1>1, <1>3, <1>4 DEF DiskOK, IInv, TypeOK, ActorOK, Phases, Steps,
     Reconciling, Checkpoints, StagingOK, PublicationOK, OutcomeOK, Begun,
     Completed

(* The private native tree agrees with the checkpoints.                    *)
LEMMA InspectCandidateStep ==
  ASSUME IInv, InspectCandidate
  PROVE  IInv'
<1>1. /\ disk \in Images /\ CurrentImage(disk) /\ Completed("record_promoted")
      /\ at = "candidate" /\ phase = "op" /\ actor = "reconcile"
  BY DEF IInv, TypeOK, SurvivorsOK, PublicationOK, InspectCandidate
<1>2. CASE disk.journal.candidate_removal_started
  <2>1. Turn("candidate_removed", IF disk.candidate THEN "op" ELSE "sync")
    BY <1>1, <1>2 DEF InspectCandidate, CurrentImage
  <2>2. DiskOK'
    BY <2>1, Still
  <2> QED
    BY <1>1, <1>2, <2>1, <2>2 DEF DiskOK, IInv, TypeOK, ActorOK, Phases,
       Steps, Images, Reconciling, Checkpoints, StagingOK, PublicationOK,
       OutcomeOK, Begun
<1>3. CASE ~disk.journal.candidate_removal_started
  <2>1. /\ Turn(IF disk.candidate THEN "candidate_removal_started"
                                  ELSE "terminal", "op")
        /\ disk.candidate /\ Completed("candidate_ready") => disk.native = Files
    BY <1>1, <1>3 DEF InspectCandidate, CurrentImage, Completed
  <2>2. DiskOK'
    BY <2>1, Still
  <2>3. ~Untouched(disk)
    BY <1>1 DEF Untouched, Completed, NoJournal
  <2> QED
    BY <1>1, <1>3, <2>1, <2>2, <2>3 DEF DiskOK, IInv, TypeOK, ActorOK,
       Phases, Steps, Images, Journals, Reconciling, Checkpoints, StagingOK,
       PublicationOK, OutcomeOK, Begun, Completed
<1> QED BY <1>2, <1>3

(* The intent precedes the removal of the private tree.                    *)
LEMMA CandidateRemovalIntentStep ==
  ASSUME IInv, CandidateRemovalIntent
  PROVE  IInv'
<1> DEFINE d == [disk EXCEPT !.journal.candidate_removal_started = TRUE]
<1>1. /\ disk \in Images /\ ImageOK(disk) /\ CurrentImage(disk)
      /\ disk.candidate /\ Completed("record_promoted")
      /\ Completed("candidate_ready") => disk.native = Files
      /\ at = "candidate_removal_started" /\ phase = "op"
      /\ actor = "reconcile"
  BY DEF IInv, TypeOK, SurvivorsOK, ActorOK, Preparing, PublicationOK,
     CandidateRemovalIntent
<1>2. d \in Images
  BY <1>1 DEF Images, Journals
<1>3. /\ ImageOK(d) /\ CurrentImage(d)
      /\ d.candidate /\ d.journal.candidate_removal_started = TRUE
      /\ "record_promoted" \in d.journal.completed
      /\ "candidate_ready" \in d.journal.completed => d.native = Files
      /\ d.status = disk.status
  BY <1>1 DEF Images, Journals, ImageOK, PrefixClosed, CurrentImage,
     ArchiveNeeded, OldTrees, Completed
<1>4. Change(d)
  BY DEF CandidateRemovalIntent
<1> HIDE DEF d
<1>5. disk' = d /\ DiskOK'
  BY <1>1, <1>2, <1>3, <1>4, Moved
<1> QED
  BY <1>1, <1>3, <1>5 DEF DiskOK, IInv, TypeOK, ActorOK, Phases,
     Checkpoints, StagingOK, PublicationOK, OutcomeOK, Begun, Completed,
     CandidateRemovalIntent

(* rmtree of the private tree, one file.                                   *)
LEMMA RemoveCandidateFileStep ==
  ASSUME IInv, NEW f \in Files, RemoveCandidateFile(f)
  PROVE  IInv'
<1> DEFINE d == [disk EXCEPT !.native = @ \ {f}]
<1>1. /\ disk \in Images /\ ImageOK(disk) /\ CurrentImage(disk)
      /\ disk.candidate /\ disk.journal.candidate_removal_started
      /\ at = "candidate_removed" /\ phase = "op" /\ actor = "reconcile"
  BY DEF IInv, TypeOK, SurvivorsOK, ActorOK, Preparing, PublicationOK,
     RemoveCandidateFile
<1>2. d \in Images
  BY <1>1 DEF Images
<1>3. /\ ImageOK(d) /\ CurrentImage(d)
      /\ d.candidate = TRUE /\ d.journal.candidate_removal_started
      /\ d.status = disk.status
  BY <1>1 DEF Images, Journals, ImageOK, PrefixClosed, CurrentImage,
     ArchiveNeeded, OldTrees, Completed
<1>4. Change(d)
  BY DEF RemoveCandidateFile
<1> HIDE DEF d
<1>5. disk' = d /\ DiskOK'
  BY <1>1, <1>2, <1>3, <1>4, Moved
<1> QED
  BY <1>1, <1>3, <1>5 DEF DiskOK, IInv, TypeOK, ActorOK, Phases,
     Checkpoints, StagingOK, PublicationOK, OutcomeOK, Begun, Completed,
     RemoveCandidateFile

(* The private tree is gone.                                               *)
LEMMA CandidateRemovedStep ==
  ASSUME IInv, CandidateRemoved
  PROVE  IInv'
<1> DEFINE d == [disk EXCEPT !.candidate = FALSE]
<1>1. /\ disk \in Images /\ ImageOK(disk) /\ CurrentImage(disk)
      /\ disk.candidate /\ disk.journal.candidate_removal_started
      /\ at = "candidate_removed" /\ phase = "op" /\ actor = "reconcile"
  BY DEF IInv, TypeOK, SurvivorsOK, ActorOK, Preparing, PublicationOK,
     CandidateRemoved
<1>2. d \in Images
  BY <1>1 DEF Images
<1>3. /\ ImageOK(d) /\ CurrentImage(d)
      /\ d.candidate = FALSE /\ d.journal.candidate_removal_started
      /\ d.status = disk.status
  BY <1>1 DEF Images, Journals, ImageOK, PrefixClosed, CurrentImage,
     ArchiveNeeded, OldTrees, Completed, CandidateRemoved
<1>4. Change(d)
  BY DEF CandidateRemoved
<1> HIDE DEF d
<1>5. disk' = d /\ DiskOK'
  BY <1>1, <1>2, <1>3, <1>4, Moved
<1> QED
  BY <1>1, <1>3, <1>5 DEF DiskOK, IInv, TypeOK, ActorOK, Phases,
     Checkpoints, StagingOK, PublicationOK, OutcomeOK, Begun, Completed,
     CandidateRemoved

(* Reconciliation writes FAILED, or finds an outcome.                      *)
LEMMA MarkFailedStep ==
  ASSUME IInv, MarkFailed
  PROVE  IInv'
<1>1. /\ disk \in Images /\ ImageOK(disk)
      /\ at = "terminal" /\ phase = "op" /\ actor = "reconcile"
      /\ Untouched(disk) \/ (CurrentImage(disk) /\ ~disk.candidate)
      /\ Untouched(disk) => disk.status = "RUNNING"
  BY DEF IInv, TypeOK, SurvivorsOK, OutcomeOK, MarkFailed
<1>2. CASE /\ disk.status = "RUNNING"
           /\ Change([disk EXCEPT !.status = "FAILED"]) /\ Done
  <2> DEFINE d == [disk EXCEPT !.status = "FAILED"]
  <2>1. d \in Images
    BY <1>1 DEF Images
  <2>2. CASE Untouched(disk)
    <3>1. Untouched(d) /\ ImageOK(d) /\ d.status = "FAILED"
      BY <1>1, <2>2 DEF Images, ImageOK, Untouched, OldTrees
    <3> HIDE DEF d
    <3>2. disk' = d /\ DiskOK'
      BY <1>2, <2>1, <3>1, Moved DEF d
    <3> QED
      BY <1>1, <1>2, <3>1, <3>2 DEF DiskOK, IInv, TypeOK, ActorOK, Phases,
         Checkpoints, StagingOK, PublicationOK, OutcomeOK, Begun
  <2>3. CASE CurrentImage(disk) /\ ~disk.candidate
    <3>1. CurrentImage(d) /\ ~d.candidate /\ ImageOK(d) /\ d.status = "FAILED"
      BY <1>1, <2>3 DEF Images, ImageOK, CurrentImage, ArchiveNeeded, OldTrees
    <3> HIDE DEF d
    <3>2. disk' = d /\ DiskOK'
      BY <1>2, <2>1, <3>1, Moved DEF d
    <3> QED
      BY <1>1, <1>2, <3>1, <3>2 DEF DiskOK, IInv, TypeOK, ActorOK, Phases,
         Checkpoints, StagingOK, PublicationOK, OutcomeOK, Begun
  <2> QED BY <1>1, <2>2, <2>3
<1>3. CASE disk.status = "FAILED" /\ Turn("finalize", "op")
  <2>1. DiskOK'
    BY <1>3, Still
  <2> QED
    BY <1>1, <1>3, <2>1 DEF DiskOK, IInv, TypeOK, ActorOK, Phases, Steps,
       Reconciling, Checkpoints, StagingOK, PublicationOK, OutcomeOK, Begun
<1>4. CASE disk.status = "SUCCESS" /\ Contradiction(TRUE)
  <2> DEFINE d == [disk EXCEPT !.journal.recovery_failure = TRUE]
  <2>1. d \in Images
    BY <1>1 DEF Images, Journals
  <2>2. CurrentImage(disk)
    BY <1>1, <1>4
  <2>3. ImageOK(d) /\ d.status = "SUCCESS"
    BY <1>1, <1>4, <2>2 DEF Images, Journals, ImageOK, CurrentImage,
       ArchiveNeeded, OldTrees
  <2> HIDE DEF d
  <2>4. disk' = d /\ DiskOK'
    BY <1>4, <2>1, <2>3, Moved DEF d, Contradiction
  <2> QED
    BY <1>4, <2>3, <2>4 DEF DiskOK, IInv, TypeOK, ActorOK, Phases, Steps,
       Actors, Checkpoints, StagingOK, PublicationOK, OutcomeOK, Begun,
       Contradiction
<1> QED BY <1>2, <1>3, <1>4 DEF MarkFailed

(* Reconciliation removes the journal.                                     *)
LEMMA RemoveReconciledJournalStep ==
  ASSUME IInv, RemoveReconciledJournal
  PROVE  IInv'
<1> DEFINE d == [disk EXCEPT !.journal.present = FALSE]
<1>1. /\ disk \in Images /\ ImageOK(disk) /\ CurrentImage(disk)
      /\ ~disk.candidate /\ disk.status # "RUNNING"
      /\ at = "finalize" /\ phase = "op" /\ actor = "reconcile"
  BY DEF IInv, TypeOK, SurvivorsOK, ActorOK, OutcomeOK, RemoveReconciledJournal
<1>2. d \in Images
  BY <1>1 DEF Images, Journals
<1>3. /\ ImageOK(d) /\ CurrentImage(d)
      /\ ~d.candidate /\ d.status = disk.status
  BY <1>1 DEF Images, Journals, ImageOK, CurrentImage, ArchiveNeeded, OldTrees
<1>4. Change(d)
  BY DEF RemoveReconciledJournal, RemoveJournal
<1> HIDE DEF d
<1>5. disk' = d /\ DiskOK'
  BY <1>1, <1>2, <1>3, <1>4, Moved
<1> QED
  BY <1>1, <1>3, <1>5 DEF DiskOK, IInv, TypeOK, ActorOK, Phases,
     Checkpoints, StagingOK, PublicationOK, OutcomeOK, Begun, Completed,
     RemoveReconciledJournal

-----------------------------------------------------------------------------

(* The fsyncs of an operation.                                             *)
LEMMA FsyncStep ==
  ASSUME IInv, Fsync
  PROVE  IInv'
<1>1. /\ disk \in Images /\ disk' = disk /\ phase = "sync" /\ ImageOK(disk)
      /\ survivors' \in SUBSET Images /\ SurvivorsOK'
  BY Synced DEF Fsync, IInv, TypeOK, SurvivorsOK
<1>2. CASE at \in Checkpoints
  BY <1>1, <1>2 DEF Fsync, IInv, TypeOK, ActorOK, Phases, Checkpoints,
     StagingOK, PublicationOK, OutcomeOK, Begun, Completed
<1>3. CASE at = "new"
  BY <1>1, <1>3 DEF Fsync, Proceed, After, IInv, TypeOK, ActorOK, Phases,
     Checkpoints, Steps, Preparing, Reconciling, StagingOK, PublicationOK,
     OutcomeOK, Begun, Completed
<1>4. CASE at = "stage"
  BY <1>1, <1>4 DEF Fsync, Proceed, After, IInv, TypeOK, ActorOK, Phases,
     Checkpoints, Steps, Preparing, Reconciling, StagingOK, PublicationOK,
     OutcomeOK, Begun, Completed
<1>5. CASE at = "stage_removal_started"
  BY <1>1, <1>5 DEF Fsync, Proceed, After, IInv, TypeOK, ActorOK, Phases,
     Checkpoints, Steps, Preparing, Reconciling, StagingOK, PublicationOK,
     OutcomeOK, Begun, Completed
<1>6. CASE at = "candidate_removal_started"
  BY <1>1, <1>6 DEF Fsync, Proceed, After, IInv, TypeOK, ActorOK, Phases,
     Checkpoints, Steps, Preparing, Reconciling, StagingOK, PublicationOK,
     OutcomeOK, Begun, Completed
<1>7. CASE at = "candidate_removed"
  <2>1. ~Untouched(disk)
    BY <1>7 DEF IInv, PublicationOK, Untouched, NoJournal
  <2> QED
    BY <1>1, <1>7, <2>1 DEF Fsync, Proceed, After, IInv, TypeOK, ActorOK,
       Phases, Checkpoints, Steps, Preparing, Reconciling, StagingOK,
       PublicationOK, OutcomeOK, Begun, Completed, CurrentImage, Untouched
<1>8. CASE at = "terminal"
  <2>1. Untouched(disk) => ~disk.journal.present
    BY DEF Untouched, NoJournal
  <2>2. CurrentImage(disk) /\ disk.source["products"] = "new" => ~disk.candidate
    BY DEF CurrentImage
  <2> QED
    BY <1>1, <1>8, <2>1, <2>2 DEF Fsync, Proceed, After, IInv, TypeOK,
       ActorOK, Actors, Phases, Checkpoints, Steps, Preparing, Reconciling,
       StagingOK, PublicationOK, OutcomeOK, Begun, Completed
<1>9. CASE at = "finalize"
    BY <1>1, <1>9 DEF Fsync, Proceed, After, IInv, TypeOK, ActorOK, Actors,
       Phases, Checkpoints, Steps, Preparing, Reconciling, StagingOK,
       PublicationOK, OutcomeOK, Begun, Completed
<1> QED
  BY <1>1, <1>2, <1>3, <1>4, <1>5, <1>6, <1>7, <1>8, <1>9 DEF Fsync, IInv,
     StagingOK, PublicationOK, ActorOK, Preparing, Reconciling, Checkpoints

(* From a recorded checkpoint to the step that follows it.                 *)
LEMMA CheckpointedStep ==
  ASSUME IInv, Working, phase \in {"mark", "marksync"}, at \in Checkpoints,
         Completed(at), Proceed, disk' = disk,
         survivors' \in SUBSET Images, SurvivorsOK'
  PROVE  IInv'
<1>1. disk \in Images /\ ImageOK(disk)
  BY DEF IInv, TypeOK, SurvivorsOK
<1>2. CASE at = "products_staged"
  BY <1>1, <1>2 DEF DiskOK, IInv, TypeOK, ActorOK, Phases, Steps, Preparing,
     Reconciling, Checkpoints, StagingOK, PublicationOK, OutcomeOK, Begun,
     Completed, Proceed, After
<1>3. CASE at = "service_staged"
  <2>1. Archiving <=> ArchiveNeeded(disk)
    BY <1>3 DEF IInv, StagingOK, Archiving, ArchiveNeeded, QueueImage
  <2> QED
    BY <1>1, <1>3, <2>1 DEF DiskOK, IInv, TypeOK, ActorOK, Phases, Steps,
       Preparing, Reconciling, Checkpoints, StagingOK, PublicationOK,
       OutcomeOK, Begun, Completed, Proceed, After
<1>4. CASE at = "preceding_disposed"
  BY <1>1, <1>4 DEF DiskOK, IInv, TypeOK, ActorOK, Phases, Steps, Preparing,
     Reconciling, Checkpoints, StagingOK, PublicationOK, OutcomeOK, Begun,
     Completed, Proceed, After
<1>5. CASE at = "record_promoted"
  <2>1. actor = "prepare" => disk.source["products"] = "none"
    BY <1>5 DEF IInv, PublicationOK, Begun, CurrentImage, Completed
  <2> QED
    BY <1>1, <1>5, <2>1 DEF DiskOK, IInv, TypeOK, ActorOK, Phases, Steps,
       Preparing, Reconciling, Checkpoints, StagingOK, PublicationOK,
       OutcomeOK, Begun, Completed, Proceed, After
<1>6. CASE at = "candidate_ready"
  BY <1>1, <1>6 DEF DiskOK, IInv, TypeOK, ActorOK, Phases, Steps, Preparing,
     Reconciling, Checkpoints, StagingOK, PublicationOK, OutcomeOK, Begun,
     Completed, Proceed, After
<1>7. CASE at = "native_tree_published"
  BY <1>1, <1>7 DEF IInv, TypeOK, ActorOK, Actors, Phases, Steps, Preparing,
     Reconciling, Checkpoints, StagingOK, PublicationOK, OutcomeOK, Begun,
     Completed, Proceed, After
<1> QED BY <1>2, <1>3, <1>4, <1>5, <1>6, <1>7 DEF Checkpoints

(* A checkpoint is recorded only when what it stands for is durable.       *)
LEMMA CheckpointStep ==
  ASSUME IInv, Checkpoint
  PROVE  IInv'
<1> DEFINE d == [disk EXCEPT !.journal.completed = @ \cup {at}]
<1>1. /\ disk \in Images /\ ImageOK(disk)
      /\ Working /\ phase = "mark" /\ at \in Checkpoints
  BY DEF IInv, TypeOK, SurvivorsOK, ActorOK, Checkpoint
<1>2. CASE Completed(at)
  BY <1>1, <1>2, Still, CheckpointedStep DEF DiskOK, Checkpoint
<1>3. CASE ~Completed(at)
  <2>1. d \in Images
    BY <1>1 DEF Images, Journals
  <2>2. Change(d) /\ Goto(at, "marksync") /\ actor' = actor
    BY <1>3 DEF Checkpoint
  <2>3. /\ d.journal.completed = disk.journal.completed \cup {at}
        /\ d.journal.present = disk.journal.present
        /\ d.journal.preceding = disk.journal.preceding
        /\ d.journal.stage_removal_started = disk.journal.stage_removal_started
        /\ d.journal.candidate_removal_started =
              disk.journal.candidate_removal_started
        /\ d.had = disk.had /\ d.overwrite = disk.overwrite
        /\ d.source = disk.source /\ d.stage = disk.stage
        /\ d.staged = disk.staged /\ d.archive = disk.archive
        /\ d.archived = disk.archived /\ d.candidate = disk.candidate
        /\ d.native = disk.native /\ d.status = disk.status
    BY <1>1 DEF Images, Journals
  <2> HIDE DEF d
  <2>4. CASE at = "products_staged"
    <3>1. /\ ImageOK(d) /\ QueueImage(d) /\ Staging(d) /\ d.stage
          /\ "service_staged" \notin d.journal.completed
          /\ d.source["products"] = "none"
      BY <1>1, <1>3, <2>3, <2>4 DEF IInv, StagingOK, Begun, ImageOK,
         PrefixClosed, QueueImage, Staging, Completed
    <3>2. disk' = d /\ DiskOK'
      BY <2>1, <2>2, <2>3, <3>1, Moved
    <3> QED
      BY <2>2, <2>3, <2>4, <3>1, <3>2 DEF DiskOK, IInv, TypeOK, ActorOK,
         Phases, Checkpoints, StagingOK, PublicationOK, OutcomeOK, Begun,
         Completed
  <2>5. CASE at = "service_staged"
    <3>1. /\ ImageOK(d) /\ QueueImage(d) /\ Staging(d) /\ d.stage
          /\ "products_staged" \in d.journal.completed
          /\ d.source["service"] = "none"
      BY <1>1, <1>3, <2>3, <2>5 DEF IInv, StagingOK, Begun, ImageOK,
         PrefixClosed, QueueImage, Staging, Completed
    <3>2. disk' = d /\ DiskOK'
      BY <2>1, <2>2, <2>3, <3>1, Moved
    <3> QED
      BY <2>2, <2>3, <2>5, <3>1, <3>2 DEF DiskOK, IInv, TypeOK, ActorOK,
         Phases, Checkpoints, StagingOK, PublicationOK, OutcomeOK, Begun,
         Completed
  <2>6. CASE at = "preceding_disposed"
    <3>1. /\ ImageOK(d) /\ QueueImage(d)
          /\ (~d.stage /\ Removing(d)) \/ Archived(d)
          /\ "service_staged" \in d.journal.completed
      BY <1>1, <1>3, <2>3, <2>6 DEF IInv, StagingOK, Begun, ImageOK,
         PrefixClosed, QueueImage, Removing, Archived, ArchiveNeeded, OldTrees,
         Completed
    <3>2. disk' = d /\ DiskOK'
      BY <2>1, <2>2, <2>3, <3>1, Moved
    <3> QED
      BY <2>2, <2>3, <2>6, <3>1, <3>2 DEF DiskOK, IInv, TypeOK, ActorOK,
         Phases, Checkpoints, StagingOK, PublicationOK, OutcomeOK, Begun,
         Completed
  <2>7. CASE at \in {"record_promoted", "candidate_ready",
                     "native_tree_published"}
    <3>1. ArchiveNeeded(d) = ArchiveNeeded(disk) /\ OldTrees(d) = OldTrees(disk)
      BY <2>3 DEF ArchiveNeeded, OldTrees
    <3>2. ImageOK(d) /\ CurrentImage(d)
      BY <1>1, <1>3, <2>3, <2>7, <3>1 DEF IInv, PublicationOK, Begun,
         ImageOK, PrefixClosed, CurrentImage, Completed
    <3>3. disk' = d /\ DiskOK'
      BY <2>1, <2>2, <2>3, <3>2, Moved
    <3>4. at = "record_promoted" =>
            /\ "candidate_ready" \notin disk.journal.completed
            /\ ~disk.journal.candidate_removal_started
      BY <1>1, <1>3 DEF IInv, PublicationOK, Begun, ImageOK, PrefixClosed,
         CurrentImage, Completed
    <3> QED
      BY <1>1, <2>2, <2>3, <2>7, <3>2, <3>3, <3>4 DEF DiskOK, IInv, TypeOK,
         ActorOK, Phases, Checkpoints, StagingOK, PublicationOK, OutcomeOK,
         Begun, Completed
  <2> QED BY <1>1, <2>4, <2>5, <2>6, <2>7 DEF Checkpoints
<1> QED BY <1>2, <1>3

(* The checkpoint reaches the medium.                                      *)
LEMMA CheckpointFsyncStep ==
  ASSUME IInv, CheckpointFsync
  PROVE  IInv'
<1>1. survivors' \in SUBSET Images /\ SurvivorsOK' /\ disk' = disk
  BY Synced DEF DiskOK, CheckpointFsync, IInv, SurvivorsOK
<1>2. at \in Checkpoints /\ Completed(at)
  BY DEF CheckpointFsync, IInv, ActorOK, StagingOK, PublicationOK,
     Checkpoints, Begun, Preparing, Reconciling
<1> QED BY <1>1, <1>2, CheckpointedStep DEF CheckpointFsync

-----------------------------------------------------------------------------

(* An exception of the calculation.                                        *)
LEMMA AbortStep ==
  ASSUME IInv, Abort
  PROVE  IInv'
<1>1. DiskOK'
  BY Still DEF Abort
<1>2. at' = "locate" /\ phase' = "op" /\ actor' = "reconcile"
  BY DEF Abort
<1>3. TypeOK' /\ ActorOK'
  BY <1>1, <1>2 DEF DiskOK, TypeOK, ActorOK, Steps, Phases, Actors,
     Reconciling, Checkpoints
<1>4. StagingOK' /\ PublicationOK' /\ OutcomeOK'
  BY <1>2 DEF StagingOK, PublicationOK, OutcomeOK
<1> QED BY <1>1, <1>3, <1>4 DEF DiskOK, IInv

(* An exception of reconciliation: the evidence it writes into the journal *)
(* is again one that a later start can reconcile.                          *)
LEMMA FaultStep ==
  ASSUME IInv, Fault
  PROVE  IInv'
<1> DEFINE d == [disk EXCEPT !.journal =
                    [InMemory EXCEPT !.recovery_failure = TRUE]]
<1>1. /\ disk \in Images /\ ImageOK(disk) /\ actor = "reconcile"
      /\ at \in Reconciling
  BY DEF IInv, TypeOK, SurvivorsOK, ActorOK, Fault
<1>2. SUFFICES DiskOK'
  BY <1>2 DEF DiskOK, Fault, IInv, TypeOK, ActorOK, Actors, Steps, Phases,
     Checkpoints, StagingOK, PublicationOK, OutcomeOK
<1>3. CASE UNCHANGED <<disk, survivors>>
  BY <1>3, Still
<1>4. CASE /\ at # "locate" /\ (disk.journal.present \/ at = "finalize")
           /\ Change(d)
  <2>1. InMemory \in Journals
    <3>1. disk.journal \in Journals
      BY <1>1 DEF Images
    <3> QED BY <3>1 DEF InMemory, Journals
  <2>a. d \in Images
    <3>1. [InMemory EXCEPT !.recovery_failure = TRUE] \in Journals
      BY <2>1 DEF Journals
    <3> QED BY <1>1, <3>1 DEF Images
  <2>2. /\ d.journal.completed =
             IF phase = "marksync" THEN disk.journal.completed \ {at}
                                   ELSE disk.journal.completed
        /\ d.journal.present
        /\ d.journal.preceding = disk.journal.preceding
        /\ d.journal.stage_removal_started =
             (/\ disk.journal.stage_removal_started
              /\ ~(at = "stage_removal_started" /\ phase = "sync"))
        /\ d.journal.candidate_removal_started =
             (/\ disk.journal.candidate_removal_started
              /\ ~(at = "candidate_removal_started" /\ phase = "sync"))
        /\ d.had = disk.had /\ d.overwrite = disk.overwrite
        /\ d.source = disk.source /\ d.stage = disk.stage
        /\ d.staged = disk.staged /\ d.archive = disk.archive
        /\ d.archived = disk.archived /\ d.candidate = disk.candidate
        /\ d.native = disk.native /\ d.status = disk.status
    BY <1>1 DEF InMemory, Images, Journals
  <2> HIDE DEF d
  <2>3. ArchiveNeeded(d) = ArchiveNeeded(disk) /\ OldTrees(d) = OldTrees(disk)
    BY <2>2 DEF ArchiveNeeded, OldTrees
  <2>4. CASE at \in {"staging", "stage", "products_staged", "service_staged"}
    <3>1. QueueImage(disk)
      BY <2>4 DEF IInv, StagingOK
    <3>2. PrefixClosed(d.journal.completed)
      BY <1>1, <2>2, <2>4 DEF IInv, ActorOK, StagingOK, ImageOK,
         PrefixClosed, Begun, Staging, Completed, Checkpoints
    <3>3. QueueImage(d)
      BY <2>2, <2>3, <2>4, <3>1, <3>2 DEF IInv, ActorOK, StagingOK,
         QueueImage, Staging, Removing, Archived, Checkpoints, Begun, Completed
    <3> QED BY <1>4, <2>a, <2>2, <3>2, <3>3, Moved DEF ImageOK
  <2>5. CASE at \in {"stage_removal_started"}
    <3>1. QueueImage(d) /\ PrefixClosed(d.journal.completed)
      BY <1>1, <2>2, <2>3, <2>5 DEF IInv, ActorOK, StagingOK, QueueImage,
         ImageOK, Kinds, Nothing, Staging, Removing, Archived, Checkpoints,
         Begun, Completed, OldTrees, PrefixClosed, Images, Slots
    <3> QED BY <1>4, <2>a, <2>2, <3>1, Moved DEF ImageOK
  <2>6. CASE at = "preceding_disposed"
    <3>1. QueueImage(d) /\ PrefixClosed(d.journal.completed)
      BY <1>1, <2>2, <2>3, <2>6 DEF IInv, ActorOK, StagingOK, QueueImage,
         ImageOK, Staging, Removing, Archived, Checkpoints, Begun, Completed,
         PrefixClosed
    <3> QED BY <1>4, <2>a, <2>2, <3>1, Moved DEF ImageOK
  <2>7. CASE at = "record_promoted" /\ phase = "op"
    <3>1. QueueImage(d) /\ PrefixClosed(d.journal.completed)
      BY <1>1, <2>2, <2>3, <2>7 DEF IInv, PublicationOK, QueueImage,
         ImageOK, Staging, Removing, Archived, Begun, Completed, PrefixClosed
    <3> QED BY <1>4, <2>a, <2>2, <3>1, Moved DEF ImageOK
  <2>8. CASE /\ at \in {"record_promoted", "disposition", "candidate",
                        "candidate_removal_started", "candidate_removed",
                        "terminal", "finalize"}
             /\ ~(at = "record_promoted" /\ phase = "op")
    <3>1. CurrentImage(disk)
      BY <1>1, <1>4, <2>8 DEF IInv, PublicationOK, OutcomeOK, Begun,
         Untouched, NoJournal
    <3>2. PrefixClosed(d.journal.completed)
      BY <1>1, <2>2, <2>8 DEF IInv, ActorOK, PublicationOK, ImageOK,
         PrefixClosed, Begun, Completed, Checkpoints
    <3>3. CurrentImage(d)
      BY <1>1, <2>2, <2>3, <2>8, <3>1, <3>2 DEF IInv, ActorOK,
         PublicationOK, CurrentImage, Checkpoints, Begun, Completed
    <3> QED BY <1>4, <2>a, <2>2, <3>2, <3>3, Moved DEF ImageOK
  <2> QED BY <1>1, <1>4, <2>4, <2>5, <2>6, <2>7, <2>8 DEF Reconciling
<1> QED BY <1>3, <1>4 DEF Fault

(* The process dies.                                                       *)
LEMMA KillStep ==
  ASSUME IInv, Kill
  PROVE  IInv'
<1>1. DiskOK'
  BY Still DEF Kill
<1> QED
  BY <1>1 DEF DiskOK, IInv, TypeOK, ActorOK, Phases, Steps, Actors,
     Checkpoints, Kill, Stop, StagingOK, PublicationOK, OutcomeOK

(* The power fails: any surviving image may be what is left.               *)
LEMMA PowerLossStep ==
  ASSUME IInv, PowerLoss
  PROVE  IInv'
<1>1. DiskOK'
  BY Synced DEF PowerLoss
<1> QED
  BY <1>1 DEF DiskOK, IInv, TypeOK, ActorOK, Phases, Steps, Actors,
     Checkpoints, PowerLoss, Stop, StagingOK, PublicationOK, OutcomeOK

(* The service starts again.                                               *)
LEMMA RestartStep ==
  ASSUME IInv, Restart
  PROVE  IInv'
<1>1. DiskOK'
  BY Still DEF Restart
<1> QED
  BY <1>1 DEF DiskOK, IInv, TypeOK, ActorOK, Phases, Steps, Actors,
     Checkpoints, Restart, Reconciling, StagingOK, PublicationOK, OutcomeOK

(* A claimed record is an untouched image.                                 *)
LEMMA ClaimedOK ==
  ASSUME NEW trees \in SUBSET Kinds, NEW overwrite \in BOOLEAN
  PROVE  LET d == Claimed(trees, overwrite)
         IN  d \in Images /\ Untouched(d) /\ ImageOK(d) /\ d.status = "RUNNING"
<1> DEFINE d == Claimed(trees, overwrite)
<1>1. d \in Images
  BY DEF Claimed, Images, Slots, Journals, NoJournal, Nothing
<1>2. Untouched(d) /\ d.status = "RUNNING" /\ PrefixClosed(d.journal.completed)
  BY DEF Claimed, Untouched, OldTrees, NoJournal, PrefixClosed
<1> QED BY <1>1, <1>2 DEF ImageOK

(* The next record of the event is claimed.                                *)
LEMMA NextCalculationStep ==
  ASSUME IInv, NextCalculation
  PROVE  IInv'
<1>1. PICK overwrite \in BOOLEAN :
         disk' = Claimed({k \in Kinds : disk.source[k] # "none"}, overwrite)
  BY DEF NextCalculation
<1> QED
  BY <1>1, ClaimedOK DEF NextCalculation, IInv, TypeOK, SurvivorsOK,
     ActorOK, Actors, Steps, Phases, Checkpoints, Preparing, StagingOK,
     PublicationOK, OutcomeOK

-----------------------------------------------------------------------------
(* The initial states are claimed records.                                 *)
LEMMA InitIInv == Init => IInv
<1> SUFFICES ASSUME Init PROVE IInv
  OBVIOUS
<1>1. PICK trees \in SUBSET Kinds, overwrite \in BOOLEAN :
         disk = Claimed(trees, overwrite)
  BY DEF Init
<1> QED
  BY <1>1, ClaimedOK DEF Init, IInv, TypeOK, SurvivorsOK, ActorOK, Actors,
     Steps, Phases, Checkpoints, Preparing, StagingOK, PublicationOK, OutcomeOK

(* Every step, of whoever works on the event and of what interrupts it,    *)
(* preserves the inductive invariant.                                      *)
LEMMA NextIInv == IInv /\ [Next]_vars => IInv'
<1> SUFFICES ASSUME IInv, [Next]_vars PROVE IInv'
  OBVIOUS
<1>1. CASE Prepare
  BY <1>1, NewTransactionStep, CreateStageStep, StageTreeStep,
     ArchiveStageStep, StageRemovalIntentStep, RemoveStagedStep,
     StageRemovedStep, PromoteRecordStep, CreateCandidateStep, CopyFileStep,
     CopyDoneStep, PublishNativeTreeStep DEF Prepare
<1>2. CASE Reconcile
  BY <1>2, LocateStep, RecoverStagingStep, RecoverTreeStep,
     VerifyDispositionStep, InspectCandidateStep, CandidateRemovalIntentStep,
     RemoveCandidateFileStep, CandidateRemovedStep, MarkFailedStep,
     RemoveReconciledJournalStep DEF Reconcile
<1>3. CASE FinishCalculation \/ FinalizeTransaction
  BY <1>3, FinishCalculationStep, FinalizeTransactionStep
<1>4. CASE Fsync \/ Checkpoint \/ CheckpointFsync
  BY <1>4, FsyncStep, CheckpointStep, CheckpointFsyncStep
<1>5. CASE Abort \/ Fault \/ Kill \/ PowerLoss \/ Restart \/ NextCalculation
  BY <1>5, AbortStep, FaultStep, KillStep, PowerLossStep, RestartStep,
     NextCalculationStep
<1>6. CASE UNCHANGED vars
  BY <1>6 DEF vars, IInv, TypeOK, SurvivorsOK, ActorOK, StagingOK,
     PublicationOK, OutcomeOK, Begun, Completed
<1> QED BY <1>1, <1>2, <1>3, <1>4, <1>5, <1>6 DEF Next, Progress

(* The inductive invariant holds in every reachable state: whatever is     *)
(* interrupted, killed or lost to a power failure, every image the medium  *)
(* may hold is one reconciliation knows how to finish.                     *)
THEOREM RecalculationInvariant == Spec => []IInv
  BY InitIInv, NextIInv, PTL DEF Spec

(* Type correctness of the transaction.                                    *)
THEOREM TypeCorrect == Spec => []TypeOK
<1>1. IInv => TypeOK
  BY DEF IInv
<1> QED BY <1>1, RecalculationInvariant, PTL

(* An overwrite=false calculation never loses what preceded it.            *)
THEOREM NothingLost == Spec => []PrecedingConserved
<1>1. IInv => PrecedingConserved
  <2> SUFFICES ASSUME IInv, NEW s \in survivors, ~s.overwrite,
                      NEW k \in s.had
               PROVE  \/ /\ s.source[k] = "old" /\ s.staged[k] # "old"
                         /\ s.archived[k] # "old"
                      \/ /\ s.source[k] # "old" /\ s.staged[k] = "old"
                         /\ s.archived[k] # "old"
                      \/ /\ s.source[k] # "old" /\ s.staged[k] # "old"
                         /\ s.archived[k] = "old"
    BY DEF PrecedingConserved
  <2>1. s \in Images /\ ImageOK(s) /\ k \in Kinds /\ ArchiveNeeded(s)
    BY DEF IInv, TypeOK, SurvivorsOK, Images, ArchiveNeeded
  <2>2. CASE Untouched(s)
    BY <2>1, <2>2 DEF Untouched, OldTrees, Nothing
  <2>3. CASE QueueImage(s)
    BY <2>1, <2>3 DEF QueueImage, Staging, Removing, Archived, OldTrees,
       Nothing
  <2>4. CASE CurrentImage(s)
    BY <2>1, <2>4 DEF CurrentImage, OldTrees, Nothing, Kinds
  <2> QED BY <2>1, <2>2, <2>3, <2>4 DEF ImageOK
<1> QED BY <1>1, RecalculationInvariant, PTL

(* A preceding tree is damaged only by an overwriting calculation, after   *)
(* the stage-removal intent, and never beside a preceding tree in place.   *)
THEOREM NothingDamagedUndeclared == Spec => []DestructionDeclared
<1>1. IInv => DestructionDeclared
  <2> SUFFICES ASSUME IInv, NEW s \in survivors, NEW k \in s.had,
                      "old" \notin {s.source[k], s.staged[k], s.archived[k]}
               PROVE  /\ s.overwrite /\ s.journal.stage_removal_started
                      /\ \A j \in Kinds : s.source[j] # "old"
    BY DEF DestructionDeclared
  <2>1. s \in Images /\ ImageOK(s) /\ k \in Kinds
    BY DEF IInv, TypeOK, SurvivorsOK, Images
  <2>2. CASE Untouched(s)
    BY <2>1, <2>2 DEF Untouched, OldTrees
  <2>3. CASE QueueImage(s)
    BY <2>1, <2>3 DEF QueueImage, Staging, Removing, Archived, OldTrees,
       ArchiveNeeded, Nothing
  <2>4. CASE CurrentImage(s)
    BY <2>1, <2>4 DEF CurrentImage, ArchiveNeeded, OldTrees, Kinds
  <2> QED BY <2>1, <2>2, <2>3, <2>4 DEF ImageOK
<1> QED BY <1>1, RecalculationInvariant, PTL

(* Reconciliation never refuses what an interruption leaves, unless the    *)
(* calculation's SUCCESS is already written.                               *)
THEOREM ReconciliationNeverRefuses == Spec => []NeverContradicts
<1>1. IInv => NeverContradicts
  BY DEF IInv, OutcomeOK, NeverContradicts
<1> QED BY <1>1, RecalculationInvariant, PTL

(* The public native tree is whole and belongs to a promoted record.       *)
THEOREM PublicationIsWhole == Spec => []PublishedWhole
<1>1. IInv => PublishedWhole
  BY DEF IInv, TypeOK, SurvivorsOK, PublishedWhole, ImageOK, Untouched,
     OldTrees, QueueImage, Staging, Removing, Archived, CurrentImage, Nothing,
     Kinds
<1> QED BY <1>1, RecalculationInvariant, PTL

(* The archive holds exactly the preceding trees, whole.                   *)
THEOREM ArchiveIsWhole == Spec => []ArchiveWhole
<1>1. IInv => ArchiveWhole
  <2> SUFFICES ASSUME IInv, NEW s \in survivors, s.archive, NEW k \in Kinds
               PROVE  s.archived[k] = IF k \in s.had THEN "old" ELSE "none"
    BY DEF ArchiveWhole
  <2>1. ImageOK(s)
    BY DEF IInv, SurvivorsOK
  <2>2. s.archived = OldTrees(s)
    BY <2>1 DEF ImageOK, Untouched, QueueImage, Staging, Removing, Archived,
       CurrentImage
  <2> QED BY <2>2 DEF OldTrees
<1> QED BY <1>1, RecalculationInvariant, PTL

(* A RUNNING record without a journal has not been touched.                *)
THEOREM RunningJournaled == Spec => []RunningIsJournaled
<1>1. IInv => RunningIsJournaled
  BY DEF IInv, SurvivorsOK, RunningIsJournaled, ImageOK, Untouched,
     OldTrees, QueueImage, CurrentImage
<1> QED BY <1>1, RecalculationInvariant, PTL

(* Once nobody works on the event and the journal is gone, the outcome is  *)
(* recorded and nothing private is left.                                   *)
THEOREM SettledClean == Spec => []SettledIsClean
<1>1. IInv => SettledIsClean
  BY DEF IInv, SurvivorsOK, OutcomeOK, SettledIsClean, ImageOK, Untouched,
     QueueImage, CurrentImage
<1> QED BY <1>1, RecalculationInvariant, PTL

(* A recorded outcome is never turned into the other one: only the claim   *)
(* of the event's next record leaves it, or a power failure that takes the *)
(* unsynced outcome back to RUNNING.                                       *)
THEOREM OutcomeStays == Spec => OutcomeNeverFlips
<1> DEFINE Keeps == disk.status # "RUNNING" /\ disk'.status # disk.status =>
                        disk'.status = "RUNNING"
<1>1. ASSUME IInv, [Next]_vars PROVE Keeps
  <2>1. disk \in Images /\ SurvivorsOK
    BY <1>1 DEF IInv, TypeOK
  <2>2. CASE Prepare
    BY <2>1, <2>2 DEF Prepare, NewTransaction, CreateStage, StageTree,
       MoveToStage, ArchiveStage, StageRemovalIntent, RemoveStaged,
       StageRemoved, PromoteRecord, Contradiction, CreateCandidate, CopyFile,
       CopyDone, PublishNativeTree, Change, Images
  <2>3. CASE Reconcile
    BY <2>1, <2>3 DEF Reconcile, Locate, RecoverStaging, RecoverTree,
       MoveToStage, VerifyDisposition, InspectCandidate, Contradiction,
       CandidateRemovalIntent, RemoveCandidateFile, CandidateRemoved,
       MarkFailed, RemoveReconciledJournal, RemoveJournal, Change, Images
  <2>4. CASE FinishCalculation
    BY <1>1, <2>4 DEF FinishCalculation, IInv, OutcomeOK
  <2>5. CASE FinalizeTransaction
    BY <2>1, <2>5 DEF FinalizeTransaction, RemoveJournal, Change, Images
  <2>6. CASE Fsync \/ Checkpoint \/ CheckpointFsync
    BY <2>1, <2>6 DEF Fsync, Checkpoint, CheckpointFsync, Change, Images
  <2>7. CASE Abort \/ Fault \/ Kill \/ Restart
    BY <2>1, <2>7 DEF Abort, Fault, Kill, Restart, Change, Images
  <2>8. CASE PowerLoss
    BY <2>1, <2>8 DEF PowerLoss, SurvivorsOK
  <2>9. CASE NextCalculation
    BY <2>9 DEF NextCalculation, Claimed
  <2>10. CASE UNCHANGED vars
    BY <2>10 DEF vars
  <2> QED
    BY <1>1, <2>2, <2>3, <2>4, <2>5, <2>6, <2>7, <2>8, <2>9, <2>10
       DEF Next, Progress
<1>2. IInv /\ [Next]_vars => [Keeps]_vars
  BY <1>1
<1> QED
  BY <1>2, RecalculationInvariant, PTL DEF Spec, OutcomeNeverFlips

-----------------------------------------------------------------------------
(* The evidence of a calculation's outcome (module OutcomeEvidence), for   *)
(* every number of failing writes and of crashes: what is published beside *)
(* the record agrees with the outcome it settles on.                       *)

(* The values each artifact may have.                                      *)
Values == {"none", "partial", "whole", "torn", "complete", "success",
           "failure", "RUNNING", "SUCCESS", "FAILED"}

EvidenceTyped ==
    /\ now \in [Artifacts -> Values] /\ medium \in [Artifacts -> Values]
    /\ faults \in Nat /\ crashes \in Nat

(* What SuccessHasEvidence says, of the artifacts a view shows.            *)
Evident(view) == view["status"] = "SUCCESS" =>
                    /\ view["manifest"] = "complete"
                    /\ view["provenance"] = "success"

(* The disk is as good as what the file system shows: a crash may put one  *)
(* in the place of the other.                                              *)
BothEvident == EvidenceTyped /\ Evident(now) /\ Evident(medium)

(* The tables of the two paths stay within the steps and the artifacts.    *)
LEMMA TablesTyped ==
  ASSUME NEW s \in WriteSteps
  PROVE  /\ Writes[s].to \in Artifacts \ ByNative
         /\ Writes[s].value \in Values
         /\ {OnReturn[s], OnError[s]} \subseteq WriteSteps \cup {"done"}
<1>1. s \in {"manifest", "provenance", "success", "fail_manifest",
             "fail_provenance", "failure", "reconcile"}
  BY DEF WriteSteps, Writes
<1> QED
  BY <1>1 DEF WriteSteps, Writes, OnReturn, OnError, Artifacts, ByNative, Values

LEMMA EvidenceTypedInit == OutcomeInit => EvidenceTyped
<1> SUFFICES ASSUME OutcomeInit PROVE EvidenceTyped
  OBVIOUS
<1>1. now \in [Artifacts -> Values]
  BY DEF OutcomeInit, Values
<1>2. medium = now /\ faults \in Nat /\ crashes \in Nat
  BY DEF OutcomeInit
<1> QED BY <1>1, <1>2 DEF EvidenceTyped

LEMMA EvidenceTypedStep ==
  EvidenceTyped /\ [OutcomeNext]_outcome_vars => EvidenceTyped'
<1> SUFFICES ASSUME EvidenceTyped, [OutcomeNext]_outcome_vars
             PROVE  EvidenceTyped'
  OBVIOUS
<1> USE DEF EvidenceTyped
<1>1. CASE Run
  <2>1. now' \in [Artifacts -> Values]
    BY <1>1 DEF Run, Values
  <2>2. medium' \in [Artifacts -> Values]
    BY <1>1 DEF Run, Values
  <2> QED BY <1>1, <2>1, <2>2 DEF Run
<1>2. ASSUME NEW s \in WriteSteps, Replace(s) PROVE EvidenceTyped'
  <2>1. Writes[s].value \in Values
    BY TablesTyped
  <2>2. now' \in [Artifacts -> Values]
    BY <1>2, <2>1 DEF Replace
  <2>3. faults' \in Nat
    BY <1>2 DEF Replace, Raise
  <2> QED BY <1>2, <2>2, <2>3 DEF Replace
<1>3. ASSUME NEW s \in WriteSteps, Sync(s) PROVE EvidenceTyped'
  <2>1. faults' \in Nat
    BY <1>3 DEF Sync, Raise
  <2> QED BY <1>3, <2>1 DEF Sync, DirectorySynced
<1>4. ASSUME NEW a \in ByNative, Flush(a) PROVE EvidenceTyped'
  BY <1>4 DEF Flush, Artifacts
<1>5. CASE KillService
  BY <1>5 DEF KillService, Crash
<1>6. CASE PowerFailure
  BY <1>6 DEF PowerFailure, Crash
<1>7. CASE RestartService \/ Rest \/ UNCHANGED outcome_vars
  BY <1>7 DEF RestartService, Rest, outcome_vars
<1> QED
  BY <1>1, <1>2, <1>3, <1>4, <1>5, <1>6, <1>7 DEF OutcomeNext

USE DEF Artifacts, ByNative, WriteSteps, Writes, OnReturn, OnError

LEMMA BothEvidentStep ==
  BothEvident /\ [OutcomeNext]_outcome_vars => BothEvident'
<1> SUFFICES ASSUME BothEvident, [OutcomeNext]_outcome_vars PROVE BothEvident'
  OBVIOUS
<1>t. EvidenceTyped /\ EvidenceTyped'
  BY EvidenceTypedStep DEF BothEvident
<1> SUFFICES Evident(now)' /\ Evident(medium)'
  BY <1>t DEF BothEvident
<1> USE DEF BothEvident, Evident
<1>1. CASE Run
  BY <1>1, <1>t DEF Run, EvidenceTyped
<1>2. ASSUME NEW s \in WriteSteps, Replace(s)
      PROVE  Evident(now)' /\ Evident(medium)'
  BY <1>2, <1>t DEF Replace, Allowed, EvidenceTyped
<1>3. ASSUME NEW s \in WriteSteps, Sync(s)
      PROVE  Evident(now)' /\ Evident(medium)'
  BY <1>3, <1>t DEF Sync, DirectorySynced, EvidenceTyped
<1>4. ASSUME NEW a \in ByNative, Flush(a)
      PROVE  Evident(now)' /\ Evident(medium)'
  BY <1>4, <1>t DEF Flush, EvidenceTyped
<1>5. CASE KillService
  BY <1>5 DEF KillService
<1>6. CASE PowerFailure
  BY <1>6, <1>t DEF PowerFailure, EvidenceTyped
<1>7. CASE RestartService \/ Rest \/ UNCHANGED outcome_vars
  BY <1>7 DEF RestartService, Rest, outcome_vars
<1> QED
  BY <1>1, <1>2, <1>3, <1>4, <1>5, <1>6, <1>7 DEF OutcomeNext

LEMMA AlwaysBothEvident == OutcomeSpec => []BothEvident
<1>1. OutcomeInit => BothEvident
  BY EvidenceTypedInit DEF OutcomeInit, BothEvident, Evident
<1> QED BY <1>1, BothEvidentStep, PTL DEF OutcomeSpec

(* A calculation that is SUCCESS has its manifest and its provenance, also *)
(* after any number of kills, power failures and failing writes: the       *)
(* status is written when these are durable.                               *)
THEOREM SuccessKeepsEvidence == OutcomeSpec => []SuccessHasEvidence
<1>1. BothEvident => SuccessHasEvidence
  BY DEF BothEvident, Evident, SuccessHasEvidence
<1> QED BY <1>1, AlwaysBothEvident, PTL

-----------------------------------------------------------------------------
(* How far the outcome has got at each step, when nothing has crashed and  *)
(* at most one write has failed.                                           *)
Verdict == now["status"]
Story   == now["provenance"]

Underway ==
    /\ pc = "run" => ~renamed
    /\ pc \in {"run", "manifest"} => Verdict = "RUNNING" /\ Story = "none"
    /\ pc \in {"manifest", "provenance", "success"} =>
         now["shake_log"] = "whole"
    /\ pc \in {"provenance", "success"} \/ (pc = "manifest" /\ renamed) =>
         now["manifest"] = "complete"
    /\ pc = "provenance" => /\ Verdict = "RUNNING"
                            /\ Story = IF renamed THEN "success" ELSE "none"
    /\ pc = "success" => /\ Story = "success"
                         /\ Verdict = IF renamed THEN "SUCCESS" ELSE "RUNNING"

(* The failure path meets a SUCCESS that was written and not synced, or it *)
(* replaces the provenance of a success, for which only one more failure   *)
(* would be too many.                                                      *)
Failing ==
    /\ pc = "fail_manifest" =>
         \/ ~renamed /\ Verdict = "SUCCESS"
         \/ Verdict = "RUNNING" /\ (Story = "none" \/ faults = 1)
    /\ pc = "fail_provenance" =>
         \/ ~renamed /\ Verdict = "SUCCESS"
         \/ /\ Verdict = "RUNNING"
            /\ IF renamed THEN Story = "failure"
                          ELSE Story = "none" \/ faults = 1
    /\ pc \in {"failure", "reconcile", "done"} =>
         Verdict = "SUCCESS" \/ Story # "success"

Agreement == crashes = 0 /\ faults <= 1 => pc # "down" /\ Underway /\ Failing

LEMMA AgreementStep ==
  BothEvident /\ BothEvident' /\ Agreement /\ [OutcomeNext]_outcome_vars
    => Agreement'
<1> SUFFICES ASSUME BothEvident, BothEvident', Agreement,
                    [OutcomeNext]_outcome_vars,
                    crashes' = 0, faults' <= 1
             PROVE  (pc # "down" /\ Underway /\ Failing)'
  BY DEF Agreement
<1>t. EvidenceTyped /\ EvidenceTyped'
  BY DEF BothEvident
<1> USE DEF Underway, Failing, Verdict, Story
<1>1. CASE Run
  <2>1. pc = "run" /\ pc' \in {"manifest", "fail_manifest"}
        /\ crashes' = crashes /\ faults' = faults
        /\ now'["status"] = now["status"]
        /\ now'["provenance"] = now["provenance"]
        /\ now'["shake_log"] = "whole" /\ renamed' = renamed
    BY <1>1, <1>t DEF Run, EvidenceTyped
  <2> QED BY <2>1 DEF Agreement
<1>2. ASSUME NEW s \in WriteSteps, Replace(s)
      PROVE  (pc # "down" /\ Underway /\ Failing)'
  <2>0. pc = s /\ ~renamed /\ crashes' = crashes /\ crashes = 0
        /\ faults \in Nat /\ faults <= 1 /\ faults <= faults'
    BY <1>2, <1>t DEF Replace, Raise, EvidenceTyped
  <2>1. Underway /\ Failing
    BY <2>0 DEF Agreement
  <2>2. CASE /\ Allowed(s) /\ renamed' = TRUE /\ pc' = pc /\ faults' = faults
             /\ now' = [now EXCEPT ![Writes[s].to] = Writes[s].value]
    BY <2>0, <2>1, <2>2, <1>t DEF Allowed, EvidenceTyped
  <2>3. CASE /\ ~Allowed(s) /\ pc' = OnError[s] /\ faults' = faults
             /\ now' = now /\ renamed' = renamed
    BY <2>0, <2>1, <2>3, <1>t DEF Allowed, EvidenceTyped, BothEvident, Evident
  <2>4. CASE /\ pc' = OnError[s] /\ faults' = faults + 1
             /\ now' = now /\ renamed' = renamed
    BY <2>0, <2>1, <2>4, <1>t DEF EvidenceTyped, BothEvident, Evident
  <2> QED
    BY <1>2, <2>2, <2>3, <2>4 DEF Replace, Raise
<1>3. ASSUME NEW s \in WriteSteps, Sync(s)
      PROVE  (pc # "down" /\ Underway /\ Failing)'
  <2>0. pc = s /\ renamed /\ ~renamed' /\ crashes' = crashes /\ crashes = 0
        /\ faults \in Nat /\ faults <= 1 /\ faults <= faults' /\ now' = now
    BY <1>3, <1>t DEF Sync, Raise, EvidenceTyped
  <2>1. Underway /\ Failing
    BY <2>0 DEF Agreement
  <2>2. CASE pc' = OnReturn[s] /\ faults' = faults
    BY <2>0, <2>1, <2>2, <1>t DEF EvidenceTyped
  <2>3. CASE pc' = OnError[s] /\ faults' = faults + 1
    BY <2>0, <2>1, <2>3, <1>t DEF EvidenceTyped
  <2> QED
    BY <1>3, <2>2, <2>3 DEF Sync, Raise
<1>4. ASSUME NEW a \in ByNative, Flush(a)
      PROVE  (pc # "down" /\ Underway /\ Failing)'
  BY <1>4 DEF Flush, Agreement
<1>5. CASE KillService \/ PowerFailure
  BY <1>5, <1>t DEF KillService, PowerFailure, Crash, EvidenceTyped
<1>6. CASE RestartService
  BY <1>6 DEF RestartService, Agreement
<1>7. CASE Rest \/ UNCHANGED outcome_vars
  BY <1>7 DEF Rest, outcome_vars, Agreement
<1> QED
  BY <1>1, <1>2, <1>3, <1>4, <1>5, <1>6, <1>7 DEF OutcomeNext

(* One failed write, wherever it is and whether or not the file was        *)
(* already replaced, leaves, as long as nothing crashes, no FAILED beside  *)
(* the provenance of a success and no SUCCESS beside anything else.        *)
THEOREM OneFailureIsToldRight == OutcomeSpec => []EvidenceAgrees
<1>1. OutcomeInit => Agreement
  BY DEF OutcomeInit, Agreement, Underway, Failing, Verdict, Story
<1>2. BothEvident /\ Agreement => EvidenceAgrees
  BY DEF BothEvident, Evident, Agreement, Failing, Verdict, Story,
     EvidenceAgrees
<1> QED
  BY <1>1, <1>2, AlwaysBothEvident, AgreementStep, PTL DEF OutcomeSpec
=============================================================================
