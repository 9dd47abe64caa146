--------------------------- MODULE Recalculation ---------------------------
(***************************************************************************)
(* The journaled transaction with which one event's calculation replaces   *)
(* the event's preceding products and service trees, and its               *)
(* reconciliation (shakemap_service/recalculation.py).                     *)
(*                                                                         *)
(* One directory entry changes per step, so the process may be killed, the *)
(* power may fail or an operation may raise between any two of them.  The  *)
(* file system keeps two things: disk is what the kernel shows, survivors  *)
(* are the images a power failure may leave.  Operations reach the medium  *)
(* in the order they were made and fsync makes all earlier ones durable,   *)
(* as on the journaling file systems the service runs on.                  *)
(*                                                                         *)
(* Names, bytes, timestamps and identities are abstracted: a tree is "old" *)
(* (the preceding calculation's), "torn" (an old one that rmtree has begun *)
(* to delete) or "new" (this calculation's).                               *)
(***************************************************************************)
CONSTANT Files      \* the request files the manifest lists

Kinds == {"products", "service"}

Checkpoints == {"products_staged", "service_staged", "preceding_disposed",
                "record_promoted", "candidate_ready", "native_tree_published"}

StagedCheckpoint(k) == IF k = "products" THEN "products_staged"
                                         ELSE "service_staged"

VARIABLES
    disk,       \* the visible file system, as far as this event is concerned
    survivors,  \* the images a power failure may leave, disk among them
    actor,      \* who is working on the event
    at,         \* the step it is working on
    phase       \* "op", then "sync" (its fsyncs), "mark" (its checkpoint)
                \* and "marksync" (the checkpoint's fsync)

vars == <<disk, survivors, actor, at, phase>>

Actors == {"idle", "prepare", "calculate", "reconcile", "held", "down"}
Steps  == Checkpoints \cup {"new", "stage", "stage_removal_started",
            "terminal", "finalize", "locate", "staging", "disposition", "candidate",
            "candidate_removal_started", "candidate_removed",
            "contradiction", "none"}
Phases == {"op", "sync", "mark", "marksync"}

Journals == [present : BOOLEAN, preceding : SUBSET Kinds,
             completed : SUBSET Checkpoints,
             stage_removal_started : BOOLEAN,
             candidate_removal_started : BOOLEAN,
             recovery_failure : BOOLEAN]

Slots == [Kinds -> {"none", "old", "torn", "new"}]

Images == [source    : Slots,            \* products/<event>, events/<event>
           stage     : BOOLEAN,          \* the private stage exists
           staged    : Slots,
           archive   : BOOLEAN,          \* the transaction's archive exists
           archived  : Slots,
           candidate : BOOLEAN,          \* the private native tree exists
           native    : SUBSET Files,     \* files in the private/public tree
           status    : {"RUNNING", "SUCCESS", "FAILED"},
           overwrite : BOOLEAN,          \* the record's flag, never changed
           journal   : Journals,
           had       : SUBSET Kinds]     \* (for the properties) the trees the
                                         \* event had before the calculation

NoJournal == [present |-> FALSE, preceding |-> {}, completed |-> {},
              stage_removal_started |-> FALSE,
              candidate_removal_started |-> FALSE,
              recovery_failure |-> FALSE]
Nothing == [k \in Kinds |-> "none"]

(* A claimed record in the queue, of an event that has these trees.        *)
Claimed(trees, overwrite) ==
    [source |-> [k \in Kinds |-> IF k \in trees THEN "old" ELSE "none"],
     stage |-> FALSE, staged |-> Nothing,
     archive |-> FALSE, archived |-> Nothing,
     candidate |-> FALSE, native |-> {},
     status |-> "RUNNING", overwrite |-> overwrite,
     journal |-> NoJournal, had |-> trees]

(* events/<event_id> is this calculation's record: it has been promoted.   *)
Current == disk.source["service"] = "new"
(* Variant: archive on overwrite=true, delete on overwrite=false.          *)
ArchivingInverted == disk.overwrite /\ disk.journal.preceding # {}

Archiving == ~disk.overwrite /\ disk.journal.preceding # {}
Completed(c) == c \in disk.journal.completed

(* The journal lists a prefix of _CHECKPOINTS.                             *)
PrefixClosed(S) ==
    /\ "service_staged"        \in S => "products_staged"    \in S
    /\ "preceding_disposed"    \in S => "service_staged"     \in S
    /\ "record_promoted"       \in S => "preceding_disposed" \in S
    /\ "candidate_ready"       \in S => "record_promoted"    \in S
    /\ "native_tree_published" \in S => "candidate_ready"    \in S

-----------------------------------------------------------------------------
(* One directory operation, and the fsyncs that follow it.                 *)

Change(d) == /\ disk' = d
             /\ survivors' = survivors \cup {d}

Goto(step, ph) == at' = step /\ phase' = ph

(* The step that follows a finished one.                                   *)
After(step) ==
    CASE step = "new"                       -> "stage"
      [] step = "stage"                     -> "products_staged"
      [] step = "products_staged"           -> "service_staged"
      [] step = "service_staged"            ->
            IF Archiving THEN "preceding_disposed"
                         ELSE "stage_removal_started"
      [] step = "stage_removal_started"     -> "preceding_disposed"
      [] step = "preceding_disposed"        -> "record_promoted"
      [] step = "record_promoted"           ->
            IF actor = "reconcile" THEN "disposition" ELSE "candidate_ready"
      [] step = "candidate_ready"           -> "native_tree_published"
      [] step = "native_tree_published"     -> "terminal"
      [] step = "candidate_removal_started" -> "candidate_removed"
      [] step = "candidate_removed"         -> "terminal"
      [] step = "terminal"                  ->
            IF disk.journal.present THEN "finalize" ELSE "none"
      [] step = "finalize"                  -> "none"

Proceed == /\ Goto(After(at), "op")
           /\ actor' = CASE After(at) = "none" -> "idle"
                         [] at = "native_tree_published" -> "calculate"
                         [] OTHER -> actor

Working == actor \in {"prepare", "calculate", "reconcile"}

Fsync == /\ Working /\ phase = "sync"
         /\ survivors' = {disk}
         /\ IF at \in Checkpoints
            THEN Goto(at, "mark") /\ UNCHANGED actor
            ELSE Proceed
         /\ UNCHANGED disk

(* _named_checkpoint: append the name and rewrite the journal atomically.  *)
Checkpoint ==
    /\ Working /\ phase = "mark"
    /\ IF Completed(at)
       THEN Proceed /\ UNCHANGED <<disk, survivors>>
       ELSE /\ Change([disk EXCEPT !.journal.completed = @ \cup {at}])
            /\ Goto(at, "marksync") /\ UNCHANGED actor

CheckpointFsync ==
    /\ Working /\ phase = "marksync"
    /\ survivors' = {disk}
    /\ Proceed
    /\ UNCHANGED disk

Turn(step, ph) == /\ Goto(step, ph)
                  /\ UNCHANGED <<disk, survivors, actor>>

Op(step) == Working /\ at = step /\ phase = "op"
Done     == Goto(at, "sync") /\ UNCHANGED actor

(* Reconciliation raises RecalculationError, the evidence contradicts      *)
(* itself, and _record_recovery_failure writes that into the journal.      *)
Contradiction(recorded) ==
    /\ IF recorded
       THEN Change([disk EXCEPT !.journal.recovery_failure = TRUE])
       ELSE UNCHANGED <<disk, survivors>>
    /\ actor' = "held" /\ Goto("contradiction", "op")

-----------------------------------------------------------------------------
(* prepare_calculation, and the operations reconciliation shares with it.  *)

(* _new_transaction: detect the preceding trees and write the first        *)
(* journal.  The missing-counterpart warning only adds text to the record. *)
NewTransaction ==
    /\ Op("new")
    /\ ~disk.journal.present /\ ~disk.stage /\ ~disk.candidate
    /\ Change([disk EXCEPT !.journal = [NoJournal EXCEPT !.present = TRUE,
                 !.preceding = {k \in Kinds : disk.source[k] # "none"}]])
    /\ Done

(* mkdir of the private stage; _ensure_stage keeps an existing one.        *)
CreateStage ==
    /\ Op("stage")
    /\ \/ ~disk.stage /\ Change([disk EXCEPT !.stage = TRUE]) /\ Done
       \/ /\ actor = "reconcile" /\ disk.stage
          /\ Proceed /\ UNCHANGED <<disk, survivors>>

MoveToStage(k) == [disk EXCEPT !.source[k] = "none",
                               !.staged[k] = disk.source[k]]
(* One round of _stage_preceding's loop.                                   *)
StageTree(k) ==
    /\ actor = "prepare" /\ Op(StagedCheckpoint(k))
    /\ \/ /\ k \in disk.journal.preceding
          /\ disk.source[k] # "none" /\ disk.staged[k] = "none"
          /\ Change(MoveToStage(k)) /\ Done
       \/ k \notin disk.journal.preceding /\ Turn(at, "mark")

(* The stage becomes the archive, whole, by one rename.                    *)
ArchiveStage ==
    /\ Op("preceding_disposed") /\ Archiving
    /\ disk.stage /\ ~disk.archive
    /\ Change([disk EXCEPT !.archive = TRUE, !.archived = disk.staged,
                           !.stage = FALSE, !.staged = Nothing])
    /\ Done

(* Variant: rmtree begins without the durable intent.                      *)
StageRemovalUndeclared ==
    Op("stage_removal_started") /\ Done /\ UNCHANGED <<disk, survivors>>

(* Nothing is deleted before the journal durably says so.                  *)
StageRemovalIntent ==
    /\ Op("stage_removal_started")
    /\ Change([disk EXCEPT !.journal.stage_removal_started = TRUE])
    /\ Done

(* rmtree of the stage takes a tree apart before it removes it.            *)
RemoveStaged(k) ==
    /\ Op("preceding_disposed") /\ ~Archiving
    /\ disk.staged[k] # "none"
    /\ Change([disk EXCEPT !.staged[k] = IF @ = "torn" THEN "none" ELSE "torn"])
    /\ UNCHANGED <<actor, at, phase>>

StageRemoved ==
    /\ Op("preceding_disposed") /\ ~Archiving
    /\ disk.staged = Nothing
    /\ Change([disk EXCEPT !.stage = FALSE])
    /\ Done

(* queue/<sequence> is renamed to events/<event_id>, which raises when the *)
(* destination is occupied; _recover_promotion looks before it renames.    *)
PromoteRecord ==
    /\ Op("record_promoted")
    /\ IF disk.source["service"] = "none"
       THEN Change([disk EXCEPT !.source["service"] = "new"]) /\ Done
       ELSE actor = "reconcile" /\ Contradiction(TRUE)

CreateCandidate ==
    /\ Op("candidate_ready") /\ ~disk.candidate
    /\ Change([disk EXCEPT !.candidate = TRUE])
    /\ UNCHANGED <<actor, at, phase>>

CopyFile(f) ==
    /\ Op("candidate_ready") /\ disk.candidate /\ f \notin disk.native
    /\ Change([disk EXCEPT !.native = @ \cup {f}])
    /\ UNCHANGED <<actor, at, phase>>

(* Variant: the candidate is declared ready before every file is copied.   *)
CopyDoneEarly ==
    /\ Op("candidate_ready") /\ disk.candidate
    /\ Done /\ UNCHANGED <<disk, survivors>>

CopyDone ==
    /\ Op("candidate_ready") /\ disk.candidate /\ disk.native = Files
    /\ Done /\ UNCHANGED <<disk, survivors>>

PublishNativeTree ==
    /\ Op("native_tree_published")
    /\ disk.candidate /\ disk.source["products"] = "none"
    /\ Change([disk EXCEPT !.candidate = FALSE, !.source["products"] = "new"])
    /\ Done

Prepare == \/ NewTransaction \/ CreateStage
           \/ \E k \in Kinds : StageTree(k)
           \/ ArchiveStage \/ StageRemovalIntent
           \/ \E k \in Kinds : RemoveStaged(k)
           \/ StageRemoved \/ PromoteRecord
           \/ CreateCandidate \/ (\E f \in Files : CopyFile(f)) \/ CopyDone
           \/ PublishNativeTree

-----------------------------------------------------------------------------
(* The calculation itself ends in a terminal status, and then              *)
(* finalize_transaction removes the journal.                               *)

FinishCalculation ==
    /\ actor = "calculate" /\ Op("terminal")
    /\ \E outcome \in {"SUCCESS", "FAILED"} :
          Change([disk EXCEPT !.status = outcome])
    /\ Done

RemoveJournal == Change([disk EXCEPT !.journal.present = FALSE])

FinalizeTransaction ==
    /\ actor = "calculate" /\ Op("finalize")
    /\ disk.status \in {"SUCCESS", "FAILED"}
    /\ disk.journal.completed = Checkpoints
    /\ ~disk.journal.recovery_failure
    /\ ~disk.journal.candidate_removal_started
    /\ RemoveJournal
    /\ Done

-----------------------------------------------------------------------------
(* reconcile_transaction.                                                  *)

ValidJournal(j) ==
    /\ PrefixClosed(j.completed)
    /\ j.stage_removal_started => "service_staged" \in j.completed
    /\ j.candidate_removal_started => "record_promoted" \in j.completed

SourcesAbsent == disk.source = Nothing
ArchiveNames == {k \in Kinds : disk.archived[k] # "none"}

(* _locate_transaction.  Without a journal the record is only failed       *)
(* (recover_stale_running_calculation, _ensure_terminal).                  *)
Locate ==
    /\ actor = "reconcile" /\ Op("locate")
    /\ IF disk.journal.present
       THEN IF ~ValidJournal(disk.journal) THEN Contradiction(FALSE)
            ELSE IF Current THEN Turn("record_promoted", "mark")
                            ELSE Turn("staging", "op")
       ELSE IF disk.status = "RUNNING" THEN Turn("terminal", "op")
       ELSE /\ actor' = "idle" /\ Goto("none", "op")
            /\ UNCHANGED <<disk, survivors>>

(* The head of _recover_staging: where did the interrupted work stop?      *)
RecoverStaging ==
    /\ actor = "reconcile" /\ Op("staging")
    /\ IF disk.journal.stage_removal_started
       THEN IF Archiving \/ ~SourcesAbsent
            THEN Contradiction(TRUE)
            ELSE Turn("preceding_disposed", IF disk.stage THEN "op" ELSE "sync")
       ELSE IF Archiving /\ disk.archive
       THEN IF disk.stage \/ ArchiveNames # disk.journal.preceding
            THEN Contradiction(TRUE)
            ELSE Turn("preceding_disposed", "mark")
       ELSE IF /\ ~disk.stage /\ SourcesAbsent
               /\ Completed("products_staged") /\ Completed("service_staged")
               /\ ~Archiving
       THEN Turn("preceding_disposed", "mark")
       ELSE Turn("stage", "op")

(* Variant: recovery takes a tree still in its place for a staged one.     *)
RecoverTreeUnmoved(k) == /\ actor = "reconcile" /\ Op(StagedCheckpoint(k))
                         /\ Turn(at, "mark")

(* One round of its loop over the two kinds.                               *)
RecoverTree(k) ==
    LET expected == k \in disk.journal.preceding
        source   == disk.source[k] # "none"
        inStage  == disk.staged[k] # "none"
    IN  /\ actor = "reconcile" /\ Op(StagedCheckpoint(k))
        /\ IF \/ ~expected /\ (source \/ inStage)
              \/ expected /\ (source <=> inStage)
           THEN Contradiction(TRUE)
           ELSE IF source THEN Change(MoveToStage(k)) /\ Done
                          ELSE Turn(at, "mark")

VerifyDisposition ==
    /\ actor = "reconcile" /\ Op("disposition")
    /\ IF \/ disk.stage
          \/ Archiving /\ (~disk.archive \/ ArchiveNames # disk.journal.preceding)
       THEN Contradiction(TRUE)
       ELSE Turn("candidate", "op")

(* Variant: recovery forgets the private native tree.                      *)
InspectCandidateForgetful ==
    actor = "reconcile" /\ Op("candidate") /\ Turn("terminal", "op")

(* _remove_private_candidate up to its first change.                       *)
InspectCandidate ==
    LET public == disk.source["products"] # "none"
    IN  /\ actor = "reconcile" /\ Op("candidate")
        /\ IF disk.journal.candidate_removal_started
           THEN IF public
                THEN Contradiction(TRUE)
                ELSE Turn("candidate_removed",
                          IF disk.candidate THEN "op" ELSE "sync")
           ELSE IF \/ disk.candidate /\ public
                   \/ public /\ ~Completed("candidate_ready")
                   \/ ~public /\ Completed("native_tree_published")
                   \/ ~disk.candidate /\ ~public /\ Completed("candidate_ready")
           THEN Contradiction(TRUE)
           ELSE Turn(IF disk.candidate THEN "candidate_removal_started"
                                       ELSE "terminal", "op")

(* Variant: the private tree is removed without the durable intent.        *)
CandidateRemovalUndeclared ==
    Op("candidate_removal_started") /\ Done /\ UNCHANGED <<disk, survivors>>

CandidateRemovalIntent ==
    /\ Op("candidate_removal_started")
    /\ Change([disk EXCEPT !.journal.candidate_removal_started = TRUE])
    /\ Done

RemoveCandidateFile(f) ==
    /\ Op("candidate_removed") /\ f \in disk.native
    /\ Change([disk EXCEPT !.native = @ \ {f}])
    /\ UNCHANGED <<actor, at, phase>>

CandidateRemoved ==
    /\ Op("candidate_removed") /\ disk.native = {}
    /\ Change([disk EXCEPT !.candidate = FALSE])
    /\ Done

(* Variants: recovery overwrites a recorded SUCCESS; it finalizes without  *)
(* recording the failure; it writes a state LifecycleState does not have.  *)
MarkFailedAlways ==
    /\ actor = "reconcile" /\ Op("terminal")
    /\ Change([disk EXCEPT !.status = "FAILED"]) /\ Done
MarkFailedUnwritten ==
    actor = "reconcile" /\ Op("terminal") /\ Turn("finalize", "op")
MarkInterrupted ==
    /\ actor = "reconcile" /\ Op("terminal")
    /\ Change([disk EXCEPT !.status = "INTERRUPTED"]) /\ Done

(* _mark_failed, and the failure of a record that has no journal.          *)
MarkFailed ==
    /\ actor = "reconcile" /\ Op("terminal")
    /\ \/ disk.status = "RUNNING" /\ Change([disk EXCEPT !.status = "FAILED"]) /\ Done
       \/ disk.status = "FAILED" /\ Turn("finalize", "op")
       \/ disk.status = "SUCCESS" /\ Contradiction(TRUE)

(* Variant: the journal is left behind.                                    *)
LeaveReconciledJournal ==
    actor = "reconcile" /\ Op("finalize") /\ Done /\ UNCHANGED <<disk, survivors>>

RemoveReconciledJournal ==
    /\ actor = "reconcile" /\ Op("finalize")
    /\ RemoveJournal
    /\ Done

Reconcile == \/ Locate \/ RecoverStaging
             \/ \E k \in Kinds : RecoverTree(k)
             \/ VerifyDisposition \/ InspectCandidate
             \/ CandidateRemovalIntent
             \/ \E f \in Files : RemoveCandidateFile(f)
             \/ CandidateRemoved \/ MarkFailed \/ RemoveReconciledJournal

-----------------------------------------------------------------------------
(* What interrupts them.                                                   *)

(* An operation of the calculation raises: the scheduler's worker          *)
(* reconciles, from whatever is on the disk.                               *)
Abort ==
    /\ actor \in {"prepare", "calculate"}
    /\ actor' = "reconcile" /\ Goto("locate", "op")
    /\ UNCHANGED <<disk, survivors>>

(* Variant: the evidence of a failed reconciliation forgets what the       *)
(* interrupted calculation had completed.                                  *)
InMemoryForgetful == [disk.journal EXCEPT !.present = TRUE, !.completed = {}]

(* The journal as reconciliation holds it in memory: a checkpoint or an    *)
(* intent whose write raised has been taken back, a removed journal has    *)
(* not been forgotten.                                                     *)
InMemory ==
    [disk.journal EXCEPT !.present = TRUE,
        !.completed = IF phase = "marksync" THEN @ \ {at} ELSE @,
        !.stage_removal_started =
            @ /\ ~(at = "stage_removal_started" /\ phase = "sync"),
        !.candidate_removal_started =
            @ /\ ~(at = "candidate_removal_started" /\ phase = "sync")]

(* An operation of reconciliation raises.  The evidence is added to the    *)
(* journal, if that succeeds; nobody retries before the next start.        *)
Fault ==
    /\ actor = "reconcile"
    /\ \/ UNCHANGED <<disk, survivors>>
       \/ /\ at # "locate" /\ (disk.journal.present \/ at = "finalize")
          /\ Change([disk EXCEPT !.journal =
                         [InMemory EXCEPT !.recovery_failure = TRUE]])
    /\ actor' = "held" /\ Goto("none", "op")

Stop == /\ actor # "down"
        /\ actor' = "down" /\ Goto("none", "op")

Kill == Stop /\ UNCHANGED <<disk, survivors>>

PowerLoss == /\ Stop
             /\ disk' \in survivors
             /\ survivors' = {disk'}

(* Variant: startup takes up only the records that have a journal.         *)
RestartJournaledOnly ==
    /\ actor = "down"
    /\ IF disk.status = "RUNNING" /\ disk.journal.present
       THEN actor' = "reconcile" /\ Goto("locate", "op")
       ELSE actor' = "idle" /\ Goto("none", "op")
    /\ UNCHANGED <<disk, survivors>>

(* startup_recovery takes up every RUNNING record, and only those.         *)
Restart ==
    /\ actor = "down"
    /\ IF disk.status = "RUNNING"
       THEN actor' = "reconcile" /\ Goto("locate", "op")
       ELSE actor' = "idle" /\ Goto("none", "op")
    /\ UNCHANGED <<disk, survivors>>

(* The scheduler claims the event's next record: not while its current     *)
(* record still has a journal.  Publishing and claiming a record fsyncs.   *)
NextCalculation ==
    /\ actor = "idle"
    /\ ~(Current /\ disk.journal.present)
    /\ \E overwrite \in BOOLEAN :
          disk' = Claimed({k \in Kinds : disk.source[k] # "none"}, overwrite)
    /\ survivors' = {disk'}
    /\ actor' = "prepare" /\ Goto("new", "op")

-----------------------------------------------------------------------------
Init == /\ \E trees \in SUBSET Kinds, overwrite \in BOOLEAN :
              disk = Claimed(trees, overwrite)
        /\ survivors = {disk}
        /\ actor = "prepare" /\ at = "new" /\ phase = "op"

Progress == \/ Prepare \/ FinishCalculation \/ FinalizeTransaction
            \/ Reconcile \/ Fsync \/ Checkpoint \/ CheckpointFsync

Next == \/ Progress \/ Abort \/ Fault \/ Kill \/ PowerLoss \/ Restart
        \/ NextCalculation

Spec == Init /\ [][Next]_vars

(* A thread that can run does run, and a stopped service is started again. *)
FairSpec == Spec /\ WF_vars(Progress) /\ WF_vars(Restart)

-----------------------------------------------------------------------------
TypeOK == /\ disk \in Images
          /\ survivors \in SUBSET Images
          /\ actor \in Actors /\ at \in Steps /\ phase \in Phases

(* An overwrite=false calculation never loses what preceded it: every tree *)
(* the event had is whole in exactly one of its place, the private stage   *)
(* and the archive, at every step, after every interruption and in every   *)
(* image a power failure may leave.                                        *)
PrecedingConserved ==
    \A s \in survivors : ~s.overwrite => \A k \in s.had :
        \/ s.source[k] = "old" /\ s.staged[k] # "old" /\ s.archived[k] # "old"
        \/ s.source[k] # "old" /\ s.staged[k] = "old" /\ s.archived[k] # "old"
        \/ s.source[k] # "old" /\ s.staged[k] # "old" /\ s.archived[k] = "old"

(* A preceding tree is damaged only in an overwriting calculation, once    *)
(* the stage-removal intent is on disk and no preceding tree is left in    *)
(* place: an event never keeps one half of its preceding calculation.      *)
DestructionDeclared ==
    \A s \in survivors : \A k \in s.had :
        "old" \notin {s.source[k], s.staged[k], s.archived[k]} =>
            /\ s.overwrite /\ s.journal.stage_removal_started
            /\ \A j \in Kinds : s.source[j] # "old"

(* From whatever an interruption leaves, reconciliation never meets one of *)
(* the contradictions it refuses to resolve; the only exception is a       *)
(* calculation whose SUCCESS is already written.                           *)
NeverContradicts == at = "contradiction" => disk.status = "SUCCESS"

(* The public native event tree holds every file of the request, in every  *)
(* image, and only a promoted record has one.                              *)
PublishedWhole ==
    \A s \in survivors : s.source["products"] = "new" =>
        s.native = Files /\ ~s.candidate /\ s.source["service"] = "new"

(* The archive holds exactly the trees that preceded, all of them whole.   *)
ArchiveWhole ==
    \A s \in survivors : s.archive =>
        \A k \in Kinds : s.archived[k] = IF k \in s.had THEN "old" ELSE "none"

(* While a record is RUNNING, every tree it has moved, created or removed  *)
(* is covered by a journal, in every image a power failure may leave.      *)
RunningIsJournaled ==
    \A s \in survivors : s.status = "RUNNING" /\ ~s.journal.present =>
        /\ s.source = [k \in Kinds |-> IF k \in s.had THEN "old" ELSE "none"]
        /\ ~s.stage /\ ~s.candidate /\ ~s.archive

(* When nobody works on the event and the journal is gone, the outcome is  *)
(* recorded and no private directory is left behind.                       *)
SettledIsClean ==
    actor = "idle" /\ ~disk.journal.present =>
        disk.status # "RUNNING" /\ ~disk.stage /\ ~disk.candidate

(* A recorded outcome is never turned into the other one.                  *)
OutcomeNeverFlips ==
    [][disk.status # "RUNNING" /\ disk'.status # disk.status =>
            disk'.status = "RUNNING"]_vars

(* A RUNNING record is never forgotten: it becomes terminal, unless the    *)
(* service is stopped or reconciliation itself fails.                      *)
NeverHangs == []<>(disk.status # "RUNNING" \/ actor \in {"held", "down"})

(* An interrupted calculation found at startup ends with its outcome       *)
(* recorded and its journal removed, or reconciliation is interrupted.     *)
RecoveryCompletes ==
    actor = "reconcile" ~> \/ disk.status # "RUNNING" /\ ~disk.journal.present
                           \/ actor \in {"held", "down"}
=============================================================================
