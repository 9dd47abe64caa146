------------------------- MODULE RecalculationInv -------------------------
(***************************************************************************)
(* The inductive invariant of Recalculation.  ImageOK describes, whoever   *)
(* is running, every image the medium may ever hold; StagingOK,            *)
(* PublicationOK and OutcomeOK what a step in progress may rely on.        *)
(***************************************************************************)
EXTENDS Recalculation

ArchiveNeeded(s) == ~s.overwrite /\ s.had # {}
OldTrees(s) == [k \in Kinds |-> IF k \in s.had THEN "old" ELSE "none"]

(* No journal was ever written: nothing has been touched.                  *)
Untouched(s) == /\ s.journal = NoJournal
                /\ s.source = OldTrees(s)
                /\ ~s.stage /\ s.staged = Nothing
                /\ ~s.archive /\ s.archived = Nothing
                /\ ~s.candidate /\ s.native = {}
                /\ s.status \in {"RUNNING", "FAILED"}

(* Every preceding tree is whole, in its place or in the stage.            *)
Staging(s) ==
    /\ ~s.journal.stage_removal_started
    /\ ~s.archive /\ s.archived = Nothing
    /\ "preceding_disposed" \notin s.journal.completed
    /\ \A k \in Kinds :
          IF k \in s.had
          THEN \/ s.source[k] = "old"  /\ s.staged[k] = "none"
               \/ s.source[k] = "none" /\ s.staged[k] = "old"
          ELSE s.source[k] = "none" /\ s.staged[k] = "none"
    /\ "products_staged" \in s.journal.completed => s.source["products"] = "none"
    /\ "service_staged" \in s.journal.completed => s.source["service"] = "none"
    /\ ~s.stage => s.staged = Nothing /\ s.journal.completed = {}

(* Every preceding tree was staged and the stage is being removed, or is.  *)
Removing(s) ==
    /\ ~ArchiveNeeded(s) /\ s.journal.stage_removal_started
    /\ "service_staged" \in s.journal.completed
    /\ s.source = Nothing
    /\ ~s.archive /\ s.archived = Nothing
    /\ \A k \in Kinds : /\ k \notin s.had => s.staged[k] = "none"
                        /\ s.staged[k] # "new"
    /\ ~s.stage => s.staged = Nothing
    /\ "preceding_disposed" \in s.journal.completed => ~s.stage

(* The stage has become the archive.                                       *)
Archived(s) ==
    /\ ArchiveNeeded(s) /\ ~s.journal.stage_removal_started
    /\ "service_staged" \in s.journal.completed
    /\ s.source = Nothing
    /\ ~s.stage /\ s.staged = Nothing
    /\ s.archive /\ s.archived = OldTrees(s)

QueueImage(s) ==
    /\ s.journal.present /\ s.journal.preceding = s.had
    /\ s.status = "RUNNING"
    /\ ~s.candidate /\ s.native = {}
    /\ ~s.journal.candidate_removal_started
    /\ "record_promoted" \notin s.journal.completed
    /\ Staging(s) \/ Removing(s) \/ Archived(s)

CurrentImage(s) ==
    /\ s.journal.preceding = s.had
    /\ s.source["service"] = "new"
    /\ s.source["products"] \in {"none", "new"}
    /\ ~s.stage /\ s.staged = Nothing
    /\ "preceding_disposed" \in s.journal.completed
    /\ s.journal.stage_removal_started = ~ArchiveNeeded(s)
    /\ s.archive = ArchiveNeeded(s)
    /\ s.archived = IF ArchiveNeeded(s) THEN OldTrees(s) ELSE Nothing
    /\ s.status = "RUNNING" => s.journal.present
    /\ ~s.journal.present => ~s.candidate
    /\ s.journal.candidate_removal_started =>
          /\ "record_promoted" \in s.journal.completed
          /\ s.source["products"] = "none"
    /\ s.source["products"] = "new" =>
          /\ s.native = Files /\ ~s.candidate
          /\ "candidate_ready" \in s.journal.completed
    /\ s.source["products"] = "none" /\ ~s.candidate => s.native = {}
    /\ /\ "candidate_ready" \in s.journal.completed
       /\ ~s.journal.candidate_removal_started
       => \/ s.source["products"] = "new"
          \/ s.candidate /\ s.native = Files
    /\ "native_tree_published" \in s.journal.completed =>
          s.source["products"] = "new"
    /\ s.status = "SUCCESS" => s.source["products"] = "new"

ImageOK(s) == /\ PrefixClosed(s.journal.completed)
              /\ Untouched(s) \/ QueueImage(s) \/ CurrentImage(s)

SurvivorsOK == /\ disk \in survivors
               /\ \A s \in survivors :
                     /\ ImageOK(s)
                     /\ s.status # "RUNNING" => s.status = disk.status

Begun == phase # "op"

StagingOK ==
    /\ at = "new" => \/ phase = "op" /\ Untouched(disk) /\ disk.status = "RUNNING"
                     \/ phase = "sync" /\ QueueImage(disk) /\ Staging(disk)
    /\ at = "staging" => phase = "op" /\ QueueImage(disk)
    /\ at = "stage" => /\ QueueImage(disk) /\ Staging(disk)
                       /\ phase = "op" \/ (phase = "sync" /\ disk.stage)
    /\ at \in {"products_staged", "service_staged"} =>
          /\ QueueImage(disk) /\ Staging(disk) /\ disk.stage
          /\ phase = "marksync" => Completed(at)
    /\ at = "products_staged" /\ Begun =>
          /\ disk.source["products"] = "none"
          /\ phase = "marksync" => ~Completed("service_staged")
    /\ at = "service_staged" =>
          /\ Completed("products_staged")
          /\ Begun => disk.source["service"] = "none"
    /\ at = "stage_removal_started" =>
          /\ QueueImage(disk) /\ ~ArchiveNeeded(disk)
          /\ Completed("service_staged") /\ disk.stage
          /\ \/ phase = "op" /\ Staging(disk)
             \/ /\ phase = "sync" /\ Removing(disk)
                /\ disk.staged = OldTrees(disk)
    /\ at = "preceding_disposed" =>
          /\ QueueImage(disk) /\ Completed("service_staged")
          /\ IF Begun
             THEN /\ (~disk.stage /\ Removing(disk)) \/ Archived(disk)
                  /\ phase = "marksync" => Completed("preceding_disposed")
             ELSE /\ disk.stage
                  /\ IF ArchiveNeeded(disk) THEN Staging(disk) ELSE Removing(disk)

PublicationOK ==
    /\ at = "record_promoted" =>
          IF Begun
          THEN /\ CurrentImage(disk)
               /\ actor = "prepare" => /\ disk.status = "RUNNING"
                                       /\ ~Completed("candidate_ready")
                                       /\ ~disk.journal.candidate_removal_started
               /\ phase = "marksync" => /\ Completed("record_promoted")
                                        /\ ~Completed("candidate_ready")
                                        /\ ~disk.journal.candidate_removal_started
          ELSE QueueImage(disk) /\ Completed("preceding_disposed")
    /\ at = "candidate_ready" =>
          /\ CurrentImage(disk) /\ disk.status = "RUNNING"
          /\ Completed("record_promoted")
          /\ ~disk.journal.candidate_removal_started
          /\ disk.source["products"] = "none"
          /\ phase \in {"op", "sync", "mark"} => ~Completed("candidate_ready")
          /\ Begun => disk.candidate /\ disk.native = Files
          /\ phase = "marksync" => Completed("candidate_ready")
    /\ at = "native_tree_published" =>
          /\ CurrentImage(disk) /\ disk.status = "RUNNING"
          /\ Completed("candidate_ready")
          /\ ~disk.journal.candidate_removal_started
          /\ Begun => disk.source["products"] = "new"
          /\ phase = "marksync" => Completed("native_tree_published")
    /\ at \in {"disposition", "candidate"} =>
          /\ phase = "op" /\ CurrentImage(disk)
          /\ Completed("record_promoted")
    /\ at = "candidate_removal_started" =>
          /\ CurrentImage(disk) /\ disk.candidate
          /\ Completed("record_promoted")
          /\ Completed("candidate_ready") => disk.native = Files
          /\ disk.journal.candidate_removal_started = (phase = "sync")
    /\ at = "candidate_removed" =>
          /\ CurrentImage(disk) /\ disk.journal.candidate_removal_started
          /\ disk.candidate = (phase = "op")

OutcomeOK ==
    /\ at = "terminal" /\ actor = "calculate" =>
          /\ CurrentImage(disk) /\ disk.source["products"] = "new"
          /\ phase = "op" <=> disk.status = "RUNNING"
    /\ at = "terminal" /\ actor = "reconcile" =>
          /\ Untouched(disk) \/ (CurrentImage(disk) /\ ~disk.candidate)
          /\ phase = "sync" => disk.status # "RUNNING"
          /\ Untouched(disk) /\ phase = "op" => disk.status = "RUNNING"
    /\ at = "finalize" => /\ CurrentImage(disk) /\ ~disk.candidate
                          /\ disk.status # "RUNNING"
    /\ at = "contradiction" => disk.status = "SUCCESS"
    /\ actor = "idle" => disk.status # "RUNNING"

Preparing   == {"new", "stage", "products_staged", "service_staged",
                "stage_removal_started", "preceding_disposed",
                "record_promoted", "candidate_ready", "native_tree_published"}
Reconciling == {"locate", "staging", "stage", "products_staged",
                "service_staged", "stage_removal_started",
                "preceding_disposed", "record_promoted", "disposition",
                "candidate", "candidate_removal_started",
                "candidate_removed", "terminal", "finalize"}

ActorOK ==
    /\ actor = "prepare"   => at \in Preparing
    /\ actor = "calculate" => at \in {"terminal", "finalize"}
    /\ actor = "reconcile" => at \in Reconciling
    /\ actor = "held"      => at \in {"contradiction", "none"}
    /\ actor \in {"idle", "down"} => at = "none"
    /\ at \notin Checkpoints => phase \in {"op", "sync"}
    /\ at \in {"locate", "none", "contradiction"} => phase = "op"

(* The inductive invariant: every image is one reconciliation can finish,  *)
(* and whoever works on the event finds what the step it is at needs.      *)
IInv == /\ TypeOK /\ SurvivorsOK /\ ActorOK
        /\ StagingOK /\ PublicationOK /\ OutcomeOK
=============================================================================
