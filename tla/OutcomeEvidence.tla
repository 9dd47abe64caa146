-------------------------- MODULE OutcomeEvidence --------------------------
(***************************************************************************)
(* What of one calculation's outcome is on the disk when the machine       *)
(* stops: the products and shake.log the native program writes, the        *)
(* manifest and the provenance the service publishes (product_manifest.py, *)
(* provenance.py), and the status it writes last                           *)
(* (calculation_finalization.py).  Module Execution has the same steps     *)
(* among threads, without crashes.                                         *)
(*                                                                         *)
(* The service writes a file, syncs it, renames it and syncs its           *)
(* directory.  Nobody syncs what the native program wrote.                 *)
(***************************************************************************)
EXTENDS Naturals

CONSTANTS
    MaxFaults,    \* bound on operations that raise
    MaxCrashes    \* bound on kills and power failures

ASSUME BoundsAssumption == MaxFaults \in Nat /\ MaxCrashes \in Nat

VARIABLES
    now,      \* the artifacts as the file system shows them
    medium,   \* the artifacts as a power failure would leave them
    pc,       \* the next step of the calculation
    renamed,  \* whether its file is in place and its directory not synced
    faults, crashes

outcome_vars == <<now, medium, pc, renamed, faults, crashes>>

ByNative  == {"products", "shake_log"}
Artifacts == ByNative \cup {"manifest", "provenance", "status"}

(* Variant: recovery records a state of its own.                           *)
WritesInterrupted ==
    [manifest    |-> [to |-> "manifest",   value |-> "complete"],
     provenance  |-> [to |-> "provenance", value |-> "success"],
     success     |-> [to |-> "status",     value |-> "SUCCESS"],
     fail_manifest   |-> [to |-> "manifest",   value |-> "partial"],
     fail_provenance |-> [to |-> "provenance", value |-> "failure"],
     failure         |-> [to |-> "status",     value |-> "FAILED"],
     reconcile       |-> [to |-> "status",     value |-> "INTERRUPTED"]]

(* What the steps on the way to SUCCESS, and to FAILED, write ...          *)
Writes ==
    [manifest    |-> [to |-> "manifest",   value |-> "complete"],
     provenance  |-> [to |-> "provenance", value |-> "success"],
     success     |-> [to |-> "status",     value |-> "SUCCESS"],
     fail_manifest   |-> [to |-> "manifest",   value |-> "partial"],
     fail_provenance |-> [to |-> "provenance", value |-> "failure"],
     failure         |-> [to |-> "status",     value |-> "FAILED"],
     reconcile       |-> [to |-> "status",     value |-> "FAILED"]]
(* ... what follows them ...                                               *)
OnReturn ==
    [manifest |-> "provenance", provenance |-> "success", success |-> "done",
     fail_manifest |-> "fail_provenance", fail_provenance |-> "failure",
     failure |-> "done", reconcile |-> "done"]

(* Variant: a failed SUCCESS becomes FAILED at once.                       *)
OnErrorAtOnce ==
    [manifest |-> "fail_manifest", provenance |-> "fail_manifest",
     success |-> "failure", fail_manifest |-> "fail_provenance",
     fail_provenance |-> "failure", failure |-> "reconcile",
     reconcile |-> "done"]

(* ... and what follows them when they raise.                              *)
OnError ==
    [manifest |-> "fail_manifest", provenance |-> "fail_manifest",
     success |-> "fail_manifest", fail_manifest |-> "fail_provenance",
     fail_provenance |-> "failure", failure |-> "reconcile",
     reconcile |-> "done"]
WriteSteps == DOMAIN Writes

Raise == faults < MaxFaults /\ faults' = faults + 1

-----------------------------------------------------------------------------
(* The native program runs in the tree that was promoted, and ends.        *)
Run ==
    /\ pc = "run"
    /\ \E p \in {"whole", "partial"} :
         /\ now' = [now EXCEPT !["products"] = p, !["shake_log"] = "whole"]
         /\ pc' = IF p = "whole" THEN "manifest" ELSE "fail_manifest"
    /\ medium' = [a \in Artifacts |-> IF a \in ByNative THEN "torn"
                                                        ELSE medium[a]]
    /\ UNCHANGED <<renamed, faults, crashes>>

(* _require_matching_current before every artifact, and _require_manifest, *)
(* _require_provenance and _require_nonempty_log before SUCCESS.           *)
Allowed(s) ==
    /\ now["status"] = "RUNNING"
    /\ s = "success" => /\ now["manifest"] = "complete"
                        /\ now["provenance"] = "success"
                        /\ now["shake_log"] = "whole"

(* Variant: an artifact is replaced and its directory is not synced.       *)
ReplaceUnsynced(s) ==
    /\ pc = s
    /\ \/ /\ Allowed(s)
          /\ now' = [now EXCEPT ![Writes[s].to] = Writes[s].value]
          /\ medium' = IF Writes[s].to = "status"
                       THEN [medium EXCEPT !["status"] = Writes[s].value]
                       ELSE medium
          /\ pc' = OnReturn[s]
          /\ UNCHANGED faults
       \/ ~Allowed(s) /\ pc' = OnError[s] /\ UNCHANGED <<now, medium, faults>>
    /\ UNCHANGED <<renamed, crashes>>

(* A temporary file is written, synced and renamed.                        *)
Replace(s) ==
    /\ pc = s /\ ~renamed
    /\ \/ /\ Allowed(s)
          /\ now' = [now EXCEPT ![Writes[s].to] = Writes[s].value]
          /\ renamed' = TRUE
          /\ UNCHANGED <<pc, faults>>
       \/ /\ ~Allowed(s) /\ pc' = OnError[s]
          /\ UNCHANGED <<now, renamed, faults>>
       \/ Raise /\ pc' = OnError[s] /\ UNCHANGED <<now, renamed>>
    /\ UNCHANGED <<medium, crashes>>

(* All three are in the record's directory, which is synced as a whole.    *)
DirectorySynced ==
    [a \in Artifacts |-> IF a \in ByNative THEN medium[a] ELSE now[a]]

Sync(s) ==
    /\ pc = s /\ renamed /\ renamed' = FALSE
    /\ \/ medium' = DirectorySynced /\ pc' = OnReturn[s] /\ UNCHANGED faults
       \/ Raise /\ pc' = OnError[s] /\ UNCHANGED medium
    /\ UNCHANGED <<now, crashes>>

-----------------------------------------------------------------------------
(* The kernel writes back what the native program wrote.                   *)
Flush(a) ==
    /\ a \in ByNative /\ medium[a] # now[a]
    /\ medium' = [medium EXCEPT ![a] = now[a]]
    /\ UNCHANGED <<now, pc, renamed, faults, crashes>>

Crash == /\ pc # "down" /\ pc' = "down" /\ renamed' = FALSE
         /\ crashes < MaxCrashes /\ crashes' = crashes + 1

KillService == Crash /\ UNCHANGED <<now, medium, faults>>

(* Of the native files each may be lost; the record's directory comes back *)
(* as it was last synced or as it was last written.                        *)
PowerFailure ==
    /\ Crash
    /\ \E lost \in SUBSET ByNative, synced \in BOOLEAN :
         now' = [a \in Artifacts |->
                   IF IF a \in ByNative THEN a \in lost ELSE synced
                   THEN medium[a] ELSE now[a]]
    /\ medium' = now'
    /\ UNCHANGED faults

(* The next start: a RUNNING record is reconciled to FAILED, and the       *)
(* evidence stays as it is (recalculation.py, startup_recovery.py).        *)
RestartService ==
    /\ pc = "down"
    /\ pc' = IF now["status"] = "RUNNING" THEN "reconcile" ELSE "done"
    /\ UNCHANGED <<now, medium, renamed, faults, crashes>>

(* Nothing follows a recorded outcome.                                     *)
Rest == pc = "done" /\ UNCHANGED outcome_vars

OutcomeInit ==
    /\ now = [a \in Artifacts |-> IF a = "status" THEN "RUNNING" ELSE "none"]
    /\ medium = now /\ pc = "run" /\ renamed = FALSE
    /\ faults = 0 /\ crashes = 0

OutcomeNext == \/ Run \/ \E s \in WriteSteps : Replace(s) \/ Sync(s)
               \/ \E a \in ByNative : Flush(a)
               \/ KillService \/ PowerFailure \/ RestartService \/ Rest

OutcomeSpec == OutcomeInit /\ [][OutcomeNext]_outcome_vars

-----------------------------------------------------------------------------
(* Every variable has its type.                                            *)
OutcomeTypeOK ==
    /\ now["status"] \in {"RUNNING", "SUCCESS", "FAILED"}
    /\ \A view \in {now, medium} :
         /\ DOMAIN view = Artifacts
         /\ view["manifest"] \in {"none", "complete", "partial"}
         /\ view["provenance"] \in {"none", "success", "failure"}
         /\ \A a \in ByNative : view[a] \in {"none", "partial", "whole", "torn"}
    /\ pc \in WriteSteps \cup {"run", "down", "done"} /\ renamed \in BOOLEAN
    /\ faults \in 0..MaxFaults /\ crashes \in 0..MaxCrashes

(* A calculation that is SUCCESS, also one that is so after any crash, has *)
(* its complete manifest and the provenance of its success beside it: the  *)
(* status is written when these are durable.                               *)
SuccessHasEvidence ==
    now["status"] = "SUCCESS" => /\ now["manifest"] = "complete"
                                 /\ now["provenance"] = "success"

(* One failed write leaves no contradictory evidence: the failure path     *)
(* replaces what the success path had published, or leaves a SUCCESS       *)
(* alone.  A crash, or a second failure, may leave FAILED beside the       *)
(* provenance of a success.                                                *)
EvidenceAgrees ==
    pc = "done" /\ crashes = 0 /\ faults <= 1 =>
      (now["status"] = "SUCCESS" <=> now["provenance"] = "success")

(* docs/execution-workflow.md: "Success requires validated core products,  *)
(* provenance, a product manifest, and both required logs."                *)
SuccessHasProducts ==
    now["status"] = "SUCCESS" => \A a \in ByNative : now[a] = "whole"
=============================================================================
